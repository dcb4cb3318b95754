# Enclave OS: formal models

TLA+ models of Enclave OS - its x86 kernel, the core of its ARM port and the C
library and line editor of its user space - checked with TLC, and proofs checked
with TLAPS. The reference is the source; each definition that models code
names its lines in `PROJECT.json` (`map`).

    tlc -workers 2 -config Tasks_safety.cfg MCTasks      # one run
    tlapm TasksProofs.tla                                # one module of proofs

## 1. The system

Enclave OS is a 32-bit single-CPU kernel. Every gate of the IDT is an interrupt
gate, so kernel code runs with interrupts off from entry to `iret`, with exceptions
that are few and that matter: `sys_open`, `sys_unlink` and the console's open
execute `sti` on their way, and a call that blocks gives the CPU to another task in
the middle of a handler. Concurrency in this kernel is therefore *between handlers*
and at those points, and the models are cut exactly there.

| Component | State | Operations | Talks to |
| --- | --- | --- | --- |
| Tasks and scheduler (`task.c`, `context_switch.asm`, `timer.c`) | PCBs in a circular doubly linked run queue; process tree; reaper list; `current_task`, `init_task`, `fpu_owner`, `task_count`, tick counter | fork, exec, waitpid, sleep, yield, exit, kill, recursive clean-up of the subtree, reaper, respawn of Init, #NM, tick, switch | paging (directories), VFS (descriptors at fork and death) |
| VFS, descriptors (`vfs.c`) | `fd_table` per task, `open_file_t` with a count, `vfs_node_t` with a count and `is_unlinked` | open, close, dup, dup2, unlink, mkdir, inheritance, closing at death | tmpfs and devfs through callbacks; heap |
| tmpfs (`tmpfs.c`) | per file a heap buffer, capacity, size; the size again in the node | create, open/O_TRUNC, read, write, unlink, close | heap, VFS |
| devfs, console, keyboard, screens (`devfs.c`, `keyboard.c`, `framebuffer.c`, `vga.c`) | `console_open_count`, ANSI automaton, key ring, back buffer and dirty rectangle, cursor | exclusive open, blocking read, write, scancode, draw, scroll, flush | scheduler (yield), IRQ 1, the shell |
| Paging and frames (`paging.c`, `pmm.c`) | page tables, COW marks, frame bitmap, reference counts, TLB | demand paging, write fault, clone, destroy, unmap, protect | VMAs, tasks |
| Areas (`vma.c`) | sorted list of `[start, end)` with rights per task | add, unmap (split), protect (split), find free, clone; mmap, munmap, mprotect, brk | heap, paging |
| Heap (`heap.c`) | blocks of the kernel heap | kmalloc, kfree | paging |
| System calls (`syscall.c`, `isr*.c`) | none of its own | dispatch, checks of user pointers | all |
| Loader, initrd (`elf.c`, `initrd.c`, `vfs.c`) | frames and tables of a space; the tree of nodes; mounts | load, lay out arguments, destroy; unpack, mount, look up, create | frames, VMAs, VFS |
| FAT32, ATA (`fat32.c`, `ata.c`) | one cached sector of the FAT | find the partition, follow a chain, read, list, look up (read-only) | VFS |
| Kernel library (`klib.c`) | none | numbers to text and back, formats | all |
| ARM port (`arch/arm`) | task table, one banked SP and LR, `TTBR0`, tick and quantum counters, frame bitmap | system calls, faults, timer, schedule; allocate; load | - |
| User library (`user_libc.c`) | end of the heap; per stream two buffers | malloc, calloc, realloc; fopen .. fclose; strtol .. vsnprintf; qsort, bsearch | system calls |
| Shell (`shell_user.c`) | line, cursor, history, scratch line | edit keys, redraw, Enter | console |

What is hard, and what correctness means for each:

* **Tasks.** Three places unlink from the run queue and three push on the reaper
  list, each with its own code. A task dies with its whole subtree, whose members may
  be asleep, zombies or parents. waitpid checks, then sleeps. Time wraps. Correct
  means: the queue stays one cycle of exactly the tasks that exist; each page is
  freed once; no pointer leads to a freed page; no wake-up is lost; nobody starves.
* **Files.** Two levels of counts, edited by open, dup, dup2, fork, close, death and
  unlink, with `sys_open` preemptible half way. Correct means: nothing is freed under a
  user; no subtree of the file system gets lost; the console has one user.
* **tmpfs.** Growth by two policies under a cap, holes, truncation that keeps the
  buffer, writes that die in the middle. Correct means: a file reads as a sequence of
  bytes.
* **Memory.** Copy on write with counts that decide who copies, and a TLB that must
  be told. Correct means: counts are numbers of mappings; who can write is alone; no
  stale translation; every task sees a memory of its own.
* **Areas.** Cuts and splits that may run out of memory between two steps, lookups that
  rely on the order, a heap that may be empty and may end anywhere. Correct means: the list is
  sorted and disjoint, and a call changes the rights of its own pages only.
* **Heap.** Blocks of all sizes in any order, headers written with interrupts on. Correct
  means: every page is in one block; what is free is found; a freed pointer is rejected.
* **Frames.** Firmware maps that are not made of pages. Correct means: what is handed out is
  memory, nobody's, and counted.
* **Loader.** Frames run out at any page; segments that fill pages in part. Correct means: a
  program finds its file's bytes, zeros and arguments, and a failed load gives all back.
* **Console.** Keys come while nobody reads; length, cursor, history and the drawn width are separate
  variables; drawing is not showing. Correct means: no waiting key is lost, and the user
  sees the line that Enter runs.
* **Storage.** Fragmented chains behind a cache of one sector, names in pieces, mounts over
  directories. Correct means: what is read and listed is what is on the disk or in the archive.
* **Library.** Headers in front of blocks, read-ahead and write-behind over one offset,
  limits of two's complement. Correct means: a block keeps its data, a stream is its file,
  a number survives printing and parsing, a sorted array is sorted.
* **ARM tasks.** One banked stack pointer and link register for all. Correct means: a task
  finds its context again, and everybody runs.

`PROJECT.json` lists every hazard at its line with the properties that cover it.

## 2. The modules

| Module | What it is |
| --- | --- |
| `Tasks` | detailed model of `task.c` and the lifecycle calls |
| `Supervision` | abstract: a supervisor tree. `Tasks!Lifecycle` is the refinement |
| `TasksProofs` | proofs, `Lifecycle` included |
| `Files` | descriptors, open files, inodes, tree, console |
| `FilesProofs` | proofs |
| `Family` | the subtree that dies with a task; used by `Files` and `CowMemory` |
| `TmpFile` | one tmpfs file |
| `SparseFile` | abstract: a sequence of bytes. `TmpFile!ReadsWhatWasWritten` is the refinement |
| `CowMemory` | user pages, frames, counts, TLB |
| `PrivateMemory` | abstract: every task has its own memory. `CowMemory!Isolation` is the refinement |
| `Areas` | the list of memory areas of one process and the calls that edit it |
| `AreasProofs` | proofs |
| `Buddy` | the kernel heap |
| `Allocator` | abstract: blocks that share no page. `Buddy!AllocatesWhatIsFree` is the refinement |
| `PageFrames` | the frame bitmaps of the x86 and the ARM, filled from the firmware's map |
| `MemoryProofs` | proofs about `CowMemory` (`Isolation` included), `PageFrames` and `Loader` |
| `Loader` | ELF images, stacks, arguments and address spaces of both architectures |
| `Terminal` | writes to the console: automaton, UTF-8, cells, scrolling, dirty rectangle, cursor |
| `Keyboard` | scancodes to bytes, the ring |
| `LineEditor` | readline of the shell |
| `Console` | composes `Keyboard`, `LineEditor` and `Terminal`: from key to glyph |
| `ConsoleProofs` | proofs about all four |
| `Namespace` | the tree of names: archive, mounts, path resolution, creation |
| `Fat32` | the FAT32 reader on a disk whose sectors may fail |
| `UserHeap` | malloc of the user library |
| `Stdio` | a buffered stream; implements `SparseFile` (`StreamIsFile`) |
| `Numbers` | conversions and formats of both libraries |
| `Sorting` | qsort and bsearch |
| `ServicesProofs` | proofs about `UserHeap`, `Sorting`, `Stdio` (`StreamIsFile` included) and `TmpFile` (`ReadsWhatWasWritten` included) |
| `ArmTasks` | scheduler, exception stubs and timer of the ARM port |
| `KernelProofs` | proofs about `Supervision`, `ArmTasks` and `Buddy` (`AllocatesWhatIsFree` included) |
| `FoldProofs` | induction and folds, for a loop body that the module which instantiates it supplies |
| `MCTasks`, `MCFiles`, `MCCowMemory`, `MCAreas`, `MCConsole`, `MCFat32`, `MCNumbers` | symmetry sets, layouts, keys, disks, texts for TLC |
| `MCPrograms`, `MCLive`, `MCMemory`, `MCServices` | several components in one run |

**Runs of several components.** `MCPrograms`, `MCLive`, `MCMemory` and `MCServices` put
components that share no variable into one run: a constant of the behaviour, `part` (in
`MCLive` the one that has not stopped), says which of them moves, the others rest in one state.
The states are the sum of the components' and not the product, and each property sees what
it would see alone. Where components interact they are composed for real: keyboard, editor and
terminal in `Console`; scheduler, process tree and address spaces in `Tasks`; both
levels of descriptors, the tree and the console in `Files`; segments, stack, arguments, tables and
frames in `Loader`.

Lines with the comment *fault* define a plausible bug of the definition that follows
(a dropped guard, a missing update). They are used by no action; substituting
one for its neighbour is how each property is shown to depend on the code it is about
(`mutants` in `PROJECT.json`).

### Tasks

A task is the page its PCB lives in, with `state` "FREE" when it is no PCB. `next`,
`prev`, `parent`, `children`, `sleep_until`, `pdir` are PCB fields; `waiting[t]` is
the pid a task in waitpid was called with; `dead_tasks` the reaper list (linked by
`reaper_next` in the code); `cr3` the owner of the loaded directory, NULL for
the boot directory. `cpu` says where the current task executes: `user` (interrupts
on), `waitpid` (in the loop of `task_waitpid`), `cleanup` (in the recursion of
`task_cleanup_children_on_exit`, whose activations are the stack `killing`), `leaving`
and `exec` (between two steps of one handler, see below),
`schedule`, and the two ends `reset` and `halted`. Actions are named for the code:
`Fork`, `Exec`, `Yield`, `Sleep`, `WaitPid`, `WaitReap`, `WaitNoHang`, `WaitBlock`,
`Die`, `CleanupEnter`, `CleanupKill`, `CleanupReturn`, `BecomeZombie`, `Reaper`,
`RespawnInit`, `Switch`, `Continue`, `Tick`, `DeviceNotAvailable`. Two handlers change
directory and CR3 in an order that matters, so each is two steps: an exit loads the boot directory
(`LeaveDirectory`) and then destroys its own (`BecomeZombie`), while exec destroys the
directory it runs on (`Exec`) and then loads the new one (`ExecSwitch`), against the
comment that explains the order (see the departures after the findings).
What can be called at
any moment, and how often, is free: programs are the environment. `orphan_on_exit` and
`monitor_children` are constants of the running system (every user task inherits them
from Init by fork), so the adoption of orphans is unreachable and left out.

### Files

`pc[t]` is where a task can lose the CPU inside a call: after each `sti` of
`sys_open` (`opening`, `alloc`, `install`, `undo`) and in the console's read
(`reading`); `hand[t]` is the local variable it carries over. All other calls are
one step because interrupts are off. `node_refs` may grow without bound (dup and close
in a loop, see the findings): `MaxRefs` cuts that off in the guards of the actions that
count. Path resolution is a choice of a directory of the tree and a name. Death is
one step: task exit closes the descriptors of the whole subtree with interrupts off.

### TmpFile

`data` is the buffer, a function on `0..capacity - 1` whose unwritten bytes are `Junk`
(what kmalloc left). `Grows(n, c)` is the growth policy as a relation: the least power
of two not below n under `SmallFile` (1 MiB), n + n / 4 above. `WriteFaults` is
the write whose source page faults after m bytes: the task dies, the file stays with a
changed buffer. A write copies one byte value n times, which is enough to tell old,
new, zero and junk apart.

### CowMemory

Page table entries are records `[frame, write, cow]`; `tlb` holds what the one CPU
has cached for `current`. `Cache` and `Write` are the hardware: any present entry may be
cached at any time and is used until invalidated. A page fault that kills is `Exit`.
Failure to allocate page tables is possible at any fork (`ForkFails` marks any
subset of the parent's pages). Not yet here: exec, brk, 4 MiB pages (nothing in user
space maps one), kernel mappings.

### Areas

The list is a sequence of records; `vma_find`, `vma_intersects` and `vma_find_free_area`
keep the early exits of the code. A walk (`Unmapped`, `Protected`) maps each area to what is
left of it, one to three pieces, and may end before any area that needs new nodes.
The unit of addresses is half a page, because brk takes any address and fork rounds the end
of the heap up. Fork goes on with the child (the parent's list does not change); exec starts
a program again, also with only a part of the list when memory runs out after the old one is gone.
`LeavesHeapAlone` keeps programs away from finding 5 and from breaks below the heap's start, which the code takes and
makes an area of that ends before it starts. Without page tables, the pages that brk leaves behind are
not seen here. `AreasAssumption` says what config.h, exec and the linker script fix: the regions are
page-aligned and in their order, no two segments of a program share a page, and none is at the stack or where the heap starts.

### Buddy

`tree` is the array of the code; `find_free` is its recursion as a recursive function;
splitting and merging are given as the set of nodes they touch. `writing[t]` is a thread in
kmalloc after it restored the interrupt flag and before the header is there. `Kfree` is
called with any pointer, as kfree is called twice with the same one on a path of exec; one whose magic
is gone is rejected.

### PageFrames and Loader

`PageFrames` chooses a machine: the x86 with an E820 map and reserved ranges (`Holes`), or the
ARM with a size and ranges from its ATAGS. `clear` is the complement of the bitmap, `given` what
was handed out. `FreePage` is called with any page that was given, also twice.
A load in `Loader` is one step over a chosen budget of free frames, so it fails at any allocation;
`MapPage`, `Zeroed`, `Copied` and `LoadSegment` follow `elf_load` page by page, `Aligned`
and `StringDepth` the arithmetic of the argument block of exec. On the ARM a destroyed space keeps
the pages it mapped (`LeftBehind`); they are counted as lost, not as owned by anyone. The loader maps
a page without asking whether it is mapped, so files are those the linker scripts make
(`ImageAssumption`): their segments share no page, and none the ARM's stack.

### Terminal, Keyboard, LineEditor, Console

A terminal is a record; a character is a string and a glyph is a cell, so pixels and fonts
are gone, but the dirty rectangle is kept as the code keeps it, corners and all, and `fb_flush`
copies what is in it. `LineEditor` has one operator per key; what it says to the terminal is written
byte by byte through the automaton. `Console` lets the interrupt of a key come between any
two reads of the shell, and a program write any of a set of pieces of text whose
concatenations make up control sequences, cut ones included.
What the code does and no document denies is modelled as it is: `ESC [ 1 ? m`, a `?` behind the first parameter, never
returns (`STUCK`; a sequence that begins with `?` is skipped, devfs.c:49), background colours, which no property needs, are
left out, and `ESC [ 2 ; 3 H` goes to row 12, because the row is counted on from its default 1.

### Fat32, Namespace

Sectors, clusters, names and entries are a few units long. A disk (`MCFat32`) is laid out as a
formatter does it, with fragmented chains over two FAT sectors, deleted long names and an entry
that crosses a directory sector. Every sector that is read may fail. `Namespace` starts with `vfs_init` and
takes the steps of `init_subsystems` in order; then any path may be looked up or created.

### UserHeap, Stdio, Numbers, Sorting

`UserHeap` asks the kernel's brk (`Fits`: within the limit) for each block and keeps the header as
memory of the heap, so a copy that is too long is seen in it. `Stdio` has the two buffers and the kernel's offset; reads and writes
may fail, and lseek refuses a target in front of the file, by when `fseek` has flushed and dropped both buffers. Two seeks lose the
program's place while bytes are read ahead that it has not taken, a relative one and one that is refused (see the departures after the findings);
`SeeksAhead` says which of them programs make, none in the run `programs` and in the theorems. A conversion in `Numbers` is one step, but its loop with its
test for overflow is the code's (`Saturating`, `Accumulated`). `k_put` and `put` lay out what `k_put_int` and `put_int`
and their unsigned fellows do with flags, width and precision; upper-case digits (`%X` prints lower-case ones), lengths
(`l`, `ll`) and `*` are left out. `Sorting` makes one exchange per
step.

### ArmTasks

Handlers run with IRQ off from the stub to the return, so each is one step. What a task must find
again lies in its frame, in the banked `SP_usr` and `LR_usr`, and in `TTBR0`: `bank`, `lr` and `ttbr0` name
the task whose value is there. A frame of the idle task holds the `SP_usr` of whoever ran before.

## 3. What the runs check

| Run | Instance | Distinct states | Result |
| --- | --- | --- | --- |
| `programs` | tasks: 5 pages (idle, Init, 3 forked), ticks mod 4, sleeps of at most 1; console: 2 rows of 4 cells, ring of 4, lines of 3, history of 2, 8 keys, 4 writes; malloc: 12 units; streams: buffer 2, file 4; numbers of 5 bits, texts of up to 5 characters; arrays of up to 4 | 2,010,470 | holds |
| `tasks_live` | `task.c`: 4 pages, ticks mod 4, sleeps of at most 3; ARM: idle and 3 tasks, quantum 3, sleeps of at most 2 | 162,881 | holds under the fairness below |
| `services` | files: 2 tasks, 2 fds, 2 open files, 2 inodes, 1 name, MaxRefs 3; tmpfs: limit 4, threshold 4; FAT: 2 disks; tree: 3 archives; heap: 8 pages, 2 threads | 667,425 | holds |
| `memory` | pages: 3 tasks, 2 pages, 3 frames; areas: 7 pages, 5 areas; frames: 6 pages of 2 bytes, 24 machines; loader: 2 slots, 8 frames, 7 images, 7 argument lists | 225,832 | holds |
| `tasks_respawn` | 3 pages | | violated: finding 1 |
| `files_refcount`, `files_console` | 1 inode | | violated: findings 2, 3 |
| `memory_munmap` | 2 tasks, 1 page, 1 frame, UnmapsShared | | violated: finding 4 |
| `areas_brk` | programs map at the start of the heap | | violated: finding 5 |
| `fat_names` | one name of two parts | | violated: finding 6 |
| `arm_link` | 2 tasks | | violated: finding 7 |
| `formats` | numbers of 5 bits, two widths, four precisions, every set of flags | | violated: finding 8 |

**Bounds and why they suffice.** *Tasks*: with three forked tasks the tree reaches
depth four (a recursion inside a recursion), a parent has two children and one of them
a child, and a queue of five has a neighbour that is neither of the edited ones;
the tick counter modulo 4 with quantum 2 lets deadlines wrap. In `tasks_live` a program sleeps for up to 3 of the 4 ticks of
the counter: a deadline lies up to three ticks ahead, before the wrap or behind it (a sum that wrapped is below the
counter, and the sleep ends at the next tick unless that one wraps as well), and is met or found passed. In `programs`, where no
property is about time, every sleep is of one tick.
Forked tasks are alike (symmetry); idle and Init are not. *Files*: two tasks
share an open file through fork or each open their own; two inodes are a file in a
directory, or an old and a new file of one name. *TmpFile*: sizes 0..4 cross the
threshold 4, the cap (n + n/4 exceeds 4 at 4) and both growth policies; seeks to 5 go
behind the limit. *CowMemory*: two questions need two shapes:
frames that come back for another page while the TLB remembers (two tasks, two
pages), and one frame with three owners (three tasks, one page). `MaxSize` = 4 bounds the
number of tasks times the number of pages in areas, in the guards of `Mmap` and `Fork`,
so that one run reaches both.
*Areas*: three pages side by side can be one area, so an area is cut at either end, in the
middle and away; 5 areas let a range cover, cut and split several at once. *Buddy*: 8
pages give a split of three levels, merges that go on over three levels, and every way to
partition the heap (677 trees). *PageFrames*: six pages of two bytes let regions begin and end
inside a page, overlap and reach behind the last page. *Loader*: segments over two pages with
a tail that is not in the file, a second program in the frames of a destroyed one, and budgets from
no frame to all. *Console*: with lines of at most three characters every edit has letters on both sides of the
cursor, a history of two is walked both ways and overflows, two rows scroll at once, and a
ring of four (three bytes) is too small for an arrow key behind another. *Fat32*: chains of three clusters in an order
that is not that of the disk, over both sectors of the FAT; offsets at, before and behind cluster
boundaries and the end. *Namespace*: mounts inside directories of the archive, three levels. *UserHeap*: three blocks and one that does not fit.
*Stdio*: buffers of two and files of four, so that reads span two fills and writes two flushes.
*Numbers*: five bits have an INT_MIN without counterpart, and texts with more digits than fit, also
for a long long of ten bits. *Sorting*: every array of up to four entries of four values, so equal ones too.
*ArmTasks*: with three user tasks the round robin passes over one that sleeps and one that is gone.

`programs`, `tasks_respawn` and `areas_brk` check deadlock: `Tasks` has none but the stops it models, which have a step of their
own (`Stopped`); the other components of `programs` end, a conversion answered, an array sorted, and there `AtEnd` repeats the
state. `CHECK_DEADLOCK FALSE` stands in the other runs, where all tasks may exit or a tree reaches `MaxNodes`.

**Refinements.** `Lifecycle`: a task is alive (RUNNING, READY, SLEEPING), a zombie,
dead (on the reaper list) or free, its supervisor is `parent`. `ReadsWhatWasWritten`:
the content is the buffer up to `fsize`. `Isolation`: the memory of a task is the
content of the frame, zero for a page of an area that is not present yet. `AllocatesWhatIsFree`:
the allocated nodes are runs of pages that share none. `StreamIsFile`: the content is the kernel's
file under what is pending, the position is where the program is; a read or a write that fails ends the promise.

**Fairness** (`FairSpec` of `Tasks`). Weak fairness of the kernel's own steps: code with
interrupts off runs on, the scheduler's switch included. Strong fairness of `Tick`: the PIC
latches an interrupt that meets IF = 0 and delivers it at the next `iret` or `sti`, so
a tick is taken if interrupts are accepted again and again, however short each time. No fairness of programs:
none has to call, exit or wait. `ArmFairness` is weak fairness of `arm_timer_tick` alone: the compare
register is set ahead in each handler and IRQ is enabled in programs and in the idle loop, so the tick stays
possible until it is taken. Nothing is promised once the machine has stopped
(`HasStopped`).

### Findings

1. The death of Init resets the machine (`tasks_respawn`): the reaper unmaps the
   stack it runs on. The documents promise a restart of PID 1.
2. An inode's count is not the number of open files that point to it
   (`files_refcount`): dup and fork add one per descriptor, close removes one per open
   file. An unlinked file that was ever dup'ed or inherited is never freed. What holds,
   and is checked, is the safe half: the count is never too small.
3. `/dev/console` cannot be opened a second time (`files_console`): the close callback runs
   for unlinked nodes only.
4. munmap of a shared page frees it under the other owner (`memory_munmap`). The
   passing run of CowMemory lets programs unmap only pages they do not share
   (`UnmapsShared = FALSE`) and shows that nothing else breaks the promise.
5. mmap with the start of the (still empty) heap as hint succeeds, and the list may stop being sorted:
   pages of the heap are then not found and touching them kills the program (`areas_brk`).
6. Long names in Cyrillic are listed wrong (`fat_names`): the parts of a name are placed by characters and written
   in bytes. In `services` such names fit in one part, and the rest of the promise holds.
7. After an interrupt or a system call an ARM program's link register is its stack pointer (`arm_link`): the stubs load
   `LR_usr` from the word of the frame that holds `SP_usr`. Everything else of the context is kept (`ContextsAreKept`).

8. `k_vsprintf` is called C99 compliant (klib.c:233) and is not (`formats`): zeros come before the sign, `#` prints nothing and
   a zero with precision 0 is printed. `OtherFormatsAreC99`, in `programs`, shows that it departs from C99 in just these formats, among
   those that `Format` spans.

**Departures in the models.** The code also departs from its documents in the following, which the models contain and which a property of
a passing run leaves out by name. They have no run of their own; each is reproduced as said here.

- exec destroys the directory it runs on (syscall.c:182) and loads the new one afterwards (187), the order that the comments at
  task.c:694-697 and :840-843 forbid. An interrupt between the two cannot happen while the gate of the system call keeps IF
  clear. `MemoryFollowsLife` allows it to the caller of exec between its two steps and to nobody else (`Replaces`); without
  that exception TLC finds `Exec` in a few steps.
- A sleep whose deadline wraps to exactly 0 never ends: 0 stands for a sleep without a deadline (task.h:76). `SleepEnds`
  is about deadlines that are not 0; said of all of them it is violated in `tasks_live`.
- An `fseek` that fails has moved the position: what was read ahead is dropped (user_libc.c:666-668) before lseek refuses
  (syscall.c:473-475). `SeeksAhead = {"failing"}` in `Programs.cfg` shows that neither `PositionsAgree` nor `StreamIsFile` survives it.
- `fseek(SEEK_CUR)` counts from the end of what was read ahead, while `ftell` takes it off: `SeeksAhead = {"CUR"}` shows the same.
  readme.txt:311 calls the library POSIX-compatible, and POSIX keeps the program's place in both seeks.
- The user library's `vsnprintf`, which os-os.txt:1674 calls C99 compliant, ignores precision and alignment of numbers, does not count
  the sign and knows neither `%o` nor the flags `+`, blank and `#`. `OtherFormatsAreC99` covers what has no flag but `0` and no
  precision, negative numbers that leave some of their width excepted.

Met while modelling, and not findings because nothing promises otherwise: an ARM space that is destroyed keeps
its pages; ustar names of exactly 100 characters lose the last one (initrd.c:170); two x86 segments
in one page lose the data of the first (the linker script aligns them);
the shell splits words longer than 63 characters (shell_user.c:41).

Properties of `Tasks` that are said "of a kernel that is up" (`Up`) end where finding 1
begins.

## 4. What is proved

| Theorem | Says | Rests on |
| --- | --- | --- |
| `TasksProofs!TypeCorrect` | `Spec => []TypeOK` for any number of pages, any counter width | `TaskAssumption`, `TimeAssumption` |
| `TasksProofs!QueueAlwaysSound` | the run queue is one cycle, both ways, of exactly the tasks that exist (`QueueIsSound`) | same |
| `TasksProofs!MemoryAlwaysFollowsLife` | pages and the task count follow the tasks' lives, so do directories, and CR3 holds one that exists, except for the caller of exec between its two steps (`MemoryFollowsLife`) | same |
| `TasksProofs!NeverDanglingTask` | no pointer leads to a page that was freed (`NoDanglingTask`) | same |
| `TasksProofs!TreeIsSupervised` | `Spec => Lifecycle`: Tasks implements Supervision | same |
| `KernelProofs!TreeIsKept` | no process of the abstract tree outlives its supervisor | `SupervisionConstants` (who Kernel, FirstRoot and None are) |
| `FilesProofs!OpensAlwaysCounted` | an open file counts its descriptors (`OpensAreCounted`) | `FilesAssumption` |
| `FilesProofs!NeverUsedAfterFree` | nothing freed is reachable (`NoUseAfterFree`) | same |
| `FilesProofs!TreeAlwaysHoldsLiveNodes` | entries lead to nodes that live (`TreeHoldsLiveNodes`) | same |
| `FilesProofs!ConsoleAlwaysExclusive` | the console has one open file (`ConsoleIsExclusive`) | same |
| `MemoryProofs!SharingAlwaysCounted` | a frame's count is the number of its mappings (`SharingIsCounted`) | `CowAssumption`, `~UnmapsShared` |
| `MemoryProofs!WritableAlwaysPrivate` | who can write to a frame is alone (`WritableIsPrivate`) | same |
| `MemoryProofs!TlbAlwaysFollows` | no stale translation (`TlbFollowsPageTable`) | same |
| `MemoryProofs!MemoryIsPrivate` | `Spec => Isolation`: CowMemory implements PrivateMemory | same |
| `MemoryProofs!FramesAlwaysSound` | `FramesSpec => []FramesAreSound` for any page size and firmware map | `FramesAssumption`, `BootAssumption` |
| `ServicesProofs!SizesAlwaysAgree` | `Spec => []SizesAgree` | `TmpFileAssumption` |
| `ServicesProofs!ReadsAreFaithful` | `Spec => ReadsWhatWasWritten`: TmpFile implements SparseFile | `TmpFileAssumption` |
| `ServicesProofs!BlocksAlwaysKeepData` | `HeapSpec => []BlocksKeepData` for any heap, header, alignment and request | `UserHeapAssumption` |
| `ServicesProofs!SortAlwaysOrdered` | `SortSpec => []SortIsOrdered` for arrays of any length | `SortingAssumption` |
| `KernelProofs!ContextsAlwaysKept` | `ArmSpec => []ContextsAreKept` for any number of tasks, any quantum and any sleeps | `ArmAssumption` |
| `AreasProofs!AreasAreAlwaysFound` | the list is sorted without overlaps and lookups that stop early are exact (`AreasAreFound`), for any layout, programs and number of areas | `AreasAssumption`, `LeavesHeapAlone` |
| `AreasProofs!EditsAreAlwaysExact` | munmap, mprotect and fork change the rights of exactly the pages they mean (`EditsAreExact`) | same |
| `MemoryProofs!ProgramsArrive` | a program has its file's bytes, zeros, rights and arguments (`ProgramArrives`), for any page size, frames and files | `LoaderAssumption`, `ImageAssumption` |
| `MemoryProofs!FramesAreOwned` | each frame is free, in one space or lost by the ARM, however far a load came (`EveryFrameIsOwned`) | same |
| `ConsoleProofs!ConsoleIsInvariant` | `ConsoleSpec => []ConsoleInv`, the inductive invariant | `TerminalAssumption`, `LineEditorAssumption`, `KeyboardAssumption`, `ConsoleAssumption` |
| `ConsoleProofs!ScreenIsFlushed` | what changed is on the screen after every write (`AllIsVisible`), for any screen and output | same |
| `ConsoleProofs!LinesAreConsistent` | the editor's length, cursor and history agree with its text (`EditorIsConsistent`) | same |
| `ConsoleProofs!KeysSurvive` | no byte that waits in the ring is lost or overwritten (`UnreadBytesSurvive`) | same |
| `ServicesProofs!PositionsAreKept` | `StdioSpec => []PositionsAgree` for any buffer size, also when lseek refuses | `StdioAssumption`, `SeeksAhead = {}` |
| `ServicesProofs!StreamsArePlainFiles` | `StdioSpec => StreamIsFile`: Stdio implements SparseFile | same |
| `KernelProofs!HeapStaysSound` | the kernel heap is partitioned into blocks, merged as far as it goes, and headers and counts agree (`HeapIsSound`), for any number of orders and threads | `BuddyAssumption` |
| `KernelProofs!HeapKeepsItsPromise` | `BuddySpec => AllocatesWhatIsFree`: Buddy implements Allocator | same |

*TypeCorrect.* TypeOK is inductive with a small strengthening about the two stacks
(`TypeInv`); one step per action. *TreeIsKept.* Supervised is not inductive alone: a free
page must have lost its supervisor, or the root that `SpawnRoot` makes would have a
dead one.

*Tasks.* None of `QueueIsSound`, `MemoryFollowsLife` and `NoDanglingTask` is inductive, and they need
each other: a task may be taken off the queue only if somebody stays on it, its page may be freed only
if nobody points to it, and the clean-up may kill a child only if the child is on no path above it.
`TaskInv` says so together. While the kernel is up (`UpInv`): the queue is a `Ring`, whose links are
inverse to each other and in which a walk from any task meets every other; the lists of children
and the parent pointers are one tree (`TreeIsSound`) below idle and Init (`RootsAreSafe`); directories,
CR3 and the owner of the FPU belong to the living (`SpacesAreSound`); the activations of
`task_cleanup_children` are a path of the tree that ends in the task that dies (`KillingIsPath`). After
Init's death, finding 1, the machine can only reset (`Lost`). The lemmas: `RingAdd` and `RingRemove`, on
which all places that edit the links rest, and which lose nobody because a set that is closed
under `next` and holds one task holds all; `WalkEnds`, that the scheduler's search stops, by well-foundedness of
the finite subsets; `SomebodyRuns`, because idle never sleeps; `KilledIsOffPath`. `TaskInv` was checked by TLC on the
1,057,643 states that `Tasks` has with five pages. `TreeIsSupervised` then takes one step per
action, `OthersStutter` for those that the tree does not see.

*Files.* `FilesInv` adds to the counts what tasks hold where they can lose the CPU
(`HandsAreSound`: the open file that `sys_open` has not installed has one reference, and no descriptor; `/dev/console` read without
a reference is kept by a descriptor of the reader itself), that counts of inodes are never too small (`NodeRefsCoverOpens`; they may be too
large, finding 2), that entries and living nodes correspond (`TreeIsSound`), and that each open of the console, finished or
not, is in `console_open_count` (`ConsoleOnce`; an inequality, because closing does not count down, finding 3).
`CloseKeeps` carries close, dup2 onto an open descriptor and death, descriptor by descriptor; `CountKeeps` the counting of an open, `MoveKeeps`
the step from a task's hand into the table, `CopyFacts` the inheritance at fork. `FilesInv` was checked by TLC first, on 1,575,720 states.

*CowMemory.* `CowInv` explains why the counts decide rightly: a page without the mark is mapped once
(`SharedIsMarked`), a frame is in a task at one page only (`FramesOnce`), a writable translation in the TLB is of a frame
mapped once (`CachedIsPrivate`), and frames are used just when they are counted (`Counted`). A write fault may then reuse
a frame with count 1 in place. The theorems assume `~UnmapsShared`, because without it finding 4 refutes
them; the passing run makes the same choice. `MemoryIsPrivate` shows of each action that it changes what one
task sees (`MmapMaps`, `MunmapUnmaps`, `WriteStores`), what a new one sees (`ForkCopies`), or what nobody sees (`...Unseen`):
faults, which move contents between frames, are invisible.

*FramesAlwaysSound.* After the boot no page becomes clear that was not clear or given, so what may be handed out is a
matter of the boot and of its rounding: regions of RAM shrink to whole pages (`Inward`), reserved ranges grow
(`Outside`). The counters need that no page behind the end is ever given, since `free_page` would take it
back. `BootAssumption` says of the machine that maps are finite, that addresses are natural numbers, that the
reserved ranges of the x86 hold page 0 (pmm.c reserves the first MiB), and that the ARM's begin at a page (constants in
arm_main.c, and arm_fb.c checks the framebuffer).

*SortAlwaysOrdered.* `HeapUnder` is a heap with a hole at `root`: every entry is below the one above it except
under the root, and what is under the root is below the one above the root. `SiftKeepsHeap` moves the hole down,
`TopIsLargest` (by well-foundedness: the first larger entry would be larger than the one above it) makes what lies
behind the heap sorted and largest (`Behind`), and `ExchangeCounts` says by a bijection that an exchange loses no entry. `bsearchKeeps` drops
the half that the order excludes.

*TmpFile.* The invariant is `TTypeOK /\ SizesAgree`. The lemma that
carries it is `GrowthSuffices` (what the policy allocates, capped, has room for n),
which needs no arithmetic of powers because the policy is a relation that contains
`n <= c`; `StoredBytes` says byte by byte what a store leaves in either buffer, and
the refinement then has one step per action: `Write` to `Write`, `WriteFaults` to
`TornWrite`, `Truncate`, `Read` and `Lseek` to their namesakes.

*ContextsAlwaysKept.* `ContextsAreKept` with the types is inductive. What has to be shown is
that `schedule` always finds somebody: the round robin takes the ready task at the least
distance, which exists because distances are natural numbers (`SomebodyIsReady`, by
well-foundedness), and idle is always ready or running. `ScheduleKeepsContexts` then covers each
handler, which differ in what they do to `tstate` before they schedule.

*BlocksAlwaysKeepData.* `BlocksKeepData` is not inductive: a program that fills its block could
overwrite another block or a header. `HeapInv` adds that blocks with their headers are apart
(`Apart`) and that no more of a block is known than it has. `NewBlock` says what all three
allocating calls share: the new header and block lie at the old end of the heap, so nothing
below changes; `realloc` must also show that it copies no more than the old block has. The
assumption bounds no size, but sums are those of integers: requests near 2^32, where the sum
with the header wraps, are outside (`MaxRequest`).

The assumption `MaxFile <= MaxSeek` says seeks reach past the limit (2^31 against
25 MiB); offsets do not wrap below it.

*Loops.* Most loops of the code are folds over a list in the models. `FoldProofs` takes the body of the loop (`Op`) and a
predicate (`Good`) as constants and proves once, by the least counterexample, that a fold passes through one state per element
(`FoldedPasses`), keeps what its body keeps (`FoldKeeps`) and goes on with an appended element (`FoldOfAppend`). Each
proof module makes an instance with its own loop body: an area that is added, a piece that is joined, a byte
that the terminal takes, a call of fputc.

*Areas.* `AreasInOrder`, the part of `AreasAreFound` about the list, is not inductive: it would let an empty area stand inside another or two areas
start at one address. `AreasInv` says that starts increase strictly, that each end is at most the next start (`Sorted`), that only the heap may be empty, and
that only ends up to the heap's limit may be off a page boundary (`IsSound`). Insertion is exact where there is a gap (`InsertedIs`,
`AddedIs`), so loading an image, exec and fork are folds of it (`AllAdded`, `ImagesAreSpaces`, `ClonedIs`: fork finds the
heap's end rounded up still below the next start). A walk over the list cuts each area into pieces that lie in it in order (`RestIs`,
`SplitIs`), and what is joined from such pieces is again such a list, with the rights of the pieces (`JoinedSpaces`, `JoinRights`); `UnmapExact` and `ProtectExact`
then compare page by page, also for a walk that stops where an allocation fails. The hypothesis
`LeavesHeapAlone = TRUE` is that of the passing run; `areas_brk` shows what happens without it.

*Loader.* A load is three nested folds over one record, the memory as it is so far. `IsLoad` is what each step keeps: what was taken from the
frames `F` it began with is pages and tables, no frame twice, and other frames hold what they held. From there `RangeIs` (page by page:
`Keeps`, what was mapped before stays, and `Blank`, what is new is zero), `CopiedIs` and `FilledIs` (the file's part goes to
the pages of its own segment, because addresses and page with offset correspond: `AddressIs`, `AddressOf`), `SegmentsAre`
and `FileIs` climb from a page to the file. `LoaderInv` then adds that frames of other spaces are not free, so a load cannot touch them
(`ImageStays`), and `Took` says what success and failure have in common: the frames missing from `free` are those of the new space or, on the
ARM, lost. For the arguments `DepthIs` unfolds the sum of lengths from the front, which the fold adds up from the other end.
That segments share no page is needed: of two that did, the later would take a second frame for the page and lose the first.

*Console.* `AllIsVisible` says that outside of a write nothing is hidden; inside of one it is false. What each byte keeps is `IsTerminal`: where back buffer and
screen differ, the dirty rectangle marks the cell (`MarkingMarks`, `DrawnIsTerminal`), and `fb_flush` copies what is marked (`FlushShows`). `EditorIsConsistent` needs
that every entry of the history and the scratch line fit a line, whatever the shell recalls them over (`IsEditor`); the prompt's
visible length is a number because a fold counts it (`VisibleLength`). The ring's argument is in `ConsoleStep`: `Irq`
writes where no byte waits, `ReadKey` takes the oldest. The
assumptions say that buffers and screen are not empty and that what programs write are strings.

*Stdio.* `PositionsAgree` needs to know which buffer may hold something, which goes by what the program did last
(`flow`), and that what was read ahead is what the file holds (`StdioInv`). `PutsWrite` and `GetsRead` say what a whole
fwrite and fread do from what one call of fputc and fgetc does (`PutWrites`, `GetReads`); `OverlaidAppend` that
flushing in the middle of a call cannot be seen. Each action is then a step of SparseFile (`WriteIsWrite`,
`ReadIsRead`, `SeekKeepsSeen`) or none; a refused seek is none, as long as nothing is read ahead. The hypothesis
`SeeksAhead = {}` excludes, while bytes are read ahead and not taken, the seek that counts from the wrong place and the one that is refused, since
both theorems are false for them (see the departures after the findings). After a read or a write that failed nothing is promised.

*Buddy.* The provers know nothing of `2^n` but what `BuddyAssumption` says, that 2^0 is 1 and each next power twice the
last, which TLC evaluates; sums of exponents (`PowerSum`), the depth of a node and its way to the root (`UpIs`) and
the pages under it (`PageIs`) follow by least counterexamples. `TreeShape` says of the tree, node by node, that a node is used just when the
one above it is split and that siblings are not both free. Splitting and merging touch a path each (`SplitNodes`, `MergeNodes`) and keep that
shape (`SplitKeeps`, `MergeKeeps`); `PageInOneBlock` follows, as the lowest used node over a page is a block and all above it are split.
`HeadersTellBlocks` is not inductive: a header must also stand on the first page of its block (`Headed`), or the block split off at a
page could inherit one. `find_free` searches from the root, so it finds a free node wherever one is large enough because
the way to it is split (`SearchIs`); that it refuses only when no aligned run is free needs merging: the lowest split node
over a run has a part in use, as its halves would have been merged (`NoRunIsFree`). TLC checked `BuddyInv` on the 24,401 states of 8 pages and two threads before
it was proved.

Model-checked only, because the prover cannot: the liveness properties (fairness and ENABLED). Model-checked only so far, although their loops
are folds as well: the screen's picture of a line (`ScreenShowsLine`), chains and names in `Fat32`, paths in `Namespace`, and conversions in `Numbers`, which compare with a
reference by arithmetic that is not linear (`NumbersReadBack`, `OtherFormatsAreC99`).

## 5. Plan

1. brk in `CowMemory`, with the pages that it leaves behind, and one tree for `Files` and `Namespace`.
2. `Fpu`: contents of the registers under lazy switching, fork and death.
3. `KernelMap`: direct map, heap window, stack slots with their guard pages and the frames
   beneath (they overlap, see the hazard at paging.c:705).
4. Proofs of `NamespaceIsExact`, of the chain walk of `Fat32` and of the screen's picture of a line.

## 6. Not modelled

Boot (`boot.asm`, `arm_boot.S`, `gdt.c`, `idt.c`, `pic.c`, `tss.c`): runs once, sets up tables. The serial port, the UART, the
ATA registers, pixels and fonts: device I/O. String and memory helpers of `klib.c` and the libc: one loop
each. The shell's commands, init and the example programs: they are programs, and the models let programs
make any legal call in any order. The contents of the FPU registers, kernel stacks and the kernel's own
address map. The diagnostics that `arm_main.c` runs once. User pointer checks and error codes are abstracted to success or failure.
Saturation of reference counts at 65535 is excluded by the number of tasks (`CowAssumption`).
