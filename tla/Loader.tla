------------------------------- MODULE Loader -------------------------------
(***************************************************************************)
(* Programs brought into memory: elf_load and the address space around it  *)
(* on the x86 (elf.c, syscall.c, paging.c), arm_elf_load and the ARM's     *)
(* address spaces (arch/arm/arm_elf.c, arm_vmm.c), and the arguments exec  *)
(* lays out on the new stack.  A load runs through in one step; memory may *)
(* run out at each allocation of it, of a page or of a table.              *)
(***************************************************************************)
EXTENDS Integers, Sequences, SequencesExt, FiniteSets, FiniteSetsExt

CONSTANTS
  PageBytes,               \* 4096
  TablePages,              \* pages that one page table maps
  UserEnd,                 \* KERNEL_SPACE_START
  StackPages,              \* of the ARM's user stack, at the end of user space
  StackBytes, GuardBytes,  \* of the x86's: USER_STACK_SIZE, USER_STACK_GUARD_SIZE
  Slots,                   \* ARM_VMM_MAX_SPACES
  FrameCount,              \* frames 1 .. FrameCount
  Image,                   \* files: [arm, header, entry, segments, bytes]
  Arguments                \* sequences of lengths of argument strings, 0-terminated

LoaderAssumption ==
  /\ \A n \in {PageBytes, TablePages, UserEnd, Slots} : n \in Nat \ {0}
  /\ {FrameCount, StackPages, StackBytes, GuardBytes} \subseteq Nat
  /\ Arguments \subseteq Seq(Nat)
ASSUME LoaderAssumption

VARIABLES
  free,                    \* frames
  bytes,                   \* what is in each frame
  spaces,                  \* the address spaces of loaded programs
  lost,                    \* frames that no one owns: the ARM never gives back pages
  stack                    \* what the last exec left on its stack

lvars == <<free, bytes, spaces, lost, stack>>

LoaderFrame == 1 .. FrameCount
ZeroPage == [i \in 0 .. PageBytes - 1 |-> 0]
PageOf(a) == a \div PageBytes

-----------------------------------------------------------------------------
(* A load in progress: the memory, and the space with its pages and tables.*)
Begun(image) ==
  [image |-> image, free |-> free, bytes |-> bytes, pages |-> <<>>, tables |-> <<>>, ok |-> TRUE]
Failed(m) == [m EXCEPT !.ok = FALSE]

TakenBy(m) == Min(m.free)                      \* the scan for the lowest clear bit

(* hal_flags_to_l2 and the bits of an x86 entry.  The x86 has no bit that  *)
(* forbids execution.                                                      *)
RightsOf(flags, arm) ==
  {"r"} \cup (flags \cap {"w"}) \cup (IF arm THEN flags \cap {"x"} ELSE {"x"})

(* vmm_map_page_in_pd, hal_mmu_map_page_in_space: the table comes with the *)
(* first page of its region; the new page is given back if that fails.     *)
MayMap(m, page, flags) == m.image.arm => ~({"w", "x"} \subseteq flags) /\ page * PageBytes < UserEnd

Entered(f, x, y) == [k \in DOMAIN f \cup {x} |-> IF k = x THEN y ELSE f[k]]

Unzeroed(m, frame) == m.bytes                  \* fault: what the frame held before
Zeroed(m, frame) == [m.bytes EXCEPT ![frame] = ZeroPage]

MapPage(m, page, flags) ==
  LET region == page \div TablePages
      needed == IF region \in DOMAIN m.tables THEN 1 ELSE 2
      frame == TakenBy(m)
      rest == m.free \ {frame}
      table == IF needed = 1 THEN m.tables ELSE Entered(m.tables, region, Min(rest))
  IN IF ~m.ok \/ ~MayMap(m, page, flags) \/ Cardinality(m.free) < needed THEN Failed(m)
     ELSE [m EXCEPT !.free = rest \ Range(table), !.tables = table,
                    !.bytes = Zeroed(m, frame),
                    !.pages = Entered(@, page, [frame |-> frame, rights |-> RightsOf(flags, m.image.arm)])]

MapRange(m, first, last, flags) ==
  LET asked == [i \in 1 .. last - first + 1 |-> [page |-> first + i - 1, flags |-> flags]]
  IN FoldLeft(LAMBDA n, a : MapPage(n, a.page, a.flags), m, asked)

-----------------------------------------------------------------------------
(* Segments.                                                               *)
FileSize(s, arm) == IF ~arm /\ s.filesz > s.memsz THEN s.memsz ELSE s.filesz

(* The file's part of the segment, over as many pages as it meets; the     *)
(* frame is found in the page table.                                       *)
FileOffset(s, a) == s.offset + (a - s.vaddr)

Copied(m, s) ==
  LET n == FileSize(s, m.image.arm)
  IN IF ~m.ok \/ s.offset + n > Len(m.image.bytes) THEN Failed(m)
     ELSE [m EXCEPT !.bytes =
            [f \in LoaderFrame |->
               LET here == {p \in DOMAIN m.pages : m.pages[p].frame = f}
               IN IF here = {} THEN m.bytes[f]
                  ELSE [i \in 0 .. PageBytes - 1 |->
                          LET a == (CHOOSE p \in here : TRUE) * PageBytes + i
                          IN IF s.vaddr <= a /\ a < s.vaddr + n
                             THEN m.image.bytes[FileOffset(s, a) + 1] ELSE m.bytes[f][i]]]]

(* validate_segment of arm_elf.c; the x86 leaves it to vma_add.            *)
validate_segment(s, image) ==
  /\ ~({"w", "x"} \subseteq s.flags) /\ "r" \in s.flags
  /\ s.filesz <= s.memsz /\ s.offset + s.filesz <= Len(image.bytes)
  /\ s.vaddr < UserEnd /\ s.vaddr + s.memsz <= UserEnd /\ s.vaddr % PageBytes = 0
Accepted(s, image) ==
  IF image.arm THEN validate_segment(s, image)
  ELSE s.vaddr < UserEnd /\ s.vaddr + s.memsz <= UserEnd

LastPage(s) == PageOf(s.vaddr + s.memsz + PageBytes - 1) - 1

LoadSegment(m, s) ==
  IF ~s.load THEN m
  ELSE IF ~Accepted(s, m.image) THEN Failed(m)
  ELSE Copied(MapRange(m, PageOf(s.vaddr), LastPage(s), s.flags), s)

LoadSegments(m) ==
  FoldLeft(LAMBDA n, s : IF n.ok THEN LoadSegment(n, s) ELSE n, m, m.image.segments)

(* allocate_user_stack.                                                    *)
StackEnd == PageOf(UserEnd)
WithImageStack(m) == MapRange(m, StackEnd - StackPages, StackEnd - 1, {"r", "w"})

(* Files the linker made: segments share no page (user_linker.ld:17), nor  *)
(* one with the stack that the ARM's loader maps (user_test.ld:16).        *)
ProgramHeader ==
  [load : BOOLEAN, vaddr : Nat, filesz : Nat, memsz : Nat, offset : Nat,
   flags : SUBSET {"r", "w", "x"}]
PagesMet(s) == PageOf(s.vaddr) .. LastPage(s)

ImageAssumption ==
  \A image \in Image :
    /\ image.arm \in BOOLEAN /\ image.segments \in Seq(ProgramHeader)
    /\ \A j \in DOMAIN image.segments :
         LET s == image.segments[j] IN
         s.load => /\ image.arm => PagesMet(s) \cap (StackEnd - StackPages .. StackEnd - 1) = {}
                   /\ \A k \in DOMAIN image.segments :
                        LET t == image.segments[k] IN
                        j # k /\ t.load => PagesMet(s) \cap PagesMet(t) = {}
ASSUME ImageAssumption

validate_elf_header(image) == image.header = "good"

(* An entry of 0 is taken for failure.                                     *)
elf_load(m) ==
  LET n == LoadSegments(m)
  IN IF ~validate_elf_header(m.image) THEN Failed(m)
     ELSE IF m.image.arm THEN IF n.ok THEN WithImageStack(n) ELSE n
     ELSE IF m.image.entry = 0 THEN Failed(n) ELSE n

-----------------------------------------------------------------------------
(* sys_exec_handler lays out the strings from the top of the stack down,   *)
(* the last first, then aligned to a word of 4 a 0, the pointers with a    *)
(* NULL behind them, and argc.  Addresses are distances below the top.     *)
WordBytes == 4
Aligned(depth) == depth + ((WordBytes - (depth % WordBytes)) % WordBytes)

StringDepth(args, i) == FoldLeft(+, 0, SubSeq(args, i, Len(args)))
UserFrame(args) ==
  LET ended == Aligned(StringDepth(args, 1)) + WordBytes
      argv == ended + WordBytes * (Len(args) + 1)
  IN [args |-> args, argc |-> Len(args), argv |-> argv, esp |-> argv + WordBytes,
      pointers |-> [i \in 1 .. Len(args) |-> StringDepth(args, i)]]

TooLarge(args) ==
  StringDepth(args, 1) + (Len(args) + 1) * WordBytes + WordBytes + 64 > StackBytes - GuardBytes

ExecImage(args) ==
  /\ stack = UserFrame(<<>>) /\ ~TooLarge(args) /\ stack' = UserFrame(args)
  /\ UNCHANGED <<free, bytes, spaces, lost>>

-----------------------------------------------------------------------------
(* Address spaces.  The x86 allocates a page directory, the ARM takes one  *)
(* of its slots; destroying a space gives the x86's pages and tables back, *)
(* and of the ARM's the tables only (hal_mmu_destroy_space).               *)
PagesFor(m) == {m.pages[p].frame : p \in DOMAIN m.pages}
TablesOf(m) == Range(m.tables)

TablesKept(m) == IF m.image.arm THEN {} ELSE PagesFor(m)   \* fault: page tables stay allocated
GivenBack(m) == IF m.image.arm THEN TablesOf(m) ELSE PagesFor(m) \cup TablesOf(m)
LeftBehind(m) == IF m.image.arm THEN PagesFor(m) ELSE {}

ArmSpaces == {s \in spaces : s.image.arm}

Load(image) ==
  LET dir == IF image.arm THEN 0 ELSE TakenBy(Begun(image))
      m == elf_load([Begun(image) EXCEPT !.free = @ \ {dir}])
      space == [image |-> image, dir |-> dir, pages |-> m.pages, tables |-> m.tables]
  IN /\ IF image.arm THEN Cardinality(ArmSpaces) < Slots ELSE free # {}
     /\ bytes' = m.bytes
     /\ IF m.ok
        THEN free' = m.free /\ spaces' = spaces \cup {space} /\ UNCHANGED lost
        ELSE /\ free' = m.free \cup GivenBack(m) \cup ({dir} \ {0})
             /\ lost' = lost \cup LeftBehind(m) /\ UNCHANGED spaces
     /\ stack' = UserFrame(<<>>)

Destroy(s) ==                                  \* exec, the reaper: of the x86 only
  /\ ~s.image.arm
  /\ free' = free \cup GivenBack(s) \cup {s.dir} /\ spaces' = spaces \ {s}
  /\ stack' = UserFrame(<<>>) /\ UNCHANGED <<bytes, lost>>

-----------------------------------------------------------------------------
LoaderInit ==
  /\ free = LoaderFrame /\ bytes = [f \in LoaderFrame |-> [i \in 0 .. PageBytes - 1 |-> 99]]
  /\ spaces = {} /\ lost = {} /\ stack = UserFrame(<<>>)

LoaderNext ==
  \/ \E image \in Image : Load(image)
  \/ \E s \in spaces : Destroy(s)
  \/ \E args \in Arguments : ExecImage(args)

LoaderSpec == LoaderInit /\ [][LoaderNext]_lvars

-----------------------------------------------------------------------------
(* Each program has in its memory what its file says, 0 where the file     *)
(* says nothing, and the rights of its segments, whatever was loaded, what *)
(* failed to load and what was destroyed before: no page is missing, none  *)
(* is another's, and what a frame held before is gone (elf.c:80, :97).     *)
ImageIsLoaded ==
  \A space \in spaces : \A k \in DOMAIN space.image.segments :
    LET s == space.image.segments[k] IN
    s.load => \A a \in s.vaddr .. s.vaddr + s.memsz - 1 :
      /\ PageOf(a) \in DOMAIN space.pages
      /\ LET page == space.pages[PageOf(a)]
             held == bytes[page.frame][a % PageBytes]
         IN /\ held = IF a - s.vaddr < s.filesz
                      THEN space.image.bytes[s.offset + (a - s.vaddr) + 1] ELSE 0
            /\ "w" \in page.rights <=> "w" \in s.flags
            /\ space.image.arm => ("x" \in page.rights <=> "x" \in s.flags)

(* A frame belongs to one page, table or directory of one space, and a     *)
(* load that fails half way and the death of a program give back all that  *)
(* the x86 took (os-os.txt:1278, and :224: no page leaks).                  *)
Owned(s) == PagesFor(s) \cup TablesOf(s) \cup ({s.dir} \ {0})
EveryFrameIsOwned ==
  /\ \A s, t \in spaces : s # t => Owned(s) \cap Owned(t) = {}
  /\ free = LoaderFrame \ (lost \cup UNION {Owned(s) : s \in spaces})
  /\ lost \cap UNION {Owned(s) : s \in spaces} = {}

(* crt0.asm finds argc at the stack pointer and argv behind it, aligned;   *)
(* no string overlaps the pointers or another string, and all is above the *)
(* guard of the stack's area, though exec adds it up before laying it out. *)
ArgumentsArrive ==
  /\ stack.esp % WordBytes = 0 /\ stack.esp = stack.argv + WordBytes
  /\ stack.esp <= StackBytes - GuardBytes \/ stack.args = <<>>
  /\ \A i \in 1 .. stack.argc :
       LET end == IF i = stack.argc THEN 0 ELSE stack.pointers[i + 1]
       IN /\ stack.pointers[i] - end = stack.args[i]
          /\ stack.pointers[i] <= stack.argv - WordBytes * (stack.argc + 1)

(* A program starts with its image and its arguments: what elf_load put    *)
(* into its pages and what exec left on its stack.                         *)
ProgramArrives == ImageIsLoaded /\ ArgumentsArrive
=============================================================================
