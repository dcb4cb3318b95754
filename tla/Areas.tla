------------------------------- MODULE Areas -------------------------------
(***************************************************************************)
(* The memory areas of a process (vma.c) and the calls that edit them:     *)
(* mmap, munmap, mprotect, brk, fork and exec (syscall.c, elf.c).  An area *)
(* is a record [start, end, flags]; the list of the process is a sequence. *)
(* kmalloc may fail whenever it is called.                                 *)
(*                                                                         *)
(* The unit of addresses is half a page, the least that tells an aligned   *)
(* address from one that is not (brk takes any address).  All ranges are   *)
(* such that start + length does not wrap at 2^32.                         *)
(***************************************************************************)
EXTENDS Integers, Sequences, SequencesExt

CONSTANTS
  HeapStart, HeapMax,      \* USER_HEAP_START, USER_HEAP_MAX_SIZE
  MmapStart, MmapMax,      \* USER_MMAP_START, USER_MMAP_MAX_SIZE
  StackBottom, StackTop,   \* the user stack
  KernelStart,             \* KERNEL_SPACE_START
  Program,                 \* PT_LOAD segments of the programs that are run
  Prot,                    \* rights asked for: sets of "R", "W", "X"
  Break,                   \* program breaks asked for
  LeavesHeapAlone,         \* programs map nothing at HeapStart, create a heap
                           \* (again) only where nothing else is mapped and ask
                           \* for no break below it
  MaxAreas                 \* bound: programs that split their memory further

VARIABLE areas             \* task->vma_head

RW == {"R", "W"}
NoArea == [start |-> 0, end |-> 0, flags |-> {}]

PageSize == 2
AlignDown(a) == a - (a % PageSize)
AlignUp(a) == AlignDown(a + PageSize - 1)
UserPage == {a \in PageSize .. KernelStart - 1 : a % PageSize = 0}
Bound == UserPage \cup {KernelStart}           \* where aligned ranges end

(* The regions are page-aligned, the heap ends below the mmap region, no   *)
(* two segments of a program share a page (user_linker.ld), and none is at *)
(* the stack or where the heap starts.                                     *)
Segment == [start : 0 .. KernelStart, end : 0 .. KernelStart, flags : Prot \cup {RW, {"R", "X"}}]
StackArea == [start |-> StackBottom, end |-> StackTop, flags |-> RW]
PagesApart(s, t) ==
  AlignUp(s.end) <= AlignDown(t.start) \/ AlignUp(t.end) <= AlignDown(s.start)
AwayFromHeap(s) == AlignUp(s.end) <= HeapStart \/ HeapStart < AlignDown(s.start)

AreasAssumption ==
  /\ KernelStart \in Nat /\ KernelStart % PageSize = 0 /\ HeapMax \in Nat /\ MmapMax \in Nat
  /\ {HeapStart, MmapStart, StackBottom} \subseteq UserPage /\ StackTop \in Bound
  /\ HeapStart + HeapMax <= MmapStart /\ StackBottom < StackTop /\ AwayFromHeap(StackArea)
  /\ Break \subseteq Nat
  /\ Program \subseteq Seq(Segment)
  /\ \A p \in Program : \A i \in DOMAIN p :
       /\ p[i].start < p[i].end /\ AwayFromHeap(p[i]) /\ PagesApart(p[i], StackArea)
       /\ \A j \in DOMAIN p : i # j => PagesApart(p[i], p[j])
ASSUME AreasAssumption

Meets(v, a, b) == a < v.end /\ b > v.start

-----------------------------------------------------------------------------
(* Lookups.  They stop where the sorted list allows it.                    *)
StopsSearch(v, a) == v.start > a

Searched(list, a, ignored) ==                 \* areas a search for a looks at
  {i \in DOMAIN list : \A j \in 1 .. i - 1 : j # ignored => ~StopsSearch(list[j], a)}

vma_find(list, page) ==
  LET hits == {i \in Searched(list, page, 0) : list[i].start <= page /\ page < list[i].end}
  IN IF hits = {} THEN NoArea ELSE list[CHOOSE i \in hits : \A j \in hits : i <= j]

vma_intersects(list, a, b, ignored) ==
  \E i \in Searched(list, b - 1, ignored) : i # ignored /\ Meets(list[i], a, b)

(* The lowest gap of the size, among those that follow an area (or the     *)
(* start of the mmap region) and end at the next one.                      *)
GapFrom(list, i) ==                           \* current_addr before area i
  LET above == {j \in 1 .. i - 1 : list[j].end > MmapStart}
  IN IF above = {} THEN MmapStart ELSE list[CHOOSE j \in above : \A k \in above : k <= j].end

RoomFromStart(list, i, size) ==               \* fault: from MmapStart, not the gap
  list[i].end > MmapStart /\ list[i].start - MmapStart >= size
RoomBefore(list, i, size) ==
  /\ list[i].end > MmapStart /\ list[i].start > GapFrom(list, i)
  /\ list[i].start - GapFrom(list, i) >= size

vma_find_free_area(list, size) ==             \* 0 if there is none
  LET gaps == {i \in DOMAIN list : RoomBefore(list, i, size)}
      last == GapFrom(list, Len(list) + 1)
  IN IF gaps # {} THEN GapFrom(list, CHOOSE i \in gaps : \A j \in gaps : i <= j)
     ELSE IF last + size <= MmapStart + MmapMax THEN last ELSE 0

(* vma_add: behind all areas that start below, but never before the first  *)
(* unless that starts above.                                               *)
BehindFirst(list, v) == IF list = <<>> THEN 0 ELSE 1   \* fault: not sorted
Behind(list, v) ==
  IF list = <<>> \/ Head(list).start > v.start THEN 0
  ELSE CHOOSE i \in DOMAIN list :
         /\ \A j \in 2 .. i : list[j].start < v.start
         /\ i < Len(list) => list[i + 1].start >= v.start

UserRange(a, b) == a < KernelStart /\ b <= KernelStart

Added(list, a, b, flags) ==
  LET v == [start |-> AlignDown(a), end |-> AlignUp(b), flags |-> flags]
  IN InsertAt(list, Behind(list, v) + 1, v)

(* What is left of an area, in the order of the list, and whether that     *)
(* takes nodes that kmalloc may refuse.                                    *)
Piece(a, b, flags) == IF a < b THEN <<[start |-> a, end |-> b, flags |-> flags]>> ELSE <<>>

TailLost(v, a, b) ==                          \* fault: no area behind the hole
  IF ~Meets(v, a, b) THEN <<v>> ELSE Piece(v.start, a, v.flags)
Rest(v, a, b) ==                              \* munmap of [a, b)
  IF ~Meets(v, a, b) THEN <<v>>
  ELSE Piece(v.start, a, v.flags) \o Piece(b, v.end, v.flags)

Split(v, a, b, flags) ==                      \* mprotect of [a, b)
  IF ~Meets(v, a, b) THEN <<v>>
  ELSE IF a <= v.start /\ v.end <= b THEN <<[v EXCEPT !.flags = flags]>>
  ELSE Piece(v.start, a, v.flags)
         \o Piece(IF a > v.start THEN a ELSE v.start, IF b < v.end THEN b ELSE v.end, flags)
         \o Piece(b, v.end, v.flags)

(* The walks over the list.  A walk that meets a failing kmalloc ends      *)
(* before area `stop`, with the areas before it done.                      *)
Walk(list, Edit(_), stop) ==
  FlattenSeq([i \in DOMAIN list |-> IF i < stop THEN Edit(list[i]) ELSE <<list[i]>>])

Stops(list, Edit(_)) == {i \in DOMAIN list : Len(Edit(list[i])) > 1}

Unmapped(list, a, b, stop) == LET Edit(v) == Rest(v, a, b) IN Walk(list, Edit, stop)
UnmapStops(list, a, b) == LET Edit(v) == Rest(v, a, b) IN Stops(list, Edit)

WithRights(list, a, b, flags, stop) ==
  LET Edit(v) == Split(v, a, b, flags) IN Walk(list, Edit, stop)
ProtectStops(list, a, b, flags) ==
  LET Edit(v) == Split(v, a, b, flags) IN Stops(list, Edit)

-----------------------------------------------------------------------------
(* Address spaces of a new program: its segments, the stack, an empty heap.*)
Loaded(program) ==
  FoldLeft(LAMBDA list, s : Added(list, s.start, s.end, s.flags), <<>>, program)
WithStack(program) == Added(Loaded(program), StackBottom, StackTop, RW)
NewImage(program) == Added(WithStack(program), HeapStart, HeapStart, RW)

AreasInit == \E p \in Program : areas = NewImage(p)

(* The calls.  A call that fails without effect is no step.                *)
MapArea(addr, size, flags) ==                    \* addr = 0: the kernel chooses
  LET at == IF addr = 0 THEN vma_find_free_area(areas, size) ELSE addr
  IN /\ size <= MmapMax /\ at # 0
     /\ addr # 0 => ~vma_intersects(areas, at, at + size, 0)
     /\ UserRange(at, at + size) /\ (at = HeapStart => ~LeavesHeapAlone)
     /\ Len(areas) < MaxAreas
     /\ areas' = Added(areas, at, at + size, flags)

UnmapArea(a, b) ==
  \E stop \in UnmapStops(areas, a, b) \cup {Len(areas) + 1} :
    areas' = Unmapped(areas, a, b, stop) /\ Len(areas') <= MaxAreas

ProtectArea(a, b, flags) ==
  /\ vma_intersects(areas, a, b, 0)
  /\ \E stop \in ProtectStops(areas, a, b, flags) \cup {Len(areas) + 1} :
       areas' = WithRights(areas, a, b, flags, stop) /\ Len(areas') <= MaxAreas

Heaps == {i \in DOMAIN areas : areas[i].start = HeapStart}
HeapArea == CHOOSE i \in Heaps : \A j \in Heaps : i <= j

GrowthCollides(new) == vma_intersects(areas, areas[HeapArea].end, new, HeapArea)

BrkCreate(new) ==                             \* no heap: vma_add, unchecked
  /\ Heaps = {}
  /\ LeavesHeapAlone => ~vma_intersects(areas, HeapStart, AlignUp(new), 0)
  /\ areas' = Added(areas, HeapStart, new, RW)

BrkMove(new) ==
  /\ Heaps # {}
  /\ new > areas[HeapArea].end => ~GrowthCollides(new)
  /\ areas' = [areas EXCEPT ![HeapArea].end = new]

Brk(new) ==
  /\ new <= HeapStart + HeapMax
  /\ LeavesHeapAlone => HeapStart <= new         \* the code takes any
  /\ BrkCreate(new) \/ BrkMove(new)

(* fork copies the list area by area; the model goes on with the child.    *)
Cloned(list) ==
  FoldLeft(LAMBDA child, v : Added(child, v.start, v.end, v.flags), <<>>, list)

CloneAreas == areas' = Cloned(areas)

(* exec: the old list is gone when the stack or the heap cannot be added.  *)
Exec(p) == areas' \in {Loaded(p), WithStack(p), NewImage(p)}

Ranges == {r \in UserPage \X Bound : r[1] < r[2]}

AreasNext ==
  \/ \E flags \in Prot, size \in UserPage, addr \in UserPage \cup {0} : MapArea(addr, size, flags)
  \/ \E flags \in Prot, r \in Ranges : ProtectArea(r[1], r[2], flags)
  \/ \E r \in Ranges : UnmapArea(r[1], r[2])
  \/ \E new \in Break : Brk(new)
  \/ CloneAreas
  \/ \E p \in Program : Exec(p)

AreasSpec == AreasInit /\ [][AreasNext]_areas

-----------------------------------------------------------------------------
(* Areas lie below the kernel and have rights that were asked for.         *)
VTypeOK ==
  areas \in Seq(Segment)

(* The list is sorted, no two areas share an address and starts are on page *)
(* boundaries, whatever is mapped, cut, split, grown and copied: the       *)
(* lookups stop early because of it, and a page has one set of rights.     *)
(* (The heap may be empty, and another area start where it stands.)        *)
InOrder(list) ==
  /\ \A i, j \in DOMAIN list : i < j =>
       /\ list[i].start <= list[j].start
       /\ list[j].start < list[j].end => list[i].end <= list[j].start
  /\ \A i \in DOMAIN list : list[i].start <= list[i].end /\ list[i].start % PageSize = 0
AreasInOrder == InOrder(areas)

(* What a page may be used for, by the areas that cover it: reference      *)
(* definitions that know no order.                                         *)
RightsAt(list, page) ==
  {list[i].flags : i \in {j \in DOMAIN list : list[j].start <= page /\ page < list[j].end}}
Occupied(a, b) == \E i \in DOMAIN areas : Meets(areas[i], a, b)

(* vma_find, vma_intersects and vma_find_free_area give what a search of   *)
(* the whole list gives, in spite of their early exits; the free area is   *)
(* free, and there is none only if the mmap region has no gap of the size. *)
LookupsAreExact ==
  /\ \A page \in UserPage :
       LET v == vma_find(areas, page) IN
       RightsAt(areas, page) = IF v = NoArea THEN {} ELSE {v.flags}
  /\ \A r \in Ranges : vma_intersects(areas, r[1], r[2], 0) <=> Occupied(r[1], r[2])
  /\ \A size \in UserPage :
       LET at == vma_find_free_area(areas, size) IN
       IF at = 0 THEN \A a \in Bound : MmapStart <= a /\ a + size <= MmapStart + MmapMax
                                          => Occupied(a, a + size)
       ELSE at >= MmapStart /\ ~Occupied(at, at + size)

(* A page that an area covers is found (vma.h:35-36: NULL if the address   *)
(* belongs to no area).                                                    *)
CoveredIsFound ==
  \A page \in UserPage : RightsAt(areas, page) # {} => vma_find(areas, page) # NoArea

(* munmap takes the rights of exactly the pages of its range, and a munmap *)
(* that runs out of memory has changed nothing (vma.c:108 says so).        *)
UnmapIsExact ==
  \A r \in Ranges :
    LET done == Unmapped(areas, r[1], r[2], Len(areas) + 1)
    IN /\ InOrder(done)
       /\ \A page \in UserPage :
            RightsAt(done, page) =
              IF r[1] <= page /\ page < r[2] THEN {} ELSE RightsAt(areas, page)
       /\ \A stop \in UnmapStops(areas, r[1], r[2]) :
            Unmapped(areas, r[1], r[2], stop) = areas

(* mprotect changes the rights of exactly the mapped pages of its range; a *)
(* failing one has changed those below the area it could not split.        *)
ProtectIsExact ==
  \A r \in Ranges, flags \in Prot :
    LET Expected(page, upto) ==
          IF r[1] <= page /\ page < upto /\ RightsAt(areas, page) # {}
          THEN {flags} ELSE RightsAt(areas, page)
        done == WithRights(areas, r[1], r[2], flags, Len(areas) + 1)
    IN /\ InOrder(done)
       /\ \A page \in UserPage : RightsAt(done, page) = Expected(page, r[2])
       /\ \A stop \in ProtectStops(areas, r[1], r[2], flags), page \in UserPage :
            RightsAt(WithRights(areas, r[1], r[2], flags, stop), page)
              = Expected(page, areas[stop].start)

(* A child may do with each page what its parent may.                      *)
CloneIsExact ==
  /\ InOrder(Cloned(areas))
  /\ \A page \in UserPage : RightsAt(Cloned(areas), page) = RightsAt(areas, page)

(* The list is in order after every call, and what is looked up in it is   *)
(* what it holds (vma.h:24, vma_find, vma_find_free_area).                 *)
AreasAreFound == VTypeOK /\ AreasInOrder /\ LookupsAreExact

(* munmap, mprotect and the copy of fork do to each page what they should  *)
(* and nothing else, whichever of their allocations fails.                 *)
EditsAreExact == areas # <<>> => UnmapIsExact /\ ProtectIsExact /\ CloneIsExact
============================================================================
