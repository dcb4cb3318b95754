------------------------------ MODULE MCMemory ------------------------------
(* The memory of the system in one run: user pages (CowMemory), the areas  *)
(* that say which pages a program may touch (Areas), the page frames of    *)
(* both architectures (PageFrames) and the loading of programs (Loader).   *)
(* They share no state, so a behaviour moves one of them and leaves the    *)
(* others at rest: the states are the sum of theirs and not the product.   *)
EXTENDS MCCowMemory, MCAreas, PageFrames, Loader

VARIABLE part

FramesAtRest ==
  /\ machine = [arm |-> FALSE, ram |-> {}, holes |-> {}, pages |-> 0]
  /\ clear = {} /\ given = {} /\ available = 0 /\ used_pages = 0 /\ lastPage = 0

MemoryInit ==
  /\ part \in {"pages", "areas", "frames", "loader"}
  /\ Init /\ LoaderInit
  /\ IF part = "areas" THEN AreasInit ELSE areas = <<>>
  /\ IF part = "frames" THEN FramesInit ELSE FramesAtRest

MemoryNext ==
  /\ UNCHANGED part
  /\ \/ part = "pages"  /\ Next       /\ UNCHANGED <<areas, fvars, lvars>>
     \/ part = "areas"  /\ AreasNext  /\ UNCHANGED <<vars, fvars, lvars>>
     \/ part = "frames" /\ FramesNext /\ UNCHANGED <<vars, areas, lvars>>
     \/ part = "loader" /\ LoaderNext /\ UNCHANGED <<vars, areas, fvars>>

MemorySpec == MemoryInit /\ [][MemoryNext]_<<part, vars, areas, fvars, lvars>>

-----------------------------------------------------------------------------
(* Firmware maps of at most six pages of two bytes: regions that begin and *)
(* end inside a page, that overlap, that lie behind MaxPages or are not    *)
(* RAM; and what is kept of them.                                          *)
Ram(from, to) == [from |-> from, to |-> to, usable |-> TRUE]
MCE820 == {{Ram(0, 12)}, {Ram(0, 3), Ram(5, 11)}, {Ram(1, 7), Ram(6, 16)},
           {Ram(0, 9), [from |-> 9, to |-> 14, usable |-> FALSE]}, {Ram(0, 1)}}
MCHoles == {{[from |-> 0, to |-> 2]}, {[from |-> 0, to |-> 3], [from |-> 7, to |-> 9]},
            {[from |-> 0, to |-> 2], [from |-> 5, to |-> 6], [from |-> 6, to |-> 5]}}
MCArmSize == {5, 12, 16}
MCArmRanges == {{}, {[from |-> 4, size |-> 3]}, {[from |-> 6, size |-> 2], [from |-> 10, size |-> 9]}}

(* Programs: two segments with a part that is not in the file, one in a    *)
(* page of its own, an entry of 0, a file that ends inside a segment, and  *)
(* those of the ARM, of which one asks for write and execute.              *)
Seg(vaddr, filesz, memsz, offset, flags) ==
  [load |-> TRUE, vaddr |-> vaddr, filesz |-> filesz, memsz |-> memsz,
   offset |-> offset, flags |-> flags]
TwoSegments ==
  [arm |-> FALSE, header |-> "good", entry |-> 2, bytes |-> <<1, 2, 3, 4, 5, 6>>,
   segments |-> <<Seg(1, 3, 4, 0, {"r", "x"}), [Seg(0, 1, 1, 0, {"r"}) EXCEPT !.load = FALSE],
                  Seg(8, 1, 3, 5, {"r", "w"})>>]
OneSegment == [TwoSegments EXCEPT !.segments = <<Seg(4, 1, 2, 1, {"r", "w"})>>]
OnArm(flags) ==
  [TwoSegments EXCEPT !.arm = TRUE,
                      !.segments = <<Seg(0, 3, 4, 0, {"r", "x"}), Seg(8, 1, 3, 5, flags)>>]
MCImage ==
  {TwoSegments, OneSegment, [OneSegment EXCEPT !.entry = 0],
   [TwoSegments EXCEPT !.bytes = <<1, 2, 3, 4>>],
   OnArm({"r", "w"}), OnArm({"r", "w", "x"}), [OneSegment EXCEPT !.arm = TRUE]}
(* Lengths of argument strings, up to the limits of one and of all.        *)
MCArguments == {<<5>>, <<1, 2>>, <<44>>, <<45>>, <<2, 5, 1>>, <<1, 34, 1>>, <<1, 1, 1, 30>>}
=============================================================================
