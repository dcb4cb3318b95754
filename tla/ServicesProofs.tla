--------------------------- MODULE ServicesProofs ---------------------------
(***************************************************************************)
(* Theorems about the memory and the files that programs see: the library  *)
(* of the user programs (UserHeap, Sorting, Stdio) and tmpfs (TmpFile).    *)
(***************************************************************************)
EXTENDS UserHeap, Sorting, Stdio, TmpFile, FiniteSetTheorems, NaturalsInduction, TLAPS

-----------------------------------------------------------------------------
(***************************************************************************)
(* malloc, calloc and realloc keep what programs write into their blocks,  *)
(* for every size of the heap, of the header and of the requests; qsort    *)
(* sorts and bsearch finds, for arrays of any length.                      *)
(***************************************************************************)

Held == Nat \cup Datum                         \* what a unit may hold
Block == [ptr : Nat, size : Nat, value : Held, known : Nat]

HeapTypeOK ==
  /\ brk \in HeapBase .. HeapLimit /\ heap_end \in {0, brk}
  /\ memory \in [Unit -> Held] /\ blocks \subseteq Block

(* No block reaches into another or into its header.                       *)
Apart(b, c) == b.ptr + b.size <= c.ptr - Header \/ c.ptr + c.size <= b.ptr - Header

(* BlocksKeepData is not inductive: filling a block could touch another.   *)
HeapInv ==
  /\ HeapTypeOK /\ BlocksKeepData
  /\ \A b \in blocks : b.known <= b.size
  /\ \A b, c \in blocks : b # c => Apart(b, c)

(* What the assumption says of the sizes, for arithmetic to cite.          *)
LEMMA Sizes ==
  /\ HeapBase \in Nat \ {0} /\ HeapLimit \in Nat /\ HeapBase <= HeapLimit
  /\ Header \in Nat \ {0} /\ Align \in Nat \ {0} /\ MaxRequest \in Nat
  BY UserHeapAssumption DEF UserHeapAssumption

(* Rounding a size up to the alignment does not lose any of it.            *)
LEMMA Rounded ==
  \A s \in Nat, a \in Nat \ {0} :
    ((s + a - 1) \div a) * a \in Nat /\ ((s + a - 1) \div a) * a >= s
  OBVIOUS

(* A block and its header take what they need.                             *)
LEMMA RoomForBlock ==
  ASSUME NEW size \in Nat PROVE Total(size) \in Nat /\ Total(size) >= Header + size
  BY Rounded, Sizes DEF Total

(* The heap grows by a block whose header says its size; what was below    *)
(* its old end is as it was.                                               *)
LEMMA NewBlock ==
  ASSUME HeapInv, NEW size \in Nat, Fits(size), ExtendHeap(size),
         NEW n \in Block, n.ptr = brk + Header, n.size = size, n.known <= size,
         memory' \in [Unit -> Held], memory'[brk] = size,
         \A u \in HeapBase .. brk - 1 : memory'[u] = memory[u],
         \A u \in n.ptr .. n.ptr + n.known - 1 : memory'[u] = n.value,
         blocks' \subseteq blocks \cup {n}
  PROVE  HeapInv'
  <1>1. At = brk /\ brk \in Nat /\ HeapBase <= brk
    BY Sizes DEF HeapInv, HeapTypeOK, At
  <1>2. /\ brk' = brk + Total(size) /\ heap_end' = brk'
        /\ brk' <= HeapLimit /\ brk' >= brk + Header + size /\ brk' \in Nat
    BY <1>1, RoomForBlock, Sizes DEF Fits, ExtendHeap
  <1>3. HeapTypeOK'
    BY <1>1, <1>2, Sizes DEF HeapInv, HeapTypeOK
  <1>4. \A b \in blocks : /\ b \in Block /\ b.ptr - Header >= HeapBase /\ b.ptr + b.size <= brk
                          /\ memory[b.ptr - Header] = b.size /\ b.known <= b.size
                          /\ \A u \in b.ptr .. b.ptr + b.known - 1 : memory[u] = b.value
    BY DEF HeapInv, HeapTypeOK, BlocksKeepData
  <1>5. ASSUME NEW b \in blocks'
        PROVE  /\ b.ptr - Header >= HeapBase /\ b.ptr + b.size <= brk' /\ b.known <= b.size
               /\ memory'[b.ptr - Header] = b.size
               /\ \A u \in b.ptr .. b.ptr + b.known - 1 : memory'[u] = b.value
    <2>1. CASE b = n
      BY <1>1, <1>2, <2>1, Sizes DEF Block
    <2>2. CASE b \in blocks
      <3>1. b.ptr \in Nat /\ b.size \in Nat /\ b.known \in Nat
        BY <1>4, <2>2 DEF Block
      <3>2. b.ptr - Header \in HeapBase .. brk - 1
        BY <1>1, <1>4, <2>2, <3>1, Sizes
      <3>3. \A u \in b.ptr .. b.ptr + b.known - 1 : u \in HeapBase .. brk - 1
        BY <1>1, <1>4, <2>2, <3>1, Sizes
      <3> QED BY <1>1, <1>2, <1>4, <2>2, <3>1, <3>2, <3>3, Sizes
    <2> QED BY <2>1, <2>2
  <1>6. ASSUME NEW b \in blocks', NEW c \in blocks', b # c PROVE Apart(b, c)
    <2>1. CASE b \in blocks /\ c \in blocks
      BY <1>6, <2>1 DEF HeapInv
    <2>2. CASE b \in blocks /\ c = n
      BY <1>4, <2>2, <1>1, Sizes DEF Apart, Block
    <2>3. CASE b = n /\ c \in blocks
      BY <1>4, <2>3, <1>1, Sizes DEF Apart, Block
    <2> QED BY <1>6, <2>1, <2>2, <2>3
  <1> QED BY <1>3, <1>5, <1>6 DEF HeapInv, BlocksKeepData, Apart

(* Before the first malloc there is no block to keep.                      *)
LEMMA HeapInitial == HeapInit => HeapInv
  BY Sizes DEF HeapInit, HeapInv, HeapTypeOK, BlocksKeepData, Held

(* A refused brk changes no block (user_libc.c:130).                       *)
LEMMA RefusedKeeps == ASSUME HeapInv, Refused PROVE HeapInv'
  <1>1. At = brk
    BY DEF HeapInv, HeapTypeOK, At
  <1>2. UNCHANGED <<brk, memory, blocks>> /\ heap_end' = brk
    BY <1>1 DEF Refused
  <1> QED BY <1>2 DEF HeapInv, HeapTypeOK, BlocksKeepData, Apart

(* free touches no memory: the other blocks stay as they were.             *)
LEMMA FreeKeeps == ASSUME HeapInv, NEW b \in blocks, Free(b) PROVE HeapInv'
  BY DEF Free, HeapInv, HeapTypeOK, BlocksKeepData, Apart

(* The header of a block that fits is written at the old end of the heap.  *)
LEMMA HeaderWritten ==
  ASSUME HeapInv, NEW size \in Nat, Fits(size)
  PROVE  /\ At = brk /\ brk \in Unit /\ brk \in Nat /\ brk + Header + size <= HeapLimit
         /\ WithHeader(memory, size) \in [Unit -> Held]
         /\ WithHeader(memory, size)[brk] = size
         /\ \A u \in Unit \ {brk} : WithHeader(memory, size)[u] = memory[u]
  <1>1. At = brk /\ brk \in Nat /\ HeapBase <= brk
    BY Sizes DEF HeapInv, HeapTypeOK, At
  <1>2. brk + Header + size <= HeapLimit
    BY <1>1, RoomForBlock, Sizes DEF Fits
  <1>3. brk \in Unit
    BY <1>1, <1>2, Sizes DEF Unit
  <1> QED BY <1>1, <1>2, <1>3 DEF WithHeader, HeapInv, HeapTypeOK, Held

(* malloc puts a header and a block above everything that is there.        *)
LEMMA MallocKeeps == ASSUME HeapInv, NEW size \in Nat, Malloc(size) PROVE HeapInv'
  <1>1. CASE ~Fits(size)
    BY <1>1, RefusedKeeps DEF Malloc
  <1>2. CASE Fits(size)
    <2> DEFINE n == [ptr |-> At + Header, size |-> size, value |-> 0, known |-> 0]
    <2>1. memory' = WithHeader(memory, size) /\ blocks' = blocks \cup {n} /\ ExtendHeap(size)
      BY <1>2 DEF Malloc
    <2>2. n \in Block /\ n.ptr = brk + Header /\ n.ptr \in Nat
      BY <1>2, HeaderWritten, Sizes DEF Block, Held
    <2>3. \A u \in HeapBase .. brk - 1 : memory'[u] = memory[u]
      BY <1>2, <2>1, HeaderWritten, Sizes DEF Unit
    <2>4. \A u \in n.ptr .. n.ptr + n.known - 1 : memory'[u] = n.value
      BY <2>2
    <2> QED BY <1>2, <2>1, <2>2, <2>3, <2>4, HeaderWritten, NewBlock
  <1> QED BY <1>1, <1>2

(* calloc fills its new block, and only that, with zeros.                  *)
LEMMA CallocKeeps == ASSUME HeapInv, NEW size \in Nat, Calloc(size) PROVE HeapInv'
  <1>1. CASE ~Fits(size)
    BY <1>1, RefusedKeeps DEF Calloc
  <1>2. CASE Fits(size)
    <2> DEFINE n == [ptr |-> At + Header, size |-> size, value |-> 0, known |-> size]
               m == WithHeader(memory, size)
    <2>1. memory' = Holding(m, At + Header, size, 0) /\ blocks' = blocks \cup {n} /\ ExtendHeap(size)
      BY <1>2 DEF Calloc
    <2>2. n \in Block /\ n.ptr = brk + Header /\ n.ptr \in Nat
      BY <1>2, HeaderWritten, Sizes DEF Block, Held
    <2>3. /\ At = brk /\ brk \in Unit /\ brk \in Nat /\ brk + Header + size <= HeapLimit
          /\ m \in [Unit -> Held] /\ m[brk] = size /\ \A u \in Unit \ {brk} : m[u] = memory[u]
      BY <1>2, HeaderWritten
    <2> HIDE DEF m
    <2>4. memory' = [u \in Unit |-> IF u \in brk + Header .. brk + Header + size - 1 THEN 0 ELSE m[u]]
      BY <2>1, <2>3 DEF Holding
    <2>5. memory' \in [Unit -> Held] /\ memory'[brk] = size
      BY <2>3, <2>4, Sizes DEF Held
    <2>6. \A u \in HeapBase .. brk - 1 : memory'[u] = memory[u]
      BY <2>3, <2>4, Sizes DEF Unit
    <2>7. \A u \in n.ptr .. n.ptr + n.known - 1 : memory'[u] = n.value
      BY <2>2, <2>3, <2>4, Sizes DEF Unit, HeapInv, HeapTypeOK
    <2> QED BY <1>2, <2>1, <2>2, <2>5, <2>6, <2>7, NewBlock
  <1> QED BY <1>1, <1>2

(* realloc reads the old size from the header: it copies what is known of  *)
(* the old block, as far as the new one goes.                              *)
LEMMA ReallocKeeps ==
  ASSUME HeapInv, NEW b \in blocks, NEW size \in Nat, Realloc(b, size) PROVE HeapInv'
  <1>1. CASE ~Fits(size)
    BY <1>1, RefusedKeeps DEF Realloc
  <1>2. CASE Fits(size)
    <2> DEFINE n == [ptr |-> At + Header, size |-> size, value |-> b.value,
                     known |-> Least(b.known, size)]
               m == WithHeader(memory, size)
               to == At + Header
               count == Least(b.size, size)
    <2>0. /\ b.ptr \in Nat /\ b.size \in Nat /\ b.known \in Nat /\ b.value \in Held /\ b.known <= b.size
          /\ b.ptr - Header >= HeapBase /\ b.ptr + b.size <= brk /\ memory[b.ptr - Header] = b.size
          /\ \A u \in b.ptr .. b.ptr + b.known - 1 : memory[u] = b.value
      BY DEF HeapInv, HeapTypeOK, BlocksKeepData, Block
    <2>1. /\ memory' = [u \in Unit |-> IF u \in to .. to + count - 1 THEN memory[b.ptr + (u - to)] ELSE m[u]]
          /\ blocks' = (blocks \ {b}) \cup {n} /\ ExtendHeap(size)
      BY <1>2, <2>0 DEF Realloc, CopySize
    <2>2. /\ At = brk /\ brk \in Unit /\ brk \in Nat /\ brk + Header + size <= HeapLimit
          /\ m \in [Unit -> Held] /\ m[brk] = size /\ \A u \in Unit \ {brk} : m[u] = memory[u]
      BY <1>2, HeaderWritten
    <2>3. n \in Block /\ n.ptr = brk + Header /\ n.known <= size /\ n.known <= count
      BY <2>0, <2>2, Sizes DEF Block, Least
    <2>4. count \in Nat /\ count <= b.size /\ count <= size
      BY <2>0 DEF Least
    <2> HIDE DEF m, count
    <2>5. \A u \in to .. to + count - 1 : b.ptr + (u - to) \in Unit /\ u \in Unit
      <3> TAKE u \in to .. to + count - 1
      <3>1. to = brk + Header /\ to \in Nat
        BY <2>2, Sizes
      <3> HIDE DEF to
      <3>2. u \in Int /\ to <= u /\ u <= to + count - 1
        BY <2>4, <3>1
      <3>3. u \in Unit
        BY <2>2, <2>4, <3>1, <3>2, Sizes DEF Unit
      <3>4. b.ptr + (u - to) \in Unit
        BY <2>0, <2>2, <2>4, <3>1, <3>2, Sizes DEF Unit
      <3> QED BY <3>3, <3>4
    <2>6. memory' \in [Unit -> Held]
      BY <2>1, <2>2, <2>5 DEF HeapInv, HeapTypeOK
    <2>7. memory'[brk] = size /\ \A u \in HeapBase .. brk - 1 : memory'[u] = memory[u]
      BY <2>1, <2>2, Sizes DEF Unit
    <2>8. \A u \in n.ptr .. n.ptr + n.known - 1 : memory'[u] = n.value
      <3> TAKE u \in n.ptr .. n.ptr + n.known - 1
      <3>1. u \in to .. to + count - 1 /\ u \in Int
        BY <2>2, <2>3, <2>4, Sizes DEF Block
      <3>2. b.ptr + (u - to) \in b.ptr .. b.ptr + b.known - 1
        BY <2>0, <2>2, <3>1, Sizes DEF Least
      <3> QED BY <2>0, <2>1, <2>5, <3>1, <3>2
    <2> QED BY <1>2, <2>1, <2>2, <2>3, <2>6, <2>7, <2>8, NewBlock
  <1> QED BY <1>1, <1>2

(* A program that fills its block touches no other and no header.          *)
LEMMA UseKeeps ==
  ASSUME HeapInv, NEW b \in blocks, NEW value \in Datum, Use(b, value) PROVE HeapInv'
  <1> DEFINE d == [b EXCEPT !.value = value, !.known = b.size]
  <1>1. \A c \in blocks : /\ c.ptr \in Nat /\ c.size \in Nat /\ c.known \in Nat /\ c.known <= c.size
                          /\ c.ptr - Header >= HeapBase /\ c.ptr + c.size <= brk
                          /\ memory[c.ptr - Header] = c.size
                          /\ \A u \in c.ptr .. c.ptr + c.known - 1 : memory[u] = c.value
    BY DEF HeapInv, HeapTypeOK, BlocksKeepData, Block
  <1>2. /\ d \in Block /\ d.ptr = b.ptr /\ d.size = b.size /\ d.known = b.size /\ d.value = value
    BY DEF HeapInv, HeapTypeOK, Block, Held
  <1>3. /\ blocks' = (blocks \ {b}) \cup {d} /\ UNCHANGED <<heap_end, brk>>
        /\ memory' = [u \in Unit |-> IF u \in b.ptr .. b.ptr + b.size - 1 THEN value ELSE memory[u]]
    BY DEF Use, Holding
  <1> HIDE DEF d
  <1>4. HeapTypeOK'
    BY <1>2, <1>3 DEF HeapInv, HeapTypeOK, Held
  <1>5. brk \in HeapBase .. HeapLimit
    BY DEF HeapInv, HeapTypeOK
  <1>6. ASSUME NEW c \in blocks'
        PROVE  /\ c.ptr - Header >= HeapBase /\ c.ptr + c.size <= brk' /\ c.known <= c.size
               /\ memory'[c.ptr - Header] = c.size
               /\ \A u \in c.ptr .. c.ptr + c.known - 1 : memory'[u] = c.value
    <2>1. CASE c = d
      <3>1. c.ptr - Header \in Unit /\ \A u \in b.ptr .. b.ptr + b.size - 1 : u \in Unit
        BY <1>1, <1>2, <1>5, <2>1, Sizes DEF Unit
      <3> QED BY <1>1, <1>2, <1>3, <2>1, <3>1, Sizes
    <2>2. CASE c \in blocks /\ c # b
      <3>1. Apart(b, c)
        BY <2>2 DEF HeapInv
      <3>2. c.ptr - Header \in Unit /\ \A u \in c.ptr .. c.ptr + c.known - 1 : u \in Unit
        BY <1>1, <1>5, <2>2, Sizes DEF Unit
      <3>3. c.ptr - Header \notin b.ptr .. b.ptr + b.size - 1
        BY <1>1, <2>2, <3>1, Sizes DEF Apart
      <3>4. \A u \in c.ptr .. c.ptr + c.known - 1 : u \notin b.ptr .. b.ptr + b.size - 1
        BY <1>1, <2>2, <3>1, Sizes DEF Apart
      <3> QED BY <1>1, <1>3, <2>2, <3>2, <3>3, <3>4
    <2> QED BY <1>3, <2>1, <2>2
  <1>7. ASSUME NEW c \in blocks', NEW e \in blocks', c # e PROVE Apart(c, e)
    <2>1. CASE c \in blocks \ {b} /\ e \in blocks \ {b}
      BY <1>7, <2>1 DEF HeapInv
    <2>2. CASE c = d /\ e \in blocks \ {b}
      BY <1>2, <2>2 DEF HeapInv, Apart
    <2>3. CASE c \in blocks \ {b} /\ e = d
      BY <1>2, <2>3 DEF HeapInv, Apart
    <2> QED BY <1>3, <1>7, <2>1, <2>2, <2>3
  <1> QED BY <1>4, <1>6, <1>7 DEF HeapInv, BlocksKeepData, Apart

(* Every call keeps the invariant: one case per call.                      *)
LEMMA HeapStep == HeapInv /\ [HeapNext]_uvars => HeapInv'
  <1> SUFFICES ASSUME HeapInv, [HeapNext]_uvars PROVE HeapInv'
    OBVIOUS
  <1>1. \A size \in 1 .. MaxRequest : size \in Nat
    BY Sizes
  <1>2. CASE \E size \in 1 .. MaxRequest : Malloc(size) \/ Calloc(size)
    BY <1>1, <1>2, MallocKeeps, CallocKeeps
  <1>3. CASE Refusal
    BY <1>3, RefusedKeeps DEF Refusal
  <1>4. ASSUME NEW b \in blocks,
               \/ Free(b)
               \/ \E size \in 1 .. MaxRequest : Realloc(b, size)
               \/ \E value \in Datum : Use(b, value)
        PROVE  HeapInv'
    BY <1>1, <1>4, FreeKeeps, ReallocKeeps, UseKeeps
  <1>5. CASE UNCHANGED uvars
    BY <1>5 DEF uvars, HeapInv, HeapTypeOK, BlocksKeepData, Apart
  <1> QED BY <1>2, <1>3, <1>4, <1>5 DEF HeapNext

(* What a program wrote into a block stays there until it is freed, through*)
(* every sequence of malloc, calloc, realloc and free, also when brk is    *)
(* refused (user_libc.c:120, :155).                                        *)
THEOREM BlocksAlwaysKeepData == HeapSpec => []BlocksKeepData
  <1>1. HeapSpec => []HeapInv
    BY HeapInitial, HeapStep, PTL DEF HeapSpec
  <1>2. HeapInv => BlocksKeepData
    BY DEF HeapInv
  <1> QED BY <1>1, <1>2, PTL

-----------------------------------------------------------------------------
(***************************************************************************)
(* qsort is a heapsort.  HeapUnder says that the positions from lo on are  *)
(* a heap, except for what sift_down has in its hand: the entry at root    *)
(* may be too small for its place.  The entries below root are then held   *)
(* by the one above it, which makes the next exchange safe.                *)
(***************************************************************************)
Le(a, b) == Compare(a, b) <= 0
Parent(c) == (c - 1) \div 2

HeapUnder(lo, last) ==
  /\ \A c \in 1 .. last : Parent(c) >= lo /\ Parent(c) # root => Le(array[c], array[Parent(c)])
  /\ \A c \in 1 .. last : Parent(c) = root /\ root > 0 /\ Parent(root) >= lo
                            => Le(array[c], array[Parent(root)])

(* What lies behind the heap is sorted, and nothing in the heap is larger. *)
Behind(e) == \A i, j \in 0 .. nmemb - 1 : i < j /\ j >= e => Le(array[i], array[j])

SortTypes ==
  /\ nmemb \in Nat /\ input \in [0 .. nmemb - 1 -> Entry] /\ array \in [0 .. nmemb - 1 -> Entry]
  /\ phase \in {"build", "sort", "search", "done"} /\ key \in Entry
  /\ low \in 0 .. nmemb /\ high \in 0 .. nmemb
  /\ phase # "done" => found = NotFound
  /\ phase \in {"build", "sort"} => low = 0 /\ high = nmemb

Building ==
  phase = "build" =>
    /\ start \in 0 .. nmemb - 1 /\ end = nmemb /\ end > 0
    /\ root \in {NoRoot} \cup start .. nmemb - 1 /\ HeapUnder(start, nmemb - 1)

Shrinking ==
  phase = "sort" =>
    /\ end \in 1 .. nmemb /\ root \in {NoRoot} \cup 0 .. end - 1
    /\ HeapUnder(0, end - 1) /\ Behind(end)

Searching ==
  /\ phase \in {"search", "done"} => Behind(0)
  /\ phase = "search" => \A i \in 0 .. nmemb - 1 : i < low \/ i >= high => array[i] # key
  /\ phase = "done" => IF found = NotFound THEN \A i \in 0 .. nmemb - 1 : array[i] # key
                       ELSE found \in 0 .. nmemb - 1 /\ array[found] = key

Permuted == \A e \in Entry : Count(array, e) = Count(input, e)

SortInv == SortTypes /\ Building /\ Shrinking /\ Searching /\ Permuted

-----------------------------------------------------------------------------
(* ls_entry_cmp orders: any two entries, transitively, and it tells equal  *)
(* only what is equal.                                                     *)
LEMMA Ordered ==
  /\ \A a, b \in Entry : Compare(a, b) \in Int /\ (Compare(a, b) = 0 => a = b)
  /\ \A a, b \in Entry : Le(a, b) \/ Le(b, a)
  /\ \A a, b \in Entry : Compare(a, b) < 0 <=> ~Le(b, a)
  /\ \A a, b \in Entry : Compare(a, b) > 0 <=> ~Le(a, b)
  /\ \A a \in Entry : Le(a, a)
  /\ \A a, b, c \in Entry : Le(a, b) /\ Le(b, c) => Le(a, c)
  <1>1. \A a \in Entry : a.name \in Int /\ a.dir \in BOOLEAN
    BY SortingAssumption DEF Entry, SortingAssumption
  <1>2. ASSUME NEW a \in Entry, NEW b \in Entry
        PROVE  /\ Compare(a, b) \in Int
               /\ Le(a, b) <=> \/ a.dir /\ ~b.dir
                               \/ a.dir = b.dir /\ a.name <= b.name
               /\ Compare(a, b) = 0 <=> a.dir = b.dir /\ a.name = b.name
               /\ Compare(a, b) < 0 <=> \/ a.dir /\ ~b.dir
                                        \/ a.dir = b.dir /\ a.name < b.name
    <2>1. CASE a.dir # b.dir
      BY <1>1, <2>1 DEF Compare, Le
    <2>2. CASE a.dir = b.dir
      BY <1>1, <2>2 DEF Compare, Le
    <2> QED BY <2>1, <2>2
  <1>3. \A a, b \in Entry : Compare(a, b) = 0 => a = b
    BY <1>2 DEF Entry
  <1> HIDE DEF Compare, Le
  <1>4. \A a, b \in Entry : Le(a, b) \/ Le(b, a)
    BY <1>1, <1>2
  <1>5. \A a, b \in Entry : Compare(a, b) < 0 <=> ~Le(b, a)
    BY <1>1, <1>2
  <1>6. \A a, b \in Entry : Compare(a, b) > 0 <=> ~Le(a, b)
    BY <1>2 DEF Le
  <1>7. \A a, b, c \in Entry : Le(a, b) /\ Le(b, c) => Le(a, c)
    BY <1>1, <1>2
  <1> QED BY <1>2, <1>3, <1>4, <1>5, <1>6, <1>7

(* The tree of a heap.                                                     *)
LEMMA HeapTree ==
  /\ \A c \in Nat \ {0} : Parent(c) \in Nat /\ Parent(c) < c
                          /\ (c = 2 * Parent(c) + 1 \/ c = 2 * Parent(c) + 2)
  /\ \A r \in Nat : Parent(r * 2 + 1) = r /\ Parent(r * 2 + 2) = r
  BY DEF Parent

(* The heap without a hole has its largest entry on top: the first one that *)
(* were larger would be larger than the entry above it.                    *)
LEMMA TopIsLargest ==
  ASSUME SortTypes, NEW e \in 1 .. nmemb, HeapUnder(0, e - 1), root = NoRoot,
         NEW i \in 0 .. e - 1
  PROVE  Le(array[i], array[0])
  <1> DEFINE bad == {k \in 0 .. e - 1 : ~Le(array[k], array[0])}
  <1>1. SUFFICES ASSUME bad # {} PROVE FALSE
    OBVIOUS
  <1>2. bad \subseteq Nat
    BY DEF SortTypes
  <1>3. PICK m \in bad : \A k \in bad : ~ (<<k, m>> \in OpToRel(<, Nat))
    BY <1>1, <1>2, NatLessThanWellFounded, WFMin
  <1>4. m \in Nat /\ m \in 0 .. e - 1 /\ ~Le(array[m], array[0])
        /\ \A k \in 0 .. e - 1 : k < m => Le(array[k], array[0])
    <2>1. \A k \in bad : ~(k < m)
      BY <1>2, <1>3 DEF OpToRel
    <2> QED BY <1>2, <2>1
  <1> HIDE DEF bad
  <1>5. \A k \in 0 .. e - 1 : array[k] \in Entry
    BY DEF SortTypes
  <1>6. m # 0
    BY <1>4, <1>5, Ordered
  <1>7. Parent(m) \in 0 .. e - 1 /\ Parent(m) < m /\ m \in 1 .. e - 1
    BY <1>4, <1>6, HeapTree
  <1>8. Le(array[m], array[Parent(m)]) /\ Le(array[Parent(m)], array[0])
    BY <1>4, <1>7 DEF HeapUnder, NoRoot
  <1>9. array[m] \in Entry /\ array[Parent(m)] \in Entry /\ array[0] \in Entry
    BY <1>4, <1>5, <1>7
  <1> QED BY <1>4, <1>8, <1>9, Ordered

(* An exchange of two entries,                                             *)
LEMMA ExchangeFacts ==
  ASSUME NEW n \in Nat, NEW f \in [0 .. n - 1 -> Entry], NEW i \in 0 .. n - 1, NEW j \in 0 .. n - 1
  PROVE  /\ Exchanged(f, i, j) \in [0 .. n - 1 -> Entry]
         /\ \A k \in 0 .. n - 1 : Exchanged(f, i, j)[k] = IF k = i THEN f[j]
                                                          ELSE IF k = j THEN f[i] ELSE f[k]
  BY DEF Exchanged

(* which loses none and adds none.                                         *)
LEMMA ExchangeCounts ==
  ASSUME NEW n \in Nat, NEW f \in [0 .. n - 1 -> Entry], NEW i \in 0 .. n - 1, NEW j \in 0 .. n - 1,
         NEW e
  PROVE  Count(Exchanged(f, i, j), e) = Count(f, e)
  <1>1. PICK g \in [0 .. n - 1 -> Entry] : /\ g = Exchanged(f, i, j)
          /\ \A k \in 0 .. n - 1 : g[k] = IF k = i THEN f[j] ELSE IF k = j THEN f[i] ELSE f[k]
    <2>1. /\ Exchanged(f, i, j) \in [0 .. n - 1 -> Entry]
          /\ \A k \in 0 .. n - 1 : Exchanged(f, i, j)[k] = IF k = i THEN f[j]
                                                           ELSE IF k = j THEN f[i] ELSE f[k]
      BY DEF Exchanged
    <2> QED BY <2>1
  <1> DEFINE S == {k \in 0 .. n - 1 : f[k] = e}
             T == {k \in 0 .. n - 1 : g[k] = e}
             Other(k) == IF k = i THEN j ELSE IF k = j THEN i ELSE k
             swap == [k \in S |-> Other(k)]
  <1>2. \A k \in 0 .. n - 1 : /\ Other(k) \in 0 .. n - 1 /\ Other(Other(k)) = k
                              /\ g[Other(k)] = f[k]
    BY <1>1
  <1>3. swap \in Bijection(S, T)
    <2>1. swap \in [S -> T]
      BY <1>2
    <2>2. \A a, b \in S : swap[a] = swap[b] => a = b
      BY <1>2
    <2>3. \A t \in T : \E s \in S : swap[s] = t
      <3> TAKE t \in T
      <3>1. Other(t) \in 0 .. n - 1 /\ Other(Other(t)) = t /\ g[Other(Other(t))] = f[Other(t)]
        BY <1>2
      <3>2. Other(t) \in S /\ swap[Other(t)] = t
        BY <3>1
      <3> QED BY <3>2
    <2>4. DOMAIN swap = S
      OBVIOUS
    <2> HIDE DEF S, T, swap
    <2> QED BY <2>1, <2>2, <2>3, <2>4 DEF Bijection, Injection, Surjection, IsInjective
  <1>4. IsFiniteSet(S)
    <2>1. IsFiniteSet(0 .. n - 1)
      BY FS_Interval
    <2> QED BY <2>1, FS_Subset
  <1>5. Cardinality(T) = Cardinality(S)
    <2> HIDE DEF S, T, swap
    <2> QED BY <1>3, <1>4, FS_Bijection DEF ExistsBijection
  <1>6. DOMAIN f = 0 .. n - 1 /\ DOMAIN g = 0 .. n - 1
    OBVIOUS
  <1> QED BY <1>1, <1>5, <1>6 DEF Count

(* What sift_down exchanges is the root and the larger of its children.    *)
LEMMA AboveFacts ==
  ASSUME SortTypes, NEW last \in 0 .. nmemb - 1, last = LastElement, NEW r \in 0 .. last
  PROVE  /\ Above(r) \in r .. last
         /\ Above(r) # r => /\ Parent(Above(r)) = r /\ ~Le(array[Above(r)], array[r])
         /\ \A c \in 1 .. last : Parent(c) = r => Le(array[c], array[Above(r)])
  <1> DEFINE x == r * 2 + 1
             y == r * 2 + 2
             m == Larger(r, x)
             q == Larger(m, y)
  <1>1. /\ nmemb \in Nat /\ last \in Nat /\ r \in Nat /\ x \in Nat /\ y = x + 1 /\ r < x
        /\ Parent(x) = r /\ Parent(y) = r
        /\ \A c \in 1 .. last : Parent(c) = r => c = x \/ c = y
    <2>1. nmemb \in Nat /\ last \in Nat /\ r \in Nat
      BY DEF SortTypes
    <2>2. r < x /\ x \in Nat /\ y = x + 1
      BY <2>1
    <2>3. Parent(x) = r /\ Parent(y) = r
      BY <2>1, HeapTree
    <2>4. ASSUME NEW c \in 1 .. last, Parent(c) = r PROVE c = x \/ c = y
      <3>1. c \in Nat \ {0}
        BY <2>1
      <3>2. c = 2 * r + 1 \/ c = 2 * r + 2
        BY <2>4, <3>1, HeapTree
      <3> QED BY <2>1, <3>2
    <2> QED BY <2>1, <2>2, <2>3, <2>4
  <1>2. \A k \in 0 .. last : array[k] \in Entry
    BY <1>1 DEF SortTypes
  <1>3. /\ Above(r) = IF x > last THEN r ELSE q
        /\ m = IF x <= last /\ Compare(array[r], array[x]) < 0 THEN x ELSE r
        /\ q = IF y <= last /\ Compare(array[m], array[y]) < 0 THEN y ELSE m
    BY DEF Above, Larger
  <1> HIDE DEF m, q
  <1>4. CASE x > last
    <2>1. Above(r) = r /\ \A c \in 1 .. last : Parent(c) # r
      BY <1>1, <1>3, <1>4
    <2> QED BY <1>1, <2>1
  <1>5. CASE ~(x > last)
    <2>1. x \in 0 .. last /\ array[r] \in Entry /\ array[x] \in Entry
      BY <1>1, <1>2, <1>5
    <2>2. /\ m \in {r, x} /\ Le(array[r], array[m]) /\ Le(array[x], array[m])
          /\ m # r => m = x /\ ~Le(array[m], array[r])
      <3>1. CASE Compare(array[r], array[x]) < 0
        <4>1. m = x
          BY <1>1, <1>3, <1>5, <3>1
        <4> QED BY <2>1, <3>1, <4>1, Ordered
      <3>2. CASE ~(Compare(array[r], array[x]) < 0)
        <4>1. m = r
          BY <1>3, <3>2
        <4> QED BY <2>1, <3>2, <4>1, Ordered
      <3> QED BY <3>1, <3>2
    <2>3. m \in 0 .. last /\ array[m] \in Entry
      BY <1>1, <1>2, <2>1, <2>2
    <2>4. CASE y <= last
      <3>1. y \in 0 .. last /\ array[y] \in Entry
        BY <1>1, <1>2, <2>4
      <3>2. /\ q \in {m, y} /\ Le(array[m], array[q]) /\ Le(array[y], array[q])
            /\ q # m => q = y /\ ~Le(array[q], array[m])
        <4>1. CASE Compare(array[m], array[y]) < 0
          <5>1. q = y
            BY <1>3, <2>4, <4>1
          <5> QED BY <2>3, <3>1, <4>1, <5>1, Ordered
        <4>2. CASE ~(Compare(array[m], array[y]) < 0)
          <5>1. q = m
            BY <1>3, <4>2
          <5> QED BY <2>3, <3>1, <4>2, <5>1, Ordered
        <4> QED BY <4>1, <4>2
      <3>3. q \in {r, x, y} /\ array[q] \in Entry /\ q \in r .. last
        BY <1>1, <2>1, <2>2, <2>3, <3>1, <3>2
      <3>4. Le(array[x], array[q]) /\ Le(array[y], array[q])
        BY <2>1, <2>2, <2>3, <3>1, <3>2, <3>3, Ordered
      <3>5. q # r => ~Le(array[q], array[r])
        <4>1. CASE q = m
          BY <2>2, <4>1
        <4>2. CASE q # m
          <5>1. ~Le(array[q], array[m]) /\ Le(array[r], array[m])
            BY <2>2, <3>2, <4>2
          <5> QED BY <2>1, <2>3, <3>3, <5>1, Ordered
        <4> QED BY <4>1, <4>2
      <3>6. Above(r) = q
        BY <1>3, <1>5
      <3> QED BY <1>1, <3>3, <3>4, <3>5, <3>6
    <2>5. CASE ~(y <= last)
      <3>1. Above(r) = m /\ m \in r .. last
        BY <1>1, <1>3, <1>5, <2>2, <2>3, <2>5
      <3>2. \A c \in 1 .. last : Parent(c) = r => c = x
        BY <1>1, <2>5
      <3> QED BY <1>1, <2>2, <3>1, <3>2
    <2> QED BY <2>4, <2>5
  <1> QED BY <1>4, <1>5

(* An exchange of sift_down moves the hole down and keeps the heap.        *)
LEMMA SiftKeepsHeap ==
  ASSUME SortTypes, NEW lo \in 0 .. nmemb - 1, NEW last \in 0 .. nmemb - 1, NEW r \in lo .. last,
         root = r, HeapUnder(lo, last), NEW m \in r .. last, Parent(m) = r, m # r,
         ~Le(array[m], array[r]), \A c \in 1 .. last : Parent(c) = r => Le(array[c], array[m]),
         array' = Exchanged(array, r, m), root' = m
  PROVE  HeapUnder(lo, last)'
  <1>1. /\ nmemb \in Nat /\ lo \in Nat /\ last \in Nat /\ r \in Nat /\ m \in Nat
        /\ r \in 0 .. nmemb - 1 /\ m \in 0 .. nmemb - 1 /\ r < m /\ lo <= r /\ m <= last
    BY DEF SortTypes
  <1>2. \A k \in 0 .. last : array[k] \in Entry
    BY <1>1 DEF SortTypes
  <1>3. \A k \in 0 .. last : array'[k] = IF k = r THEN array[m] ELSE IF k = m THEN array[r] ELSE array[k]
    BY <1>1 DEF SortTypes, Exchanged
  <1>4. array[r] \in Entry /\ array[m] \in Entry /\ Le(array[r], array[m])
    BY <1>1, <1>2, Ordered
  <1>5. \A c \in 1 .. last : Parent(c) \in 0 .. last /\ Parent(c) < c /\ c \in 0 .. last
    <2> TAKE c \in 1 .. last
    <2>1. c \in Nat \ {0} /\ c <= last
      BY <1>1
    <2> QED BY <1>1, <2>1, HeapTree
  <1>6. ASSUME NEW c \in 1 .. last, Parent(c) >= lo, Parent(c) # m
        PROVE  Le(array'[c], array'[Parent(c)])
    <2>1. PICK p \in 0 .. last : p = Parent(c) /\ p < c /\ c \in 0 .. last
      BY <1>5
    <2>2. CASE p = r
      <3>1. array'[p] = array[m]
        BY <1>3, <2>1, <2>2
      <3>2. CASE c = m
        <4>1. array'[c] = array[r]
          BY <1>1, <1>3, <2>1, <3>2
        <4> QED BY <1>4, <2>1, <3>1, <4>1
      <3>3. CASE c # m
        <4>1. array'[c] = array[c]
          <5>1. c # r
            BY <1>1, <2>1, <2>2
          <5> QED BY <1>3, <2>1, <3>3, <5>1
        <4>2. Le(array[c], array[m])
          BY <2>1, <2>2
        <4> QED BY <2>1, <3>1, <4>1, <4>2
      <3> QED BY <3>2, <3>3
    <2>3. CASE p # r
      <3>1. array'[p] = array[p] /\ p >= lo
        BY <1>3, <1>6, <2>1, <2>3
      <3>2. c # m
        BY <2>1, <2>3
      <3>3. CASE c = r
        <4>1. array'[c] = array[m]
          BY <1>3, <2>1, <3>3
        <4>2. r > 0 /\ Parent(r) = p
          BY <1>1, <2>1, <3>3
        <4>3. m \in 1 .. last /\ Parent(m) = r
          BY <1>1
        <4>4. Le(array[m], array[p])
          BY <3>1, <4>2, <4>3 DEF HeapUnder
        <4> QED BY <2>1, <3>1, <4>1, <4>4
      <3>4. CASE c # r
        <4>1. array'[c] = array[c]
          BY <1>3, <2>1, <3>2, <3>4
        <4>2. Le(array[c], array[p])
          BY <2>1, <2>3, <3>1 DEF HeapUnder
        <4> QED BY <2>1, <3>1, <4>1, <4>2
      <3> QED BY <3>3, <3>4
    <2> QED BY <2>2, <2>3
  <1>7. ASSUME NEW c \in 1 .. last, Parent(c) = m
        PROVE  Le(array'[c], array'[r])
    <2>1. c \in 0 .. last /\ m < c /\ c # r /\ c # m
      BY <1>1, <1>5, <1>7
    <2>2. array'[c] = array[c] /\ array'[r] = array[m]
      BY <1>1, <1>3, <2>1
    <2>3. Le(array[c], array[m])
      <3>1. Parent(c) >= lo /\ Parent(c) # root
        BY <1>1, <1>7
      <3> QED BY <1>7, <3>1 DEF HeapUnder
    <2> QED BY <2>2, <2>3
  <1> QED BY <1>6, <1>7 DEF HeapUnder

(* When nothing is left to exchange, there is no hole.                     *)
LEMMA SiftEnds ==
  ASSUME SortTypes, NEW lo \in 0 .. nmemb - 1, NEW last \in 0 .. nmemb - 1, NEW r \in lo .. last,
         root = r, HeapUnder(lo, last), \A c \in 1 .. last : Parent(c) = r => Le(array[c], array[r]),
         array' = array, root' = NoRoot
  PROVE  HeapUnder(lo, last)'
  <1>1. \A c \in 1 .. last : Parent(c) # NoRoot
    <2> TAKE c \in 1 .. last
    <2>1. c \in Nat \ {0}
      BY DEF SortTypes
    <2> QED BY <2>1, HeapTree DEF NoRoot
  <1> QED BY <1>1 DEF HeapUnder

(* Exchanging two entries of the heap leaves what lies behind it sorted.   *)
LEMMA ExchangeKeepsBehind ==
  ASSUME SortTypes, NEW e \in 0 .. nmemb, Behind(e), NEW a \in 0 .. e - 1, NEW b \in 0 .. e - 1,
         array' = Exchanged(array, a, b), nmemb' = nmemb
  PROVE  Behind(e)'
  <1>1. /\ nmemb \in Nat /\ e \in Nat /\ e <= nmemb /\ a \in Nat /\ b \in Nat /\ a < e /\ b < e
    BY DEF SortTypes
  <1>2. \A k \in 0 .. nmemb - 1 : array'[k] = IF k = a THEN array[b]
                                              ELSE IF k = b THEN array[a] ELSE array[k]
    BY <1>1 DEF SortTypes, Exchanged
  <1>3. ASSUME NEW i \in 0 .. nmemb - 1, NEW j \in 0 .. nmemb - 1, i < j, j >= e
        PROVE  Le(array'[i], array'[j])
    <2>1. array'[j] = array[j]
      BY <1>1, <1>2, <1>3
    <2>2. PICK k \in 0 .. nmemb - 1 : k < j /\ array'[i] = array[k]
      <3>1. CASE i = a
        BY <1>1, <1>2, <1>3, <3>1
      <3>2. CASE i = b /\ i # a
        BY <1>1, <1>2, <1>3, <3>2
      <3>3. CASE i # a /\ i # b
        BY <1>2, <1>3, <3>3
      <3> QED BY <3>1, <3>2, <3>3
    <2>3. Le(array[k], array[j])
      BY <1>3, <2>2 DEF Behind
    <2> QED BY <2>1, <2>2, <2>3
  <1> QED BY <1>3 DEF Behind

-----------------------------------------------------------------------------
LEMMA SortBegins == SortInit => SortInv
  <1> SUFFICES ASSUME SortInit PROVE SortInv
    OBVIOUS
  <1>1. PICK k \in 0 .. MaxElements : input \in [0 .. (k - 1) -> Entry]
    BY DEF SortInit
  <1>2. k \in Nat
    BY SortingAssumption DEF SortingAssumption
  <1>3. nmemb = k
    <2>1. DOMAIN input = 0 .. k - 1 /\ Cardinality(0 .. k - 1) = IF 0 > k - 1 THEN 0 ELSE k - 1 - 0 + 1
      BY <1>1, <1>2, FS_Interval
    <2> QED BY <1>2, <2>1 DEF nmemb
  <1>4. /\ array = input /\ start = (k - 2) \div 2 /\ end = k /\ key \in Entry
        /\ low = 0 /\ high = k /\ found = NotFound
    BY <1>3 DEF SortInit
  <1>5. k < 2 => phase = "search" /\ root = NoRoot
    BY <1>3 DEF SortInit
  <1>6. ~(k < 2) => phase = "build" /\ root = start
    BY <1>3 DEF SortInit
  <1>7. (phase = "search" /\ k < 2) \/ (phase = "build" /\ ~(k < 2) /\ root = start)
    BY <1>5, <1>6
  <1>8. SortTypes
    BY <1>1, <1>2, <1>3, <1>4, <1>7 DEF SortTypes
  <1>9. Building
    <2> SUFFICES ASSUME phase = "build" PROVE Building
      BY DEF Building
    <2>1. k >= 2 /\ root = start /\ start \in 0 .. k - 1 /\ end = k
      BY <1>2, <1>4, <1>7
    <2>2. \A c \in 1 .. k - 1 : Parent(c) >= start /\ Parent(c) # start => Parent(c) > start
                                /\ c > 2 * start + 2
      <3> TAKE c \in 1 .. k - 1
      <3>1. c \in Nat \ {0}
        BY <1>2
      <3>2. Parent(c) \in Nat /\ (c = 2 * Parent(c) + 1 \/ c = 2 * Parent(c) + 2)
        BY <3>1, HeapTree
      <3> QED BY <2>1, <3>2
    <2>3. \A c \in 1 .. k - 1 : ~(c > 2 * start + 2)
      BY <1>2, <1>4
    <2>4. root > 0 => Parent(root) < start
      <3>1. root \in Nat
        BY <1>2, <2>1
      <3>2. root > 0 => Parent(root) < root
        BY <3>1, HeapTree
      <3> QED BY <2>1, <3>2
    <2>5. root > 0 => Parent(root) \in Nat
      BY <2>1, <1>2, HeapTree
    <2>6. HeapUnder(start, k - 1)
      BY <1>2, <2>1, <2>2, <2>3, <2>4, <2>5 DEF HeapUnder
    <2> QED BY <1>2, <1>3, <2>1, <2>6 DEF Building
  <1>10. Shrinking
    BY <1>7 DEF Shrinking
  <1>11. Searching
    <2>1. \A i, j \in 0 .. k - 1 : k < 2 => ~(i < j)
      BY <1>2
    <2> QED BY <1>2, <1>3, <1>4, <1>7, <2>1 DEF Searching, Behind
  <1>12. Permuted
    BY <1>4 DEF Permuted
  <1> QED BY <1>8, <1>9, <1>10, <1>11, <1>12 DEF SortInv

(* What the steps of qsort leave alone.                                    *)
LEMMA SortStays ==
  ASSUME SortInv, input' = input, key' = key, low' = low, high' = high, found' = found,
         phase \in {"build", "sort"}, phase' \in {"build", "sort", "search"},
         \/ array' = array
         \/ \E a, b \in 0 .. nmemb - 1 : array' = Exchanged(array, a, b)
  PROVE  /\ nmemb' = nmemb /\ nmemb \in Nat
         /\ SortTypes' /\ Permuted' /\ (phase' = "search" /\ Behind(0)' => Searching')
         /\ phase' # "search" => Searching'
  <1>1. nmemb' = nmemb /\ nmemb \in Nat /\ SortTypes
    BY DEF nmemb, SortInv, SortTypes
  <1>2. array' \in [0 .. nmemb - 1 -> Entry] /\ \A e \in Entry : Count(array', e) = Count(array, e)
    <2>1. CASE array' = array
      BY <1>1, <2>1 DEF SortTypes
    <2>2. CASE \E a, b \in 0 .. nmemb - 1 : array' = Exchanged(array, a, b)
      <3>1. PICK a \in 0 .. nmemb - 1, b \in 0 .. nmemb - 1 : array' = Exchanged(array, a, b)
        BY <2>2
      <3>2. Exchanged(array, a, b) \in [0 .. nmemb - 1 -> Entry]
        BY <1>1 DEF SortTypes, Exchanged
      <3>3. \A e \in Entry : Count(Exchanged(array, a, b), e) = Count(array, e)
        BY <1>1, ExchangeCounts DEF SortTypes
      <3> QED BY <3>1, <3>2, <3>3
    <2> QED BY <2>1, <2>2
  <1>3. SortTypes'
    BY <1>1, <1>2 DEF SortTypes
  <1>4. Permuted'
    <2>1. \A e \in Entry : Count(array', e) = Count(input, e)
      BY <1>2 DEF SortInv, Permuted
    <2> QED BY <2>1 DEF Permuted, Count
  <1>5. phase' = "search" => \A i \in 0 .. nmemb - 1 : ~(i < low' \/ i >= high')
    BY <1>1 DEF SortTypes
  <1>6. (phase' = "search" /\ Behind(0)' => Searching') /\ (phase' # "search" => Searching')
    BY <1>1, <1>5 DEF Searching
  <1> QED BY <1>1, <1>3, <1>4, <1>6

(* sift_down stays in its phase.                                           *)
LEMMA SiftResult ==
  ASSUME SortInv, phase \in {"build", "sort"}, phase' = phase, start' = start, end' = end,
         nmemb' = nmemb, SortTypes', Permuted', Searching',
         NEW lo \in 0 .. nmemb - 1, NEW last \in 0 .. nmemb - 1,
         phase = "build" => lo = start /\ last = nmemb - 1,
         phase = "sort" => lo = 0 /\ last = end - 1,
         HeapUnder(lo, last)', phase = "sort" => Behind(end)',
         root' = NoRoot \/ root' \in lo .. last
  PROVE  SortInv'
  <1>1. Building'
    <2> SUFFICES ASSUME phase = "build" PROVE Building'
      BY DEF Building
    <2>1. lo = start /\ last = nmemb - 1
      OBVIOUS
    <2>2. HeapUnder(start, nmemb - 1)'
      BY <2>1 DEF HeapUnder
    <2>3. start' \in 0 .. nmemb' - 1 /\ end' = nmemb' /\ end' > 0
          /\ root' \in {NoRoot} \cup start' .. nmemb' - 1
      BY <2>1 DEF SortInv, Building
    <2> QED BY <2>2, <2>3 DEF Building
  <1>2. Shrinking'
    <2> SUFFICES ASSUME phase = "sort" PROVE Shrinking'
      BY DEF Shrinking
    <2>1. lo = 0 /\ last = end - 1
      OBVIOUS
    <2>2. HeapUnder(0, end - 1)'
      BY <2>1 DEF HeapUnder
    <2>3. end' \in 1 .. nmemb' /\ root' \in {NoRoot} \cup 0 .. end' - 1
      BY <2>1 DEF SortInv, Shrinking
    <2> QED BY <2>2, <2>3 DEF Shrinking
  <1> QED BY <1>1, <1>2 DEF SortInv

(* One turn of sift_down.                                                  *)
LEMMA SiftDownKeeps == ASSUME SortInv, SiftDown PROVE SortInv'
  <1>1. /\ UNCHANGED <<input, phase, start, end, key, low, high, found>>
        /\ phase \in {"build", "sort"} /\ root # NoRoot
    BY DEF SiftDown
  <1>2. SortTypes /\ nmemb \in Nat
    BY DEF SortInv, SortTypes
  <1>3. PICK lo \in 0 .. nmemb - 1, last \in 0 .. nmemb - 1, r \in 0 .. nmemb - 1 :
          /\ r \in lo .. last
          /\ r = root
          /\ last = LastElement
          /\ HeapUnder(lo, last)
          /\ (phase = "build" => lo = start /\ last = nmemb - 1)
          /\ (phase = "sort" => lo = 0 /\ last = end - 1)
    <2>1. CASE phase = "build"
      <3>1. start \in 0 .. nmemb - 1 /\ root \in start .. nmemb - 1 /\ HeapUnder(start, nmemb - 1)
        BY <1>1, <2>1 DEF SortInv, Building
      <3>2. nmemb - 1 \in 0 .. nmemb - 1 /\ LastElement = nmemb - 1
        BY <1>2, <2>1, <3>1 DEF LastElement
      <3> QED BY <2>1, <3>1, <3>2
    <2>2. CASE phase = "sort"
      <3>1. end \in 1 .. nmemb /\ root \in 0 .. end - 1 /\ HeapUnder(0, end - 1)
        BY <1>1, <2>2 DEF SortInv, Shrinking
      <3>2. 0 \in 0 .. nmemb - 1 /\ end - 1 \in 0 .. nmemb - 1 /\ root \in 0 .. nmemb - 1
        BY <1>2, <3>1
      <3>3. LastElement = end - 1 /\ phase # "build"
        BY <2>2 DEF LastElement
      <3> USE <3>2
      <3> WITNESS 0 \in 0 .. nmemb - 1, end - 1 \in 0 .. nmemb - 1, root \in 0 .. nmemb - 1
      <3> QED BY <2>2, <3>1, <3>2, <3>3
    <2> QED BY <1>1, <2>1, <2>2
  <1>4. r \in Nat /\ r \in 0 .. last /\ lo \in Nat /\ last \in Nat /\ lo <= r
    BY <1>2, <1>3
  <1>5. PICK m \in r .. last :
          /\ m = Above(r)
          /\ m # r => Parent(m) = r /\ ~Le(array[m], array[r])
          /\ \A c \in 1 .. last : Parent(c) = r => Le(array[c], array[m])
    BY <1>2, <1>3, <1>4, AboveFacts
  <1>6. /\ r \in 0 .. nmemb - 1 /\ m \in 0 .. nmemb - 1 /\ r \in lo .. last
        /\ root = r /\ HeapUnder(lo, last) /\ Above(root) = m
    <2>1. r \in 0 .. nmemb - 1 /\ m \in 0 .. nmemb - 1
      BY <1>2, <1>4
    <2>2. root = r /\ r \in lo .. last /\ HeapUnder(lo, last)
      BY <1>3
    <2>3. Above(root) = m
      BY <1>5, <2>2
    <2> QED BY <2>1, <2>2, <2>3
  <1>7. CASE m = r
    <2>1. root' = NoRoot /\ array' = array
      BY <1>6, <1>7 DEF SiftDown
    <2>2. HeapUnder(lo, last)'
      BY <1>2, <1>5, <1>6, <1>7, <2>1, SiftEnds
    <2>3. nmemb' = nmemb /\ SortTypes' /\ Permuted' /\ Searching'
      BY <1>1, <2>1, SortStays
    <2>4. phase = "sort" => Behind(end)'
      BY <1>1, <2>1, <2>3 DEF SortInv, Shrinking, Behind
    <2> QED BY <1>1, <1>3, <2>1, <2>2, <2>3, <2>4, SiftResult
  <1>8. CASE m # r
    <2>1. root' = m /\ array' = Exchanged(array, r, m)
      BY <1>6, <1>8 DEF SiftDown
    <2>2. HeapUnder(lo, last)'
      BY <1>2, <1>5, <1>6, <1>8, <2>1, SiftKeepsHeap
    <2>3. nmemb' = nmemb /\ SortTypes' /\ Permuted' /\ Searching'
      BY <1>1, <1>6, <2>1, SortStays
    <2>4. phase = "sort" => Behind(end)'
      <3> SUFFICES ASSUME phase = "sort" PROVE Behind(end)'
        OBVIOUS
      <3>1. end \in 1 .. nmemb /\ Behind(end) /\ last = end - 1
        BY <1>3 DEF SortInv, Shrinking
      <3>2. PICK e \in 0 .. nmemb : e = end /\ e' = end'
        BY <1>1, <1>2, <3>1
      <3>3. r \in 0 .. e - 1 /\ m \in 0 .. e - 1
        <4>1. e \in Nat /\ last = e - 1
          BY <1>2, <3>1, <3>2
        <4>2. m \in Nat /\ m <= last /\ r <= last
          BY <1>4
        <4> QED BY <1>4, <4>1, <4>2
      <3>5. Behind(e)
        BY <3>1, <3>2
      <3>4. Behind(e)'
        BY <1>2, <2>1, <2>3, <3>3, <3>5, ExchangeKeepsBehind
      <3> QED BY <1>1, <3>2, <3>4 DEF Behind
    <2> QED BY <1>1, <1>3, <1>4, <2>1, <2>2, <2>3, <2>4, SiftResult
  <1> QED BY <1>7, <1>8

(* The first loop of qsort goes one parent back,                           *)
LEMMA BuildNextKeeps == ASSUME SortInv, BuildNext PROVE SortInv'
  <1>1. /\ UNCHANGED <<input, array, end, key, low, high, found>>
        /\ phase = "build" /\ root = NoRoot
    BY DEF BuildNext
  <1>2. /\ nmemb \in Nat /\ start \in 0 .. nmemb - 1 /\ end = nmemb /\ end > 0
        /\ HeapUnder(start, nmemb - 1)
    BY <1>1 DEF SortInv, SortTypes, Building
  <1>3. \A c \in 1 .. nmemb - 1 : Parent(c) \in Nat /\ Parent(c) < c
    <2> TAKE c \in 1 .. nmemb - 1
    <2>1. c \in Nat \ {0}
      BY <1>2
    <2> QED BY <2>1, HeapTree
  <1>4. \A c \in 1 .. nmemb - 1 : Parent(c) >= start => Le(array[c], array[Parent(c)])
    BY <1>1, <1>2, <1>3 DEF HeapUnder, NoRoot
  <1>5. CASE start > 0
    <2>1. start' = start - 1 /\ root' = start - 1 /\ phase' = "build"
      BY <1>1, <1>5 DEF BuildNext
    <2>2. nmemb' = nmemb /\ SortTypes' /\ Permuted' /\ Searching'
      BY <1>1, <2>1, SortStays
    <2>3. PICK s \in 0 .. nmemb - 1 : s = start - 1 /\ s \in Nat
      BY <1>2, <1>5
    <2>4. s > 0 => Parent(s) < s /\ Parent(s) \in Nat
      BY <2>3, HeapTree
    <2>5. HeapUnder(start, nmemb - 1)'
      <3>1. \A c \in 1 .. nmemb - 1 : Parent(c) >= s /\ Parent(c) # s => Parent(c) >= start
        BY <1>2, <1>3, <2>3
      <3>2. ~(s > 0 /\ Parent(s) >= s)
        BY <2>3, <2>4
      <3>3. start' = s /\ root' = s /\ nmemb' = nmemb /\ array' = array
        BY <1>1, <2>1, <2>2, <2>3
      <3> QED BY <1>4, <3>1, <3>2, <3>3 DEF HeapUnder
    <2>6. Building'
      BY <1>1, <1>2, <2>1, <2>2, <2>3, <2>5 DEF Building
    <2>7. Shrinking'
      BY <2>1 DEF Shrinking
    <2> QED BY <2>2, <2>6, <2>7 DEF SortInv
  <1>6. CASE ~(start > 0)
    <2>1. phase' = "sort" /\ start' = start /\ root' = root
      BY <1>1, <1>6 DEF BuildNext
    <2>2. nmemb' = nmemb /\ SortTypes' /\ Permuted' /\ Searching'
      BY <1>1, <2>1, SortStays
    <2>3. start = 0
      BY <1>2, <1>6
    <2>4. HeapUnder(0, nmemb - 1)'
      BY <1>1, <1>2, <2>1, <2>2, <2>3 DEF HeapUnder
    <2>5. Behind(nmemb)'
      BY <1>2, <2>2 DEF Behind
    <2>6. end' = nmemb' /\ end' \in 1 .. nmemb'
      BY <1>1, <1>2, <2>2
    <2>7. HeapUnder(0, end - 1)' /\ Behind(end)'
      BY <2>2, <2>4, <2>5, <2>6 DEF HeapUnder, Behind
    <2>8. Shrinking'
      BY <1>1, <2>1, <2>6, <2>7 DEF Shrinking
    <2>9. Building'
      BY <2>1 DEF Building
    <2> QED BY <2>2, <2>8, <2>9 DEF SortInv
  <1> QED BY <1>5, <1>6

(* the second one takes the largest entry behind the heap,                 *)
LEMMA SortNextKeeps == ASSUME SortInv, SortNext PROVE SortInv'
  <1>1. /\ UNCHANGED <<input, start, key, low, high, found>>
        /\ phase = "sort" /\ root = NoRoot /\ end' = end - 1
    BY DEF SortNext
  <1>2. /\ nmemb \in Nat /\ SortTypes /\ end \in 1 .. nmemb
        /\ HeapUnder(0, end - 1) /\ Behind(end)
    BY <1>1 DEF SortInv, SortTypes, Shrinking
  <1>3. PICK e \in 0 .. nmemb - 1 : e = end - 1 /\ e + 1 = end /\ end' = e
    BY <1>1, <1>2
  <1>4. \A i \in 0 .. e : Le(array[i], array[0])
    <2> TAKE i \in 0 .. e
    <2>1. i \in 0 .. end - 1
      BY <1>3
    <2> QED BY <1>1, <1>2, <2>1, TopIsLargest
  <1>5. Behind(e + 1) /\ HeapUnder(0, e)
    BY <1>2, <1>3
  <1>6. CASE e > 0
    <2>1. array' = Exchanged(array, 0, e) /\ root' = 0 /\ phase' = "sort"
      BY <1>1, <1>3, <1>6 DEF SortNext
    <2>2. 0 \in 0 .. nmemb - 1
      BY <1>2, <1>3
    <2>3. nmemb' = nmemb /\ SortTypes' /\ Permuted' /\ Searching'
      BY <1>1, <1>3, <2>1, <2>2, SortStays
    <2>4. \A k \in 0 .. nmemb - 1 : array'[k] = IF k = 0 THEN array[e]
                                                ELSE IF k = e THEN array[0] ELSE array[k]
      BY <1>2, <1>3, <2>1, <2>2 DEF SortTypes, Exchanged
    <2>5. Behind(e + 1)'
      <3>1. PICK f \in 0 .. nmemb : f = e + 1 /\ 0 \in 0 .. f - 1 /\ e \in 0 .. f - 1
        BY <1>2, <1>3
      <3>2. Behind(f)'
        BY <1>2, <1>5, <2>1, <2>3, <3>1, ExchangeKeepsBehind
      <3> QED BY <3>1, <3>2 DEF Behind
    <2>6. \A i \in 0 .. nmemb - 1 : i < e => Le(array'[i], array'[e])
      <3> SUFFICES ASSUME NEW i \in 0 .. nmemb - 1, i < e PROVE Le(array'[i], array'[e])
        OBVIOUS
      <3>1. array'[e] = array[0]
        BY <1>6, <2>4
      <3>2. CASE i = 0
        BY <1>4, <1>6, <2>4, <3>1, <3>2
      <3>3. CASE i # 0
        BY <1>4, <2>4, <3>1, <3>3
      <3> QED BY <3>2, <3>3
    <2>7. Behind(e)'
      <3> SUFFICES ASSUME NEW i \in 0 .. nmemb - 1, NEW j \in 0 .. nmemb - 1, i < j, j >= e
                   PROVE  Le(array'[i], array'[j])
        BY <2>3 DEF Behind
      <3>1. CASE j = e
        BY <2>6, <3>1
      <3>2. CASE j # e
        BY <1>3, <2>3, <2>5, <3>2 DEF Behind
      <3> QED BY <3>1, <3>2
    <2>8. ASSUME NEW c \in 1 .. e - 1, Parent(c) # 0 PROVE Le(array'[c], array'[Parent(c)])
      <3>1. c \in Nat \ {0}
        BY <1>3
      <3>2. Parent(c) \in Nat /\ Parent(c) < c
        BY <3>1, HeapTree
      <3>3. Le(array[c], array[Parent(c)])
        BY <1>1, <1>3, <1>5, <2>8, <3>2 DEF HeapUnder, NoRoot
      <3>4. array'[c] = array[c] /\ array'[Parent(c)] = array[Parent(c)]
        BY <1>2, <1>3, <2>4, <2>8, <3>2
      <3> QED BY <3>3, <3>4
    <2>9. HeapUnder(0, e - 1)'
      BY <2>1, <2>8 DEF HeapUnder
    <2>10. end' \in 1 .. nmemb' /\ root' \in {NoRoot} \cup 0 .. end' - 1
      BY <1>2, <1>3, <1>6, <2>1, <2>3
    <2>11. HeapUnder(0, end - 1)' /\ Behind(end)'
      BY <1>3, <2>7, <2>9 DEF HeapUnder, Behind
    <2>12. Shrinking' /\ Building'
      BY <2>1, <2>10, <2>11 DEF Shrinking, Building
    <2> QED BY <2>3, <2>12 DEF SortInv
  <1>7. CASE ~(e > 0)
    <2>1. phase' = "search" /\ array' = array /\ root' = root
      BY <1>1, <1>3, <1>7 DEF SortNext
    <2>2. nmemb' = nmemb /\ SortTypes' /\ Permuted' /\ (Behind(0)' => Searching')
      BY <1>1, <2>1, SortStays
    <2>3. Behind(0)'
      <3>1. \A i, j \in 0 .. nmemb - 1 : i < j => j >= e + 1
        BY <1>2, <1>3, <1>7
      <3> QED BY <1>5, <2>1, <2>2, <3>1 DEF Behind
    <2>4. Shrinking' /\ Building'
      BY <2>1 DEF Shrinking, Building
    <2> QED BY <2>2, <2>3, <2>4 DEF SortInv
  <1> QED BY <1>6, <1>7

-----------------------------------------------------------------------------
(* A step of bsearch changes neither the array nor what is known of it.    *)
LEMMA SearchStays ==
  ASSUME SortInv, phase = "search", phase' \in {"search", "done"},
         UNCHANGED <<input, array, start, end, root, key>>,
         low' \in 0 .. nmemb, high' \in 0 .. nmemb, phase' # "done" => found' = NotFound, Searching'
  PROVE  SortInv'
  <1>1. nmemb' = nmemb
    BY DEF nmemb
  <1>2. SortTypes'
    BY <1>1 DEF SortInv, SortTypes
  <1>3. Permuted'
    BY DEF SortInv, Permuted, Count
  <1>4. Building' /\ Shrinking'
    BY DEF Building, Shrinking
  <1> QED BY <1>2, <1>3, <1>4 DEF SortInv

(* The half that bsearch drops cannot hold the key.                        *)
LEMMA bsearchKeeps == ASSUME SortInv, bsearch PROVE SortInv'
  <1>1. /\ UNCHANGED <<input, array, start, end, root, key>>
        /\ phase = "search" /\ low < high
    BY DEF bsearch
  <1>2. /\ nmemb \in Nat /\ array \in [0 .. nmemb - 1 -> Entry] /\ key \in Entry
        /\ low \in 0 .. nmemb /\ high \in 0 .. nmemb /\ found = NotFound /\ Behind(0)
        /\ \A i \in 0 .. nmemb - 1 : i < low \/ i >= high => array[i] # key
        /\ nmemb' = nmemb
    BY <1>1 DEF SortInv, SortTypes, Searching, nmemb
  <1>3. PICK m \in 0 .. nmemb - 1 : m = Middle /\ low <= m /\ m < high
    <2>1. low <= Middle /\ Middle < high /\ Middle \in Int
      BY <1>1, <1>2 DEF Middle
    <2> QED BY <1>2, <2>1
  <1>4. \A i, j \in 0 .. nmemb - 1 : i <= j => Le(array[i], array[j])
    BY <1>2, Ordered DEF Behind
  <1>5. array[m] \in Entry
    BY <1>2
  <1>6. CASE Compare(key, array[m]) = 0
    <2>1. found' = m /\ phase' = "done" /\ low' = low /\ high' = high
      BY <1>3, <1>6 DEF bsearch
    <2>2. array[m] = key
      BY <1>2, <1>5, <1>6, Ordered
    <2>3. found' # NotFound
      BY <1>2, <2>1 DEF NotFound
    <2>4. Searching'
      BY <1>1, <1>2, <2>1, <2>2, <2>3 DEF Searching, Behind
    <2> QED BY <1>1, <1>2, <2>1, <2>4, SearchStays
  <1>7. CASE Compare(key, array[m]) > 0
    <2>1. low' = m + 1 /\ high' = high /\ found' = found /\ phase' = phase
      BY <1>3, <1>7 DEF bsearch
    <2>2. ~Le(key, array[m])
      BY <1>2, <1>5, <1>7, Ordered
    <2>3. ASSUME NEW i \in 0 .. nmemb - 1, i <= m PROVE array[i] # key
      BY <1>4, <2>2, <2>3
    <2>4. \A i \in 0 .. nmemb - 1 : i < m + 1 \/ i >= high => array[i] # key
      BY <1>2, <2>3
    <2>5. Searching'
      BY <1>1, <1>2, <2>1, <2>4 DEF Searching, Behind
    <2>6. low' \in 0 .. nmemb
      BY <1>2, <2>1
    <2> QED BY <1>1, <1>2, <2>1, <2>5, <2>6, SearchStays
  <1>8. CASE Compare(key, array[m]) < 0
    <2>2. ~Le(array[m], key)
      BY <1>2, <1>5, <1>8, Ordered
    <2>1. high' = m /\ low' = low /\ found' = found /\ phase' = phase
      <3>1. PICK c \in Int : c = Compare(key, array[Middle]) /\ c < 0
        BY <1>2, <1>3, <1>5, <1>8, Ordered
      <3> QED BY <1>3, <3>1 DEF bsearch
    <2>3. ASSUME NEW i \in 0 .. nmemb - 1, i >= m PROVE array[i] # key
      BY <1>4, <2>2, <2>3
    <2>4. \A i \in 0 .. nmemb - 1 : i < low \/ i >= m => array[i] # key
      BY <1>2, <2>3
    <2>5. Searching'
      BY <1>1, <1>2, <2>1, <2>4 DEF Searching, Behind
    <2>6. high' \in 0 .. nmemb
      BY <1>2, <2>1
    <2> QED BY <1>1, <1>2, <2>1, <2>5, <2>6, SearchStays
  <1>9. Compare(key, array[m]) \in Int
    BY <1>2, <1>5, Ordered
  <1> HIDE DEF Compare
  <1> QED BY <1>6, <1>7, <1>8, <1>9

LEMMA bsearchFailsKeeps == ASSUME SortInv, bsearchFails PROVE SortInv'
  <1>1. /\ UNCHANGED <<input, array, start, end, root, key, low, high, found>>
        /\ phase = "search" /\ low >= high /\ phase' = "done"
    BY DEF bsearchFails
  <1>2. /\ nmemb \in Nat /\ low \in 0 .. nmemb /\ high \in 0 .. nmemb /\ found = NotFound /\ Behind(0)
        /\ \A i \in 0 .. nmemb - 1 : i < low \/ i >= high => array[i] # key
        /\ nmemb' = nmemb
    BY <1>1 DEF SortInv, SortTypes, Searching, nmemb
  <1>3. \A i \in 0 .. nmemb - 1 : array[i] # key
    BY <1>1, <1>2
  <1>4. Searching'
    BY <1>1, <1>2, <1>3 DEF Searching, Behind
  <1> QED BY <1>1, <1>2, <1>4, SearchStays

(* qsort returns the entries it was given, in order, and bsearch finds a    *)
(* key just when it is there: user_libc.c's pair, for arrays of any length. *)
THEOREM SortAlwaysOrdered == SortSpec => []SortIsOrdered
  <1>1. SortInv /\ [SortingNext]_sortVars => SortInv'
    <2> SUFFICES ASSUME SortInv, [SortingNext]_sortVars PROVE SortInv'
      OBVIOUS
    <2>1. CASE SiftDown BY <2>1, SiftDownKeeps
    <2>2. CASE BuildNext BY <2>2, BuildNextKeeps
    <2>3. CASE SortNext BY <2>3, SortNextKeeps
    <2>4. CASE bsearch BY <2>4, bsearchKeeps
    <2>5. CASE bsearchFails BY <2>5, bsearchFailsKeeps
    <2>6. CASE UNCHANGED sortVars
      BY <2>6 DEF sortVars, SortInv, SortTypes, Building, Shrinking, Searching, Permuted,
         HeapUnder, Behind, Count, nmemb
    <2> QED BY <2>1, <2>2, <2>3, <2>4, <2>5, <2>6 DEF SortingNext
  <1>2. SortInv => SortIsOrdered
    <2> SUFFICES ASSUME SortInv PROVE SortIsOrdered
      OBVIOUS
    <2>1. /\ nmemb \in Nat /\ DOMAIN array = 0 .. nmemb - 1 /\ key \in Entry
      BY DEF SortInv, SortTypes
    <2>2. phase \in {"search", "done"} =>
            \A i, j \in DOMAIN array : i < j => Compare(array[i], array[j]) <= 0
      BY <2>1 DEF SortInv, Searching, Behind, Le
    <2>3. phase = "done" => IF found = NotFound THEN Count(input, key) = 0
                            ELSE array[found] = key
      <3>1. (\A i \in 0 .. nmemb - 1 : array[i] # key) => Count(array, key) = 0
        <4> SUFFICES ASSUME \A i \in 0 .. nmemb - 1 : array[i] # key PROVE Count(array, key) = 0
          OBVIOUS
        <4>1. {i \in DOMAIN array : array[i] = key} = {}
          BY <2>1
        <4> QED BY <4>1, FS_EmptySet DEF Count
      <3>2. Count(array, key) = Count(input, key)
        BY <2>1 DEF SortInv, Permuted
      <3> QED BY <3>1, <3>2 DEF SortInv, Searching
    <2> QED BY <2>2, <2>3 DEF SortIsOrdered, SortInv, Permuted
  <1> QED BY <1>1, <1>2, SortBegins, PTL DEF SortSpec

-----------------------------------------------------------------------------
(***************************************************************************)
(* The buffered files of the user library behave as the file itself, for   *)
(* every size of the buffer, length of the file and number of bytes: until *)
(* a read or a write fails, each call is one of SparseFile.                *)
(***************************************************************************)

(* What was read ahead is what stands before the kernel's offset.          *)
IsAhead(file, origin, read) ==
  /\ Len(read) <= origin
  /\ \A j \in 1 .. Len(read) :
       origin - Len(read) + j <= Len(file) /\ read[j] = file[origin - Len(read) + j]

StdioTypeOK ==
  /\ kfile \in Seq(Octet) /\ koffset \in Nat /\ ahead \in Seq(Octet) /\ buffer_pos \in 0 .. Len(ahead)
  /\ pending \in Seq(Octet) /\ error \in BOOLEAN /\ open \in BOOLEAN
  /\ flow \in {"reading", "writing", "neither"} /\ at \in Int /\ got \in Seq(Octet)

(* PositionsAgree is not inductive: which buffer may hold something goes   *)
(* by what the program did last, and what is read ahead must be the file's.*)
StdioInv ==
  /\ StdioTypeOK
  /\ ~error =>
       /\ at = koffset - (Len(ahead) - buffer_pos) + Len(pending)
       /\ flow # "reading" => ahead = <<>>
       /\ flow # "writing" \/ ~open => pending = <<>>
       /\ IsAhead(kfile, koffset, ahead)

-----------------------------------------------------------------------------
(* Bytes laid over a file.                                                 *)
Reach(file, origin, bytes) ==
  IF bytes # <<>> /\ origin + Len(bytes) > Len(file) THEN origin + Len(bytes) ELSE Len(file)

LEMMA ZeroIsOctet == 0 \in Octet
  BY StdioAssumption DEF StdioAssumption

LEMMA ReachIsLength ==
  ASSUME NEW file \in Seq(Octet), NEW origin \in Nat, NEW bytes \in Seq(Octet)
  PROVE  /\ Reach(file, origin, bytes) \in Nat
         /\ Reach(file, origin, bytes) >= Len(file)
         /\ bytes # <<>> => Reach(file, origin, bytes) >= origin + Len(bytes)
  BY DEF Reach

LEMMA OverlaidIs ==
  ASSUME NEW file \in Seq(Octet), NEW origin \in Nat, NEW bytes \in Seq(Octet)
  PROVE  /\ Overlaid(file, origin, bytes) \in Seq(Octet)
         /\ Len(Overlaid(file, origin, bytes)) = Reach(file, origin, bytes)
         /\ \A i \in 1 .. Reach(file, origin, bytes) :
              Overlaid(file, origin, bytes)[i] =
                IF origin < i /\ i <= origin + Len(bytes) THEN bytes[i - origin]
                ELSE IF i <= Len(file) THEN file[i] ELSE 0
  <1> DEFINE n == Reach(file, origin, bytes)
             ByteAt(i) == IF origin < i /\ i <= origin + Len(bytes) THEN bytes[i - origin]
                        ELSE IF i <= Len(file) THEN file[i] ELSE 0
  <1>1. n \in Nat
    BY ReachIsLength
  <1>2. Overlaid(file, origin, bytes) = [i \in 1 .. n |-> ByteAt(i)]
    BY DEF Overlaid, Reach
  <1>3. ASSUME NEW i \in 1 .. n PROVE ByteAt(i) \in Octet
    <2>1. CASE origin < i /\ i <= origin + Len(bytes)
      <3>1. i - origin \in 1 .. Len(bytes)
        BY <1>1, <2>1
      <3> QED BY <2>1, <3>1
    <2>2. CASE ~(origin < i /\ i <= origin + Len(bytes)) /\ i <= Len(file)
      <3>1. i \in 1 .. Len(file)
        BY <1>1, <2>2
      <3> QED BY <2>2, <3>1
    <2>3. CASE ~(origin < i /\ i <= origin + Len(bytes)) /\ ~(i <= Len(file))
      BY <2>3, ZeroIsOctet
    <2> QED BY <2>1, <2>2, <2>3
  <1> HIDE DEF n
  <1>4. Overlaid(file, origin, bytes) \in [1 .. n -> Octet]
    BY <1>2, <1>3
  <1>5. Overlaid(file, origin, bytes) \in Seq(Octet) /\ Len(Overlaid(file, origin, bytes)) = n
    BY <1>1, <1>4
  <1>6. \A i \in 1 .. n : Overlaid(file, origin, bytes)[i] = ByteAt(i)
    BY <1>2
  <1> QED BY <1>5, <1>6 DEF n

LEMMA OverlaidNothing ==
  ASSUME NEW file \in Seq(Octet), NEW origin \in Nat
  PROVE  Overlaid(file, origin, <<>>) = file
  <1>1. Reach(file, origin, <<>>) = Len(file) /\ <<>> \in Seq(Octet) /\ Len(<<>>) = 0
    BY DEF Reach
  <1>3. /\ Overlaid(file, origin, <<>>) \in Seq(Octet) /\ Len(Overlaid(file, origin, <<>>)) = Len(file)
        /\ \A i \in 1 .. Len(file) :
             Overlaid(file, origin, <<>>)[i] =
               IF origin < i /\ i <= origin + Len(<<>>) THEN <<>>[i - origin]
               ELSE IF i <= Len(file) THEN file[i] ELSE 0
    <2> DEFINE none == <<>>
    <2>1. none \in Seq(Octet) /\ Reach(file, origin, none) = Len(file)
      BY <1>1
    <2> HIDE DEF none
    <2>2. /\ Overlaid(file, origin, none) \in Seq(Octet) /\ Len(Overlaid(file, origin, none)) = Len(file)
          /\ \A i \in 1 .. Len(file) :
               Overlaid(file, origin, none)[i] =
                 IF origin < i /\ i <= origin + Len(none) THEN none[i - origin]
                 ELSE IF i <= Len(file) THEN file[i] ELSE 0
      BY <2>1, OverlaidIs
    <2> QED BY <2>2 DEF none
  <1>2. ASSUME NEW i \in 1 .. Len(file) PROVE Overlaid(file, origin, <<>>)[i] = file[i]
    <2>1. ~(origin < i /\ i <= origin + Len(<<>>)) /\ i <= Len(file)
      BY <1>1
    <2> QED BY <1>3, <2>1
  <1> QED BY <1>2, <1>3

(* One more byte may be laid over what the others gave.                    *)
LEMMA OverlaidAppend ==
  ASSUME NEW file \in Seq(Octet), NEW origin \in Nat, NEW bytes \in Seq(Octet), NEW b \in Octet
  PROVE  Overlaid(file, origin, Append(bytes, b))
           = Overlaid(Overlaid(file, origin, bytes), origin + Len(bytes), <<b>>)
  <1> DEFINE more == Append(bytes, b)
             one == <<b>>
             before == Overlaid(file, origin, bytes)
             upto == origin + Len(bytes)
             left == Overlaid(file, origin, more)
             right == Overlaid(before, upto, one)
  <1>1. /\ more \in Seq(Octet) /\ Len(more) = Len(bytes) + 1 /\ more # <<>>
        /\ more[Len(bytes) + 1] = b /\ \A j \in 1 .. Len(bytes) : more[j] = bytes[j]
    OBVIOUS
  <1>2. one \in Seq(Octet) /\ Len(one) = 1 /\ one # <<>> /\ one[1] = b /\ upto \in Nat
    OBVIOUS
  <1>3. /\ before \in Seq(Octet) /\ Len(before) = Reach(file, origin, bytes)
        /\ \A i \in 1 .. Len(before) :
             before[i] = IF origin < i /\ i <= upto THEN bytes[i - origin]
                         ELSE IF i <= Len(file) THEN file[i] ELSE 0
    BY OverlaidIs
  <1> HIDE DEF more, one, before, upto
  <1>4. /\ left \in Seq(Octet) /\ Len(left) = Reach(file, origin, more)
        /\ \A i \in 1 .. Len(left) :
             left[i] = IF origin < i /\ i <= origin + Len(more) THEN more[i - origin]
                       ELSE IF i <= Len(file) THEN file[i] ELSE 0
    <2>1. more \in Seq(Octet)
      BY <1>1
    <2> QED BY <2>1, OverlaidIs DEF left
  <1>5. /\ right \in Seq(Octet) /\ Len(right) = Reach(before, upto, one)
        /\ \A i \in 1 .. Len(right) :
             right[i] = IF upto < i /\ i <= upto + Len(one) THEN one[i - upto]
                        ELSE IF i <= Len(before) THEN before[i] ELSE 0
    <2>1. before \in Seq(Octet) /\ one \in Seq(Octet) /\ upto \in Nat
      BY <1>2, <1>3
    <2> QED BY <2>1, OverlaidIs DEF right
  <1> HIDE DEF left, right
  <1>6. PICK n \in Nat : n = Len(bytes) /\ upto = origin + n /\ Len(more) = n + 1
    BY <1>1 DEF upto
  <1>7. Len(before) >= Len(file) /\ (bytes # <<>> => Len(before) >= upto) /\ Len(before) \in Nat
        /\ (Len(before) = Len(file) \/ (bytes # <<>> /\ Len(before) = upto))
    BY <1>3, <1>6 DEF Reach
  <1>8. Len(left) = IF upto + 1 > Len(file) THEN upto + 1 ELSE Len(file)
    BY <1>1, <1>4, <1>6 DEF Reach
  <1>9. Len(right) = IF upto + 1 > Len(before) THEN upto + 1 ELSE Len(before)
    BY <1>2, <1>5 DEF Reach
  <1>10. Len(left) = Len(right)
    BY <1>6, <1>7, <1>8, <1>9
  <1>11. ASSUME NEW i \in 1 .. Len(left) PROVE left[i] = right[i]
    <2>1. i \in 1 .. Len(right) /\ i \in Nat
      BY <1>4, <1>10
    <2>2. CASE i = upto + 1
      <3>1. i - origin = n + 1 /\ i - upto = 1
        BY <1>6, <2>2
      <3>2. left[i] = more[i - origin]
        BY <1>4, <1>6, <2>1, <2>2
      <3>3. right[i] = one[i - upto]
        BY <1>2, <1>5, <1>6, <2>1, <2>2
      <3> QED BY <1>1, <1>2, <1>6, <3>1, <3>2, <3>3
    <2>3. CASE origin < i /\ i <= upto
      <3>1. i - origin \in 1 .. n
        BY <1>6, <2>1, <2>3
      <3>2. left[i] = more[i - origin]
        BY <1>4, <1>6, <2>1, <2>3
      <3>3. bytes # <<>>
        BY <1>6, <3>1
      <3>4. right[i] = before[i] /\ i \in 1 .. Len(before)
        BY <1>2, <1>5, <1>6, <1>7, <2>1, <2>3, <3>3
      <3>5. before[i] = bytes[i - origin]
        BY <1>3, <2>3, <3>4
      <3>6. more[i - origin] = bytes[i - origin]
        BY <1>1, <1>6, <3>1
      <3> QED BY <3>2, <3>4, <3>5, <3>6
    <2>4. CASE ~(origin < i) \/ ~(i <= upto + 1)
      <3>1. left[i] = IF i <= Len(file) THEN file[i] ELSE 0
        BY <1>4, <1>6, <2>1, <2>4
      <3>2. right[i] = IF i <= Len(before) THEN before[i] ELSE 0
        BY <1>2, <1>5, <1>6, <2>1, <2>4
      <3>3. i <= Len(before) => before[i] = IF i <= Len(file) THEN file[i] ELSE 0
        BY <1>3, <1>6, <2>1, <2>4
      <3>4. i <= Len(file) => i <= Len(before)
        BY <1>7, <2>1
      <3> QED BY <3>1, <3>2, <3>3, <3>4
    <2> QED BY <1>6, <2>1, <2>2, <2>3, <2>4
  <1>12. left = right
    BY <1>4, <1>5, <1>10, <1>11
  <1> QED BY <1>12 DEF left, right, more, one, before, upto

-----------------------------------------------------------------------------
(* One call on a stream.                                                   *)
StreamField == {"file", "offset", "ahead", "pos", "pending", "error", "stop", "bytes"}
IsStream(u) ==
  /\ u = [f \in StreamField |-> u[f]]
  /\ u.file \in Seq(Octet) /\ u.offset \in Nat /\ u.ahead \in Seq(Octet) /\ u.pos \in 0 .. Len(u.ahead)
  /\ u.pending \in Seq(Octet) /\ u.error \in BOOLEAN /\ u.stop \in BOOLEAN /\ u.bytes \in Seq(Octet)

LEMMA StreamIsOne ==
  ASSUME StdioTypeOK
  PROVE  /\ IsStream(Stream)
         /\ Stream.file = kfile /\ Stream.offset = koffset /\ Stream.ahead = ahead
         /\ Stream.pos = buffer_pos /\ Stream.pending = pending /\ Stream.error = error
         /\ Stream.stop = FALSE /\ Stream.bytes = <<>>
  <1>1. /\ Stream.file = kfile /\ Stream.offset = koffset /\ Stream.ahead = ahead
        /\ Stream.pos = buffer_pos /\ Stream.pending = pending /\ Stream.error = error
        /\ Stream.stop = FALSE /\ Stream.bytes = <<>>
    BY DEF Stream
  <1>2. Stream = [f \in StreamField |-> Stream[f]]
    BY DEF Stream, StreamField
  <1>3. /\ kfile \in Seq(Octet) /\ koffset \in Nat /\ ahead \in Seq(Octet)
        /\ buffer_pos \in 0 .. Len(ahead) /\ pending \in Seq(Octet) /\ error \in BOOLEAN
        /\ FALSE \in BOOLEAN /\ <<>> \in Seq(Octet)
    BY DEF StdioTypeOK
  <1>4. IsStream(Stream)
    BY <1>1, <1>2, <1>3 DEF IsStream
  <1> QED BY <1>1, <1>4

(* A flush moves what is pending into the file, or fails.                  *)
FlushedFrom(u, v) ==
  /\ v.pending = <<>> /\ v.offset = u.offset + Len(u.pending)
  /\ v.file = Overlaid(u.file, u.offset, u.pending)
  /\ v.error = u.error /\ v.stop = u.stop

LEMMA FlushIs ==
  ASSUME NEW u, IsStream(u), NEW works \in BOOLEAN
  PROVE  LET v == fflush_write(u, works) IN
         /\ IsStream(v) /\ v.ahead = u.ahead /\ v.pos = u.pos /\ v.bytes = u.bytes
         /\ FlushedFrom(u, v) \/ (v.error = TRUE /\ v.stop = TRUE)
  <1> DEFINE w == Written(u)
             x == [u EXCEPT !.error = TRUE, !.stop = TRUE]
             f == Overlaid(u.file, u.offset, u.pending)
  <1>0. f \in Seq(Octet) /\ Len(u.pending) \in Nat
    <2>1. PICK file \in Seq(Octet), origin \in Nat, bytes \in Seq(Octet) :
            u.file = file /\ u.offset = origin /\ u.pending = bytes
      BY DEF IsStream
    <2>2. Overlaid(file, origin, bytes) \in Seq(Octet)
      BY OverlaidIs
    <2> QED BY <2>1, <2>2
  <1>1. CASE u.pending = <<>>
    <2>1. fflush_write(u, works) = u
      BY <1>1 DEF fflush_write
    <2>2. Overlaid(u.file, u.offset, u.pending) = u.file
      BY <1>1, OverlaidNothing DEF IsStream
    <2>3. u.offset = u.offset + Len(u.pending)
      BY <1>1 DEF IsStream
    <2> QED BY <1>1, <2>1, <2>2, <2>3 DEF FlushedFrom
  <1>2. CASE u.pending # <<>> /\ works
    <2>1. fflush_write(u, works) = w
      BY <1>2 DEF fflush_write
    <2> HIDE DEF f
    <2>2. /\ w.file = f /\ w.offset = u.offset + Len(u.pending) /\ w.pending = <<>>
          /\ w.ahead = u.ahead /\ w.pos = u.pos /\ w.bytes = u.bytes /\ w.error = u.error /\ w.stop = u.stop
      BY DEF Written, IsStream, StreamField, f
    <2>3. w = [g \in StreamField |-> w[g]]
      BY DEF Written, IsStream, StreamField
    <2> HIDE DEF w
    <2>4. IsStream(w)
      BY <1>0, <2>2, <2>3 DEF IsStream
    <2> QED BY <2>1, <2>2, <2>4 DEF FlushedFrom, f
  <1>3. CASE u.pending # <<>> /\ ~works
    <2>1. fflush_write(u, works) = x
      BY <1>3 DEF fflush_write
    <2>2. /\ x.file = u.file /\ x.offset = u.offset /\ x.pending = u.pending /\ x.error = TRUE
          /\ x.ahead = u.ahead /\ x.pos = u.pos /\ x.bytes = u.bytes /\ x.stop = TRUE
      BY DEF IsStream, StreamField
    <2>3. x = [g \in StreamField |-> x[g]]
      BY DEF IsStream, StreamField
    <2> HIDE DEF x
    <2>4. IsStream(x)
      BY <2>2, <2>3 DEF IsStream
    <2> QED BY <2>1, <2>2, <2>4
  <1> QED BY <1>1, <1>2, <1>3

(* The bytes that calls of fputc have written since the call began.        *)
Wrote(u, k, b) ==
  /\ IsStream(u) /\ u.ahead = <<>> /\ u.pos = 0 /\ (u.stop => u.error)
  /\ ~u.error =>
       /\ Len(u.bytes) = k /\ at + k = u.offset + Len(u.pending)
       /\ \A i \in 1 .. k : u.bytes[i] = b
       /\ Overlaid(u.file, u.offset, u.pending) = Overlaid(Seen, at, u.bytes)

LEMMA PutWrites ==
  ASSUME StdioTypeOK, at \in Nat, NEW u, NEW k \in Nat, NEW b \in Octet, NEW works \in BOOLEAN,
         Wrote(u, k, b), ~u.stop
  PROVE  Wrote(fputc(u, b, works), k + 1, b)
  <1> DEFINE v == IF Len(u.pending) >= BufferSize THEN fflush_write(u, works) ELSE u
             w == [v EXCEPT !.pending = Append(@, b), !.bytes = Append(@, b)]
  <1>1. fputc(u, b, works) = IF v.stop THEN v ELSE w
    BY DEF fputc
  <1>2. /\ IsStream(v) /\ v.ahead = <<>> /\ v.pos = 0 /\ v.bytes = u.bytes
        /\ FlushedFrom(u, v) \/ (v.error = TRUE /\ v.stop = TRUE) \/ v = u
    BY FlushIs DEF Wrote
  <1> HIDE DEF v
  <1>3. CASE v.error = TRUE /\ v.stop = TRUE
    BY <1>1, <1>2, <1>3 DEF Wrote
  <1>4. CASE FlushedFrom(u, v) \/ v = u
    <2>0. u.stop = FALSE /\ u.offset \in Nat /\ Len(u.pending) \in Nat /\ Len(<<>>) = 0
      BY DEF Wrote, IsStream
    <2>1. v.stop = FALSE /\ v.error = u.error /\ v.offset + Len(v.pending) = u.offset + Len(u.pending)
      <3>1. CASE v = u
        BY <2>0, <3>1
      <3>2. CASE FlushedFrom(u, v)
        <4>1. /\ v.stop = u.stop /\ v.error = u.error /\ v.offset = u.offset + Len(u.pending)
              /\ Len(v.pending) = 0
          BY <3>2 DEF FlushedFrom
        <4> QED BY <2>0, <4>1
      <3> QED BY <1>4, <3>1, <3>2
    <2>2. Overlaid(v.file, v.offset, v.pending) = Overlaid(u.file, u.offset, u.pending)
      <3>1. CASE v = u
        BY <3>1
      <3>2. CASE FlushedFrom(u, v)
        BY <1>2, <3>2, OverlaidNothing DEF FlushedFrom, IsStream
      <3> QED BY <1>4, <3>1, <3>2
    <2>3. /\ w.file = v.file /\ w.offset = v.offset /\ w.ahead = v.ahead /\ w.pos = v.pos
          /\ w.pending = Append(v.pending, b) /\ w.bytes = Append(v.bytes, b)
          /\ w.error = v.error /\ w.stop = v.stop
      BY <1>2 DEF IsStream, StreamField
    <2>4. w = [g \in StreamField |-> w[g]]
      BY <1>2 DEF IsStream, StreamField
    <2>5. fputc(u, b, works) = w
      BY <1>1, <2>1
    <2> HIDE DEF w
    <2>6. IsStream(w)
      BY <1>2, <2>3, <2>4 DEF IsStream
    <2>7. ASSUME ~w.error
          PROVE  /\ Len(w.bytes) = k + 1 /\ at + (k + 1) = w.offset + Len(w.pending)
                 /\ \A i \in 1 .. k + 1 : w.bytes[i] = b
                 /\ Overlaid(w.file, w.offset, w.pending) = Overlaid(Seen, at, w.bytes)
      <3>1. /\ Len(u.bytes) = k /\ at + k = u.offset + Len(u.pending)
            /\ \A i \in 1 .. k : u.bytes[i] = b
            /\ Overlaid(u.file, u.offset, u.pending) = Overlaid(Seen, at, u.bytes)
            /\ u.bytes \in Seq(Octet)
        BY <2>1, <2>3, <2>7 DEF Wrote, IsStream
      <3>2. /\ v.file \in Seq(Octet) /\ v.offset \in Nat /\ v.pending \in Seq(Octet)
            /\ Len(v.pending) \in Nat
        BY <1>2 DEF IsStream
      <3>3. w.bytes = Append(u.bytes, b) /\ w.pending = Append(v.pending, b)
        BY <1>2, <2>3
      <3>4. Len(w.bytes) = k + 1 /\ \A i \in 1 .. k + 1 : w.bytes[i] = b
        BY <3>1, <3>3
      <3>5. at + (k + 1) = w.offset + Len(w.pending)
        <4>1. Len(w.pending) = Len(v.pending) + 1
          BY <3>2, <3>3
        <4>2. at + k = v.offset + Len(v.pending)
          BY <2>1, <3>1
        <4>3. at + (k + 1) = v.offset + (Len(v.pending) + 1)
          <5>1. PICK s \in Nat, o \in Nat, m \in Nat : s = at /\ o = v.offset /\ m = Len(v.pending)
            BY <3>2
          <5>2. s + k = o + m
            BY <4>2, <5>1
          <5>3. s + (k + 1) = o + (m + 1)
            BY <5>2
          <5> QED BY <5>1, <5>3
        <4> QED BY <2>3, <4>1, <4>3
      <3>6. Seen \in Seq(Octet)
        BY OverlaidIs DEF Seen, StdioTypeOK
      <3>7. Overlaid(w.file, w.offset, w.pending)
              = Overlaid(Overlaid(v.file, v.offset, v.pending), v.offset + Len(v.pending), <<b>>)
        <4>1. Overlaid(v.file, v.offset, Append(v.pending, b))
                = Overlaid(Overlaid(v.file, v.offset, v.pending), v.offset + Len(v.pending), <<b>>)
          BY <3>2, OverlaidAppend
        <4> QED BY <2>3, <4>1
      <3>8. Overlaid(Seen, at, w.bytes) = Overlaid(Overlaid(Seen, at, u.bytes), at + Len(u.bytes), <<b>>)
        <4>1. Overlaid(Seen, at, Append(u.bytes, b))
                = Overlaid(Overlaid(Seen, at, u.bytes), at + Len(u.bytes), <<b>>)
          BY <3>1, <3>6, OverlaidAppend
        <4> QED BY <3>3, <4>1
      <3>9. v.offset + Len(v.pending) = at + Len(u.bytes)
        BY <2>1, <3>1
      <3> QED BY <2>2, <3>1, <3>4, <3>5, <3>7, <3>8, <3>9
    <2>8. w.ahead = <<>> /\ w.pos = 0 /\ w.stop = FALSE
      BY <1>2, <2>1, <2>3
    <2> QED BY <2>5, <2>6, <2>7, <2>8 DEF Wrote
  <1> QED BY <1>2, <1>3, <1>4

-----------------------------------------------------------------------------
(* Call after call.                                                        *)
PutCall == [byte : Octet, works : BOOLEAN]
Put(u, c) == IF u.stop THEN u ELSE fputc(u, c.byte, c.works)
Get(u, c) == IF u.stop THEN u ELSE fgetc(u, c)
EachPut == INSTANCE FoldProofs WITH Op <- Put, Good <- IsStream
EachGet == INSTANCE FoldProofs WITH Op <- Get, Good <- IsStream

(* All calls of an fwrite.                                                 *)
LEMMA PutsWrite ==
  ASSUME StdioTypeOK, at \in Nat, NEW n \in Nat, NEW b \in Octet, NEW works \in BOOLEAN,
         Wrote(Stream, 0, b)
  PROVE  Wrote(EachPut!Folded(Stream, [k \in 1 .. n |-> [byte |-> b, works |-> works]]), n, b)
  <1> DEFINE c == [byte |-> b, works |-> works]
             calls == [k \in 1 .. n |-> c]
  <1>1. c \in PutCall /\ c.byte = b /\ c.works = works
    BY DEF PutCall
  <1>2. calls \in Seq(PutCall) /\ Len(calls) = n /\ \A k \in 1 .. n : calls[k] = c
    <2> HIDE DEF c
    <2>1. calls \in [1 .. n -> PutCall]
      BY <1>1
    <2> QED BY <2>1
  <1> HIDE DEF calls, c
  <1>3. PICK h : EachPut!Passes(h, Stream, calls) /\ EachPut!Folded(Stream, calls) = h[Len(calls)]
    BY <1>2, EachPut!FoldedPasses
  <1>4. h[0] = Stream /\ \A j \in Nat : j < n => h[j + 1] = Put(h[j], c)
    <2>1. \A j \in Nat : j < n => calls[j + 1] = c
      BY <1>2
    <2> QED BY <1>2, <1>3, <2>1 DEF EachPut!Passes
  <1> DEFINE bad == {k \in Nat : k <= n /\ ~Wrote(h[k], k, b)}
  <1>5. CASE bad = {}
    BY <1>2, <1>3, <1>5 DEF calls, c
  <1>6. CASE bad # {}
    <2>1. PICK m \in bad : \A k \in bad : ~(k < m)
      BY <1>6, EachPut!LeastExists
    <2>2. m \in Nat /\ m <= n /\ ~Wrote(h[m], m, b) /\ \A k \in bad : ~(k < m)
      BY <2>1
    <2>3. m # 0
      BY <1>4, <2>2
    <2>4. PICK k \in Nat : m = k + 1
      BY <2>2, <2>3
    <2>5. k < n /\ k < m
      BY <2>2, <2>4
    <2>6. Wrote(h[k], k, b)
      BY <2>2, <2>5
    <2> HIDE DEF bad
    <2>7. h[k + 1] = Put(h[k], c)
      BY <1>4, <2>5
    <2>8. Wrote(Put(h[k], c), k + 1, b)
      <3>1. CASE h[k].stop
        <4>1. h[k].error = TRUE
          BY <2>6, <3>1 DEF Wrote, IsStream
        <4> QED BY <2>6, <3>1, <4>1 DEF Put, Wrote
      <3>2. CASE ~h[k].stop
        <4>1. Wrote(fputc(h[k], b, works), k + 1, b)
          BY <2>6, <3>2, PutWrites
        <4> QED BY <1>1, <3>2, <4>1 DEF Put
      <3> QED BY <3>1, <3>2
    <2> QED BY <2>2, <2>4, <2>7, <2>8
  <1> QED BY <1>5, <1>6

(* What fread has got since the call began, and where it stands.           *)
GotSoFar(u, k) ==
  /\ IsStream(u) /\ u.file = kfile /\ u.pending = <<>>
  /\ at + Len(u.bytes) = u.offset - (Len(u.ahead) - u.pos)
  /\ IsAhead(kfile, u.offset, u.ahead)
  /\ \A i \in 1 .. Len(u.bytes) : at + i <= Len(kfile) /\ u.bytes[i] = kfile[at + i]
  /\ ~u.stop => Len(u.bytes) = k
  /\ u.stop => /\ Len(u.bytes) <= k /\ u.ahead = <<>>
               /\ ~u.error => at + Len(u.bytes) >= Len(kfile)

LEMMA FillIs ==
  ASSUME NEW u, IsStream(u), NEW works \in BOOLEAN
  PROVE  LET v == fill_read_buffer(u, works) IN
         /\ IsStream(v) /\ v.file = u.file /\ v.pending = u.pending
         /\ v.bytes = u.bytes /\ v.pos = 0 /\ v.offset = u.offset + Len(v.ahead)
         /\ v.stop = (v.ahead = <<>>) /\ IsAhead(v.file, v.offset, v.ahead)
         /\ v.ahead = <<>> /\ ~v.error => u.offset >= Len(u.file)
  <1> DEFINE read == IF works THEN Portion(u.file, u.offset, BufferSize) ELSE <<>>
             v == [u EXCEPT !.ahead = read, !.pos = 0, !.offset = @ + Len(read), !.stop = read = <<>>,
                            !.error = @ \/ ~works]
  <1>0. fill_read_buffer(u, works) = v
    BY DEF fill_read_buffer
  <1>1. PICK file \in Seq(Octet), origin \in Nat : file = u.file /\ origin = u.offset
    BY DEF IsStream
  <1>2. BufferSize \in Nat /\ BufferSize > 0
    BY StdioAssumption DEF StdioAssumption
  <1>3. PICK upto \in Nat : upto = IF origin + BufferSize < Len(file) THEN origin + BufferSize ELSE Len(file)
    BY <1>2
  <1>4. upto <= Len(file) /\ (upto <= origin => origin >= Len(file))
    BY <1>2, <1>3
  <1>5. read = IF works THEN SubSeq(file, origin + 1, upto) ELSE <<>>
    BY <1>1, <1>3 DEF Portion
  <1>6. /\ read \in Seq(Octet) /\ Len(read) \in Nat
        /\ \A j \in 1 .. Len(read) : read[j] = file[origin + j] /\ origin + j <= upto
        /\ works /\ read = <<>> => upto <= origin
    <2>1. CASE works
      <3>0. read = SubSeq(file, origin + 1, upto)
        BY <1>5, <2>1
      <3> HIDE DEF read
      <3>1. /\ read \in Seq(Octet) /\ Len(read) = IF upto <= origin THEN 0 ELSE upto - origin
            /\ \A j \in 1 .. Len(read) : read[j] = file[origin + j]
        BY <1>4, <3>0
      <3>2. read = <<>> => Len(read) = 0
        OBVIOUS
      <3> QED BY <3>1, <3>2
    <2>2. CASE ~works
      <3>1. read = <<>>
        BY <1>5, <2>2
      <3> HIDE DEF read
      <3> QED BY <2>2, <3>1
    <2> QED BY <2>1, <2>2
  <1> HIDE DEF read
  <1>7. /\ v.file = u.file /\ v.offset = u.offset + Len(read) /\ v.ahead = read /\ v.pos = 0
        /\ v.pending = u.pending /\ v.error = (u.error \/ ~works) /\ v.bytes = u.bytes
        /\ v.stop = (read = <<>>)
    BY DEF IsStream, StreamField
  <1>8. v = [g \in StreamField |-> v[g]]
    BY DEF IsStream, StreamField
  <1> HIDE DEF v
  <1>9. IsStream(v)
    <2>1. Len(read) \in Nat /\ 0 \in 0 .. Len(read) /\ u.offset + Len(read) \in Nat
      BY <1>1, <1>6
    <2>2. (u.error \/ ~works) \in BOOLEAN /\ (read = <<>>) \in BOOLEAN
      OBVIOUS
    <2> QED BY <1>6, <1>7, <1>8, <2>1, <2>2 DEF IsStream
  <1>10. IsAhead(v.file, v.offset, v.ahead)
    <2>1. Len(read) <= origin + Len(read)
      BY <1>6
    <2>2. ASSUME NEW j \in 1 .. Len(read)
          PROVE  /\ (origin + Len(read)) - Len(read) + j <= Len(file)
                 /\ read[j] = file[(origin + Len(read)) - Len(read) + j]
      <3>1. (origin + Len(read)) - Len(read) + j = origin + j /\ origin + j <= Len(file)
        BY <1>4, <1>6
      <3> QED BY <1>6, <3>1
    <2> QED BY <1>1, <1>7, <2>1, <2>2 DEF IsAhead
  <1>11. v.ahead = <<>> /\ ~v.error => u.offset >= Len(u.file)
    BY <1>1, <1>4, <1>6, <1>7
  <1> QED BY <1>0, <1>7, <1>9, <1>10, <1>11

LEMMA GetReads ==
  ASSUME StdioTypeOK, at \in Nat, NEW u, NEW k \in Nat, GotSoFar(u, k), ~u.stop,
         NEW works \in BOOLEAN
  PROVE  GotSoFar(fgetc(u, works), k + 1)
  <1> DEFINE v == IF u.pos >= Len(u.ahead) THEN fill_read_buffer(u, works) ELSE u
             w == [v EXCEPT !.bytes = Append(@, v.ahead[v.pos + 1]), !.pos = @ + 1]
  <1>1. fgetc(u, works) = IF v.stop THEN v ELSE w
    BY DEF fgetc
  <1>2. /\ IsStream(u) /\ u.file = kfile /\ u.pending = <<>> /\ u.stop = FALSE
        /\ at + Len(u.bytes) = u.offset - (Len(u.ahead) - u.pos)
        /\ IsAhead(kfile, u.offset, u.ahead) /\ Len(u.bytes) = k
        /\ \A i \in 1 .. k : at + i <= Len(kfile) /\ u.bytes[i] = kfile[at + i]
    BY DEF GotSoFar, IsStream
  <1>3. /\ IsStream(v) /\ v.file = kfile /\ v.pending = <<>> /\ v.bytes = u.bytes
        /\ at + k = v.offset - (Len(v.ahead) - v.pos) /\ IsAhead(kfile, v.offset, v.ahead)
        /\ ~v.stop => v.pos < Len(v.ahead)
        /\ v.stop => v.ahead = <<>> /\ (~v.error => at + k >= Len(kfile))
    <2>1. CASE u.pos >= Len(u.ahead)
      <3>1. v = fill_read_buffer(u, works)
        BY <2>1
      <3> HIDE DEF v
      <3>2. /\ IsStream(v) /\ v.file = u.file /\ v.pending = u.pending
            /\ v.bytes = u.bytes /\ v.pos = 0 /\ v.offset = u.offset + Len(v.ahead)
            /\ v.stop = (v.ahead = <<>>) /\ IsAhead(v.file, v.offset, v.ahead)
            /\ v.ahead = <<>> /\ ~v.error => u.offset >= Len(u.file)
        BY <1>2, <3>1, FillIs
      <3>0. /\ u.offset \in Nat /\ Len(u.ahead) \in Nat /\ u.pos \in Nat /\ u.pos <= Len(u.ahead)
            /\ Len(v.ahead) \in Nat
        <4>1. u.offset \in Nat /\ u.ahead \in Seq(Octet) /\ u.pos \in 0 .. Len(u.ahead)
          BY <1>2 DEF IsStream
        <4>2. v.ahead \in Seq(Octet)
          BY <3>2 DEF IsStream
        <4> QED BY <4>1, <4>2
      <3>3. PICK o \in Nat, a \in Nat, p \in Nat, x \in Nat :
              o = u.offset /\ a = Len(u.ahead) /\ p = u.pos /\ x = Len(v.ahead) /\ p <= a
        BY <3>0
      <3>4. at + k = o /\ v.offset = o + x
        BY <1>2, <2>1, <3>2, <3>3
      <3>5. at + k = v.offset - (Len(v.ahead) - v.pos)
        BY <3>2, <3>3, <3>4
      <3>6. v.ahead # <<>> => v.pos < Len(v.ahead)
        BY <3>2, <3>3 DEF IsStream
      <3> QED BY <1>2, <3>2, <3>3, <3>4, <3>5, <3>6
    <2>2. CASE ~(u.pos >= Len(u.ahead))
      <3>1. v = u
        BY <2>2
      <3> HIDE DEF v
      <3>2. v.pos < Len(v.ahead)
        BY <1>2, <2>2, <3>1 DEF IsStream
      <3> QED BY <1>2, <3>1, <3>2
    <2> QED BY <2>1, <2>2
  <1> HIDE DEF v
  <1>4. CASE v.stop
    <2>1. fgetc(u, works) = v
      BY <1>1, <1>4
    <2>2. Len(v.bytes) = k /\ k <= k + 1
      BY <1>2, <1>3
    <2>3. \A i \in 1 .. Len(v.bytes) : at + i <= Len(kfile) /\ v.bytes[i] = kfile[at + i]
      BY <1>2, <1>3, <2>2
    <2> QED BY <1>3, <1>4, <2>1, <2>2, <2>3 DEF GotSoFar
  <1>5. CASE ~v.stop
    <2>1. fgetc(u, works) = w
      BY <1>1, <1>5
    <2> DEFINE byte == v.ahead[v.pos + 1]
    <2>2. /\ w.file = v.file /\ w.offset = v.offset /\ w.ahead = v.ahead /\ w.pos = v.pos + 1
          /\ w.pending = v.pending /\ w.bytes = Append(v.bytes, byte)
          /\ w.error = v.error /\ w.stop = v.stop
      BY <1>3 DEF IsStream, StreamField
    <2>3. w = [g \in StreamField |-> w[g]]
      BY <1>3 DEF IsStream, StreamField
    <2> HIDE DEF w
    <2>4. PICK o \in Nat, a \in Nat, p \in Nat :
            o = v.offset /\ a = Len(v.ahead) /\ p = v.pos /\ p < a /\ a <= o
      <3>1. v.offset \in Nat /\ v.ahead \in Seq(Octet) /\ v.pos \in 0 .. Len(v.ahead)
        BY <1>3 DEF IsStream
      <3>2. v.offset \in Nat /\ Len(v.ahead) \in Nat /\ v.pos \in Nat
        BY <3>1
      <3>3. v.pos < Len(v.ahead) /\ Len(v.ahead) <= v.offset
        BY <1>3, <1>5 DEF IsAhead
      <3> QED BY <3>2, <3>3
    <2>5. at + k = o - (a - p)
      BY <1>3, <2>4
    <2>p. at + (k + 1) = o - (a - (p + 1)) /\ o - a + (p + 1) = at + (k + 1)
      <3>1. PICK s \in Nat : s = at
        OBVIOUS
      <3>2. s + k = o - (a - p)
        BY <2>5, <3>1
      <3>3. s + (k + 1) = o - (a - (p + 1)) /\ o - a + (p + 1) = s + (k + 1)
        BY <3>2
      <3> QED BY <3>1, <3>3
    <2>6. byte \in Octet /\ at + (k + 1) <= Len(kfile) /\ byte = kfile[at + (k + 1)]
      <3>1. p + 1 \in 1 .. a /\ o - a + (p + 1) = at + (k + 1)
        <4>1. p + 1 \in 1 .. a
          BY <2>4
        <4> QED BY <2>p, <4>1
      <3>2. byte \in Octet
        BY <1>3, <2>4, <3>1 DEF IsStream
      <3>3. o - a + (p + 1) <= Len(kfile) /\ v.ahead[p + 1] = kfile[o - a + (p + 1)]
        BY <1>3, <2>4, <3>1 DEF IsAhead
      <3> QED BY <2>4, <3>1, <3>2, <3>3
    <2> HIDE DEF byte
    <2>7. u.bytes \in Seq(Octet) /\ w.bytes = Append(u.bytes, byte)
      BY <1>2, <1>3, <2>2 DEF IsStream
    <2>8. w.bytes \in Seq(Octet) /\ Len(w.bytes) = k + 1
      BY <1>2, <2>6, <2>7
    <2>9. ASSUME NEW i \in 1 .. k + 1 PROVE at + i <= Len(kfile) /\ w.bytes[i] = kfile[at + i]
      <3>1. CASE i = k + 1
        BY <1>2, <2>6, <2>7, <3>1
      <3>2. CASE i # k + 1
        <4>1. i \in 1 .. k
          BY <3>2
        <4>2. w.bytes[i] = u.bytes[i]
          BY <1>2, <2>6, <2>7, <4>1
        <4> QED BY <1>2, <4>1, <4>2
      <3> QED BY <3>1, <3>2
    <2>10. IsStream(w)
      <3>1. v.pos + 1 \in 0 .. Len(v.ahead)
        BY <2>4
      <3> QED BY <1>3, <2>2, <2>3, <2>8, <3>1 DEF IsStream
    <2>11. at + (k + 1) = w.offset - (Len(w.ahead) - w.pos)
      <3>1. at + (k + 1) = o - (a - (p + 1))
        BY <2>p
      <3> QED BY <2>2, <2>4, <3>1
    <2> QED BY <1>3, <1>5, <2>1, <2>2, <2>8, <2>9, <2>10, <2>11 DEF GotSoFar
  <1> QED BY <1>4, <1>5

LEMMA GetsRead ==
  ASSUME StdioTypeOK, at \in Nat, NEW n \in Nat, GotSoFar(Stream, 0), NEW works \in BOOLEAN
  PROVE  GotSoFar(EachGet!Folded(Stream, [k \in 1 .. n |-> works]), n)
  <1> DEFINE calls == [k \in 1 .. n |-> works]
  <1>2. calls \in Seq(BOOLEAN) /\ Len(calls) = n /\ \A k \in 1 .. n : calls[k] = works
    <2>1. calls \in [1 .. n -> BOOLEAN]
      OBVIOUS
    <2> QED BY <2>1
  <1> HIDE DEF calls
  <1>3. PICK h : EachGet!Passes(h, Stream, calls) /\ EachGet!Folded(Stream, calls) = h[Len(calls)]
    BY <1>2, EachGet!FoldedPasses
  <1>4. h[0] = Stream /\ \A j \in Nat : j < n => h[j + 1] = Get(h[j], works)
    <2>1. \A j \in Nat : j < n => calls[j + 1] = works
      BY <1>2
    <2> QED BY <1>2, <1>3, <2>1 DEF EachGet!Passes
  <1> DEFINE bad == {k \in Nat : k <= n /\ ~GotSoFar(h[k], k)}
  <1>5. CASE bad = {}
    BY <1>2, <1>3, <1>5 DEF calls
  <1>6. CASE bad # {}
    <2>1. PICK m \in bad : \A k \in bad : ~(k < m)
      BY <1>6, EachGet!LeastExists
    <2>2. m \in Nat /\ m <= n /\ ~GotSoFar(h[m], m) /\ \A k \in bad : ~(k < m)
      BY <2>1
    <2>3. m # 0
      BY <1>4, <2>2
    <2>4. PICK k \in Nat : m = k + 1
      BY <2>2, <2>3
    <2>5. k < n /\ k < m
      BY <2>2, <2>4
    <2>6. GotSoFar(h[k], k)
      BY <2>2, <2>5
    <2> HIDE DEF bad
    <2>7. h[k + 1] = Get(h[k], works)
      BY <1>4, <2>5
    <2>8. GotSoFar(Get(h[k], works), k + 1)
      <3>1. CASE h[k].stop
        <4>1. Get(h[k], works) = h[k]
          BY <3>1 DEF Get
        <4>2. Len(h[k].bytes) <= k + 1
          BY <2>6, <3>1 DEF GotSoFar, IsStream
        <4> QED BY <2>6, <3>1, <4>1, <4>2 DEF GotSoFar
      <3>2. CASE ~h[k].stop
        <4>1. GotSoFar(fgetc(h[k], works), k + 1)
          BY <2>6, <3>2, GetReads
        <4> QED BY <3>2, <4>1 DEF Get
      <3> QED BY <3>1, <3>2
    <2> QED BY <2>2, <2>4, <2>7, <2>8
  <1> QED BY <1>5, <1>6

LEMMA RepeatedIsFold ==
  ASSUME NEW s, NEW calls
  PROVE  /\ Repeated(LAMBDA u, c : fputc(u, c.byte, c.works), s, calls) = EachPut!Folded(s, calls)
         /\ Repeated(LAMBDA u, c : fgetc(u, c), s, calls) = EachGet!Folded(s, calls)
  BY DEF Repeated, Put, Get, EachPut!Folded, EachGet!Folded, FoldLeft, MapThenFoldSet, Max,
         EachPut!FoldLeft, EachPut!MapThenFoldSet, EachPut!Max,
         EachGet!FoldLeft, EachGet!MapThenFoldSet, EachGet!Max

-----------------------------------------------------------------------------
(* The actions.                                                            *)
LEMMA PlaceIsNatural ==
  ASSUME StdioInv, ~error PROVE at \in Nat
  <1>0. koffset \in Nat /\ Len(ahead) \in Nat /\ buffer_pos \in Nat /\ Len(pending) \in Nat
    <2>1. koffset \in Nat /\ ahead \in Seq(Octet) /\ buffer_pos \in 0 .. Len(ahead) /\ pending \in Seq(Octet)
      BY DEF StdioInv, StdioTypeOK
    <2> QED BY <2>1
  <1>1. PICK o \in Nat, a \in Nat, p \in Nat, m \in Nat :
          o = koffset /\ a = Len(ahead) /\ p = buffer_pos /\ m = Len(pending)
    BY <1>0
  <1>2. at = o - (a - p) + m /\ a <= o
    BY <1>1 DEF StdioInv, IsAhead
  <1> QED BY <1>2

LEMMA SeenIsBytes ==
  ASSUME StdioTypeOK PROVE Seen \in Seq(Octet)
  BY OverlaidIs DEF Seen, StdioTypeOK

LEMMA NothingAhead ==
  ASSUME NEW file \in Seq(Octet), NEW origin \in Nat PROVE IsAhead(file, origin, <<>>)
  BY DEF IsAhead

(* What fwrite does to the file as the program sees it.                    *)
LEMMA WriteIsWrite ==
  ASSUME StdioInv, NEW n \in 0 .. MaxItems, NEW b \in Octet, NEW works \in BOOLEAN,
         fwrite(n, b, works)
  PROVE  /\ StdioInv'
         /\ error' \/ (/\ Seen' = Overlaid(Seen, at, [k \in 1 .. n |-> b]) /\ at' = at + n)
  <1> DEFINE calls == [k \in 1 .. n |-> [byte |-> b, works |-> works]]
             s == EachPut!Folded(Stream, calls)
  <1>0. n \in Nat /\ at \in Nat
    <2>1. ~error
      BY DEF fwrite
    <2>2. n \in Nat
      BY StdioAssumption DEF StdioAssumption
    <2> QED BY <2>1, <2>2, PlaceIsNatural
  <1>1. Becomes(s) /\ at' = at + Len(s.bytes) /\ flow' = "writing" /\ open' = open /\ got' = got
        /\ open /\ ~error /\ flow # "reading"
    BY RepeatedIsFold DEF fwrite
  <1>2. /\ StdioTypeOK /\ ahead = <<>> /\ at = koffset - (Len(ahead) - buffer_pos) + Len(pending)
    BY <1>1 DEF StdioInv
  <1>3. buffer_pos = 0 /\ at = koffset + Len(pending)
    BY <1>2 DEF StdioTypeOK
  <1>4. Wrote(Stream, 0, b)
    <2>1. Seen \in Seq(Octet) /\ Overlaid(Seen, at, <<>>) = Seen
      BY <1>0, <1>2, SeenIsBytes, OverlaidNothing
    <2>2. Overlaid(Stream.file, Stream.offset, Stream.pending) = Overlaid(Seen, at, Stream.bytes)
      BY <1>2, <2>1, StreamIsOne DEF Seen
    <2>3. Len(Stream.bytes) = 0 /\ at + 0 = Stream.offset + Len(Stream.pending)
      BY <1>0, <1>2, <1>3, StreamIsOne
    <2>4. /\ IsStream(Stream) /\ Stream.ahead = <<>> /\ Stream.pos = 0 /\ Stream.stop = FALSE
          /\ Stream.bytes = <<>>
      BY <1>2, <1>3, StreamIsOne
    <2>5. \A i \in 1 .. 0 : Stream.bytes[i] = b
      OBVIOUS
    <2> QED BY <2>2, <2>3, <2>4, <2>5 DEF Wrote
  <1>5. Wrote(s, n, b)
    BY <1>0, <1>2, <1>4, PutsWrite
  <1> HIDE DEF s
  <1>6. /\ kfile' = s.file /\ koffset' = s.offset /\ ahead' = <<>> /\ buffer_pos' = 0
        /\ pending' = s.pending /\ error' = s.error /\ IsStream(s)
    BY <1>1, <1>5 DEF Becomes, Wrote
  <1>7. StdioTypeOK'
    <2>1. /\ s.file \in Seq(Octet) /\ s.offset \in Nat /\ s.pending \in Seq(Octet)
          /\ s.error \in BOOLEAN /\ s.bytes \in Seq(Octet) /\ <<>> \in Seq(Octet)
      BY <1>6 DEF IsStream
    <2>2. at' \in Int /\ 0 \in 0 .. Len(<<>>)
      BY <1>0, <1>1, <2>1
    <2> QED BY <1>1, <1>2, <1>6, <2>1, <2>2 DEF StdioTypeOK
  <1>8. ASSUME ~s.error
        PROVE  /\ at' = at + n /\ at' = s.offset + Len(s.pending)
               /\ s.bytes = [k \in 1 .. n |-> b]
    <2>1. Len(s.bytes) = n /\ (\A i \in 1 .. n : s.bytes[i] = b) /\ s.bytes \in Seq(Octet)
          /\ at + n = s.offset + Len(s.pending)
      BY <1>5, <1>8 DEF Wrote, IsStream
    <2> QED BY <1>0, <1>1, <2>1
  <1>9. StdioInv'
    <2>1. ASSUME ~error'
          PROVE  /\ at' = koffset' - (Len(ahead') - buffer_pos') + Len(pending')
                 /\ flow' # "reading" => ahead' = <<>>
                 /\ flow' # "writing" \/ ~open' => pending' = <<>>
                 /\ IsAhead(kfile', koffset', ahead')
      <3>1. at' = s.offset + Len(s.pending)
        BY <1>6, <1>8, <2>1
      <3>2. s.offset \in Nat /\ Len(s.pending) \in Nat
        BY <1>6 DEF IsStream
      <3>3. at' = koffset' - (Len(ahead') - buffer_pos') + Len(pending')
        <4>1. PICK o \in Nat, m \in Nat : o = s.offset /\ m = Len(s.pending)
          BY <3>2
        <4>2. o + m = o - (0 - 0) + m /\ Len(<<>>) = 0
          OBVIOUS
        <4> QED BY <1>6, <3>1, <4>1, <4>2
      <3>4. IsAhead(kfile', koffset', ahead')
        BY <1>6, NothingAhead DEF IsStream
      <3> QED BY <1>1, <1>6, <3>3, <3>4
    <2> QED BY <1>7, <2>1 DEF StdioInv
  <1>10. ASSUME ~error' PROVE Seen' = Overlaid(Seen, at, [k \in 1 .. n |-> b]) /\ at' = at + n
    <2>1. Overlaid(s.file, s.offset, s.pending) = Overlaid(Seen, at, s.bytes)
      BY <1>5, <1>6, <1>10 DEF Wrote
    <2>2. Seen' = Overlaid(s.file, s.offset, s.pending)
      BY <1>6 DEF Seen, Overlaid
    <2> QED BY <1>6, <1>8, <1>10, <2>1, <2>2
  <1> QED BY <1>9, <1>10

(* What fread returns.                                                     *)
Available(n) == IF at >= Len(Seen) THEN 0 ELSE IF at + n > Len(Seen) THEN Len(Seen) - at ELSE n

LEMMA ReadIsRead ==
  ASSUME StdioInv, NEW n \in 0 .. MaxItems, NEW works \in BOOLEAN, fread(n, works)
  PROVE  /\ StdioInv' /\ Seen' = Seen
         /\ ~error' => /\ at' = at + Available(n) /\ Len(got') = Available(n)
                       /\ \A i \in 1 .. Available(n) : got'[i] = Seen[at + i]
  <1> DEFINE calls == [k \in 1 .. n |-> works]
             s == EachGet!Folded(Stream, calls)
  <1>0. n \in Nat /\ at \in Nat
    <2>1. ~error
      BY DEF fread
    <2>2. n \in Nat
      BY StdioAssumption DEF StdioAssumption
    <2> QED BY <2>1, <2>2, PlaceIsNatural
  <1>1. /\ Becomes(s) /\ at' = at + Len(s.bytes) /\ got' = s.bytes /\ open' = open
        /\ flow' = IF s.stop THEN "neither" ELSE "reading"
        /\ open /\ ~error /\ flow # "writing"
    BY RepeatedIsFold DEF fread
  <1>2. /\ StdioTypeOK /\ pending = <<>> /\ error = FALSE
        /\ at = koffset - (Len(ahead) - buffer_pos) + Len(pending) /\ IsAhead(kfile, koffset, ahead)
    BY <1>1 DEF StdioInv, StdioTypeOK
  <1>3. GotSoFar(Stream, 0)
    <2>1. /\ IsStream(Stream) /\ Stream.file = kfile /\ Stream.pending = <<>>
          /\ Stream.stop = FALSE /\ Stream.bytes = <<>> /\ Stream.offset = koffset
          /\ Stream.ahead = ahead /\ Stream.pos = buffer_pos
      BY <1>2, StreamIsOne
    <2>2. Len(Stream.bytes) = 0 /\ \A i \in 1 .. 0 : at + i <= Len(kfile) /\ Stream.bytes[i] = kfile[at + i]
      BY <2>1
    <2>3. at + 0 = Stream.offset - (Len(Stream.ahead) - Stream.pos)
      <3>1. koffset \in Nat /\ ahead \in Seq(Octet) /\ buffer_pos \in 0 .. Len(ahead) /\ Len(pending) = 0
        BY <1>2 DEF StdioTypeOK
      <3>2. koffset \in Nat /\ Len(ahead) \in Nat /\ buffer_pos \in Nat
        BY <3>1
      <3>3. at + 0 = koffset - (Len(ahead) - buffer_pos)
        BY <1>0, <1>2, <3>1, <3>2
      <3> QED BY <2>1, <3>3
    <2> QED BY <1>2, <2>1, <2>2, <2>3 DEF GotSoFar
  <1>4. GotSoFar(s, n)
    BY <1>0, <1>2, <1>3, GetsRead
  <1> HIDE DEF s
  <1>5. /\ kfile' = kfile /\ koffset' = s.offset /\ ahead' = s.ahead /\ buffer_pos' = s.pos
        /\ pending' = <<>> /\ error' = s.error /\ IsStream(s)
    BY <1>1, <1>4 DEF Becomes, GotSoFar
  <1>6. /\ s.offset \in Nat /\ s.ahead \in Seq(Octet) /\ s.pos \in 0 .. Len(s.ahead)
        /\ s.bytes \in Seq(Octet) /\ s.stop \in BOOLEAN /\ s.error \in BOOLEAN
    BY <1>5 DEF IsStream
  <1>7. Seen = kfile /\ Seen' = Seen
    <2>1. Seen = Overlaid(kfile, koffset, <<>>) /\ Seen' = Overlaid(kfile, koffset', <<>>)
      BY <1>2, <1>5 DEF Seen, Overlaid
    <2>2. Overlaid(kfile, koffset, <<>>) = kfile /\ Overlaid(kfile, s.offset, <<>>) = kfile
      BY <1>2, <1>6, OverlaidNothing DEF StdioTypeOK
    <2> QED BY <1>5, <2>1, <2>2
  <1>8. StdioTypeOK'
    <2>1. at' \in Int
      BY <1>0, <1>1, <1>6
    <2> QED BY <1>1, <1>2, <1>5, <1>6, <2>1 DEF StdioTypeOK
  <1>9. PICK g \in Nat : g = Len(s.bytes)
    BY <1>6
  <1>10. /\ at + g = s.offset - (Len(s.ahead) - s.pos)
         /\ \A i \in 1 .. g : at + i <= Len(kfile) /\ s.bytes[i] = kfile[at + i]
         /\ ~s.stop => g = n
         /\ s.stop => g <= n /\ s.ahead = <<>> /\ (~s.error => at + g >= Len(kfile))
         /\ IsAhead(kfile, s.offset, s.ahead)
    BY <1>4, <1>9 DEF GotSoFar
  <1>11. Len(kfile) \in Nat
    BY <1>2 DEF StdioTypeOK
  <1>12. ~s.error => g = Available(n)
    <2>1. g # 0 => at + g <= Len(kfile)
      BY <1>10
    <2> QED BY <1>0, <1>7, <1>10, <1>11, <2>1 DEF Available
  <1>13. StdioInv'
    <2>1. at' = koffset' - (Len(ahead') - buffer_pos') + Len(pending')
      <3>1. Len(pending') = 0
        BY <1>5
      <3>2. PICK o \in Nat, a \in Nat, p \in Nat : o = s.offset /\ a = Len(s.ahead) /\ p = s.pos
        BY <1>6
      <3>3. at' = o - (a - p)
        BY <1>1, <1>9, <1>10, <3>2
      <3>4. at' = o - (a - p) + 0
        BY <3>3
      <3> QED BY <1>5, <3>1, <3>2, <3>4
    <2>2. flow' # "reading" => ahead' = <<>>
      BY <1>1, <1>5, <1>10
    <2>3. IsAhead(kfile', koffset', ahead')
      BY <1>5, <1>10
    <2> QED BY <1>5, <1>8, <2>1, <2>2, <2>3 DEF StdioInv
  <1> QED BY <1>1, <1>5, <1>7, <1>9, <1>10, <1>12, <1>13

(* What a flush does: it moves what is pending, and nothing is seen of it. *)
LEMMA FlushIsSeen ==
  ASSUME StdioInv, NEW works \in BOOLEAN, NEW v, v = fflush_write(Stream, works)
  PROVE  /\ IsStream(v) /\ v.ahead = ahead /\ v.pos = buffer_pos
         /\ ~v.error => /\ v.pending = <<>> /\ v.offset = koffset + Len(pending)
                        /\ v.file = Seen /\ v.stop = FALSE
  <1>1. StdioTypeOK /\ IsStream(Stream)
    BY StreamIsOne DEF StdioInv
  <1>2. /\ IsStream(v) /\ v.ahead = Stream.ahead /\ v.pos = Stream.pos
        /\ FlushedFrom(Stream, v) \/ (v.error = TRUE /\ v.stop = TRUE)
    BY <1>1, FlushIs
  <1>3. ~v.error => FlushedFrom(Stream, v)
    BY <1>2
  <1> QED BY <1>1, <1>2, <1>3, StreamIsOne DEF FlushedFrom, Seen

(* fflush, and fclose, which ends what was open.                           *)
LEMMA FlushKeepsSeen ==
  ASSUME StdioInv, NEW works \in BOOLEAN, flow # "reading" \/ flow' = flow,
         Becomes(fflush_write(Stream, works)), flow' \in {"neither", flow},
         open' \in BOOLEAN, at' = at, got' = got
  PROVE  StdioInv' /\ (error' \/ Seen' = Seen)
  <1> DEFINE v == fflush_write(Stream, works)
  <1>1. /\ IsStream(v) /\ v.ahead = ahead /\ v.pos = buffer_pos
        /\ ~v.error => /\ v.pending = <<>> /\ v.offset = koffset + Len(pending)
                       /\ v.file = Seen /\ v.stop = FALSE
    BY FlushIsSeen
  <1>2. /\ kfile' = v.file /\ koffset' = v.offset /\ ahead' = v.ahead /\ buffer_pos' = v.pos
        /\ pending' = v.pending /\ error' = v.error
    BY DEF Becomes
  <1>3. error => v.error
    BY StreamIsOne DEF fflush_write, Written, StdioInv, StdioTypeOK, Stream
  <1> HIDE DEF v
  <1>4. StdioTypeOK'
    BY <1>1, <1>2 DEF StdioInv, StdioTypeOK, IsStream
  <1>5. ASSUME ~error'
        PROVE  /\ Seen' = Seen
               /\ at' = koffset' - (Len(ahead') - buffer_pos') + Len(pending')
               /\ flow' # "reading" => ahead' = <<>>
               /\ pending' = <<>> /\ IsAhead(kfile', koffset', ahead')
    <2>1. /\ ~error /\ pending' = <<>> /\ koffset' = koffset + Len(pending) /\ kfile' = Seen
          /\ ahead' = ahead /\ buffer_pos' = buffer_pos
      BY <1>1, <1>2, <1>3, <1>5
    <2>2. /\ at = koffset - (Len(ahead) - buffer_pos) + Len(pending)
          /\ flow # "reading" => ahead = <<>>
          /\ flow # "writing" => pending = <<>>
          /\ IsAhead(kfile, koffset, ahead)
      BY <2>1 DEF StdioInv
    <2>3. Seen \in Seq(Octet) /\ koffset' \in Nat
      BY <1>4, SeenIsBytes DEF StdioInv, StdioTypeOK
    <2>4. Seen' = Seen
      <3>1. Seen' = Overlaid(Seen, koffset', <<>>)
        BY <2>1 DEF Seen, Overlaid
      <3> QED BY <2>3, <3>1, OverlaidNothing
    <2>5. koffset \in Nat /\ Len(ahead) \in Nat /\ buffer_pos \in Nat /\ Len(pending) \in Nat
      <3>1. koffset \in Nat /\ ahead \in Seq(Octet) /\ buffer_pos \in 0 .. Len(ahead) /\ pending \in Seq(Octet)
        BY DEF StdioInv, StdioTypeOK
      <3> QED BY <3>1
    <2>6. at' = koffset' - (Len(ahead') - buffer_pos') + Len(pending')
      <3>1. PICK o \in Nat, a \in Nat, p \in Nat, m \in Nat :
              o = koffset /\ a = Len(ahead) /\ p = buffer_pos /\ m = Len(pending)
        BY <2>5
      <3>2. at = (o + m) - (a - p) + 0
        BY <2>2, <3>1
      <3> QED BY <2>1, <3>1, <3>2
    <2>7. IsAhead(kfile', koffset', ahead')
      <3>1. CASE flow = "writing" \/ flow # "reading"
        <4>1. ahead' = <<>>
          BY <2>1, <2>2, <3>1
        <4> QED BY <2>1, <2>3, <4>1, NothingAhead
      <3>2. CASE flow = "reading"
        <4>1. pending = <<>> /\ Seen = kfile
          <5>1. pending = <<>>
            BY <2>2, <3>2
          <5> QED BY <5>1, OverlaidNothing DEF Seen, StdioInv, StdioTypeOK
        <4>2. koffset' = koffset
          BY <2>1, <2>5, <4>1
        <4> QED BY <2>1, <2>2, <4>1, <4>2
      <3> QED BY <3>1, <3>2
    <2>8. flow' # "reading" => ahead' = <<>>
      BY <2>1, <2>2
    <2> QED BY <2>1, <2>4, <2>6, <2>7, <2>8
  <1> QED BY <1>4, <1>5 DEF StdioInv

LEMMA SeekKeepsSeen ==
  ASSUME StdioInv, NEW whence \in {"SET", "CUR", "END"}, NEW n \in - MaxItems .. MaxLength,
         NEW works \in BOOLEAN, SeeksAhead = {}, fseek(whence, n, works)
  PROVE  StdioInv' /\ (error' \/ (Seen' = Seen /\ at' \in {at} \cup 0 .. MaxLength)) /\ got' = got
  <1> DEFINE v == fflush_write(Stream, works)
             s == AheadDropped(v)
             Target(from) == CASE whence = "SET" -> n [] whence = "CUR" -> from + n
                               [] whence = "END" -> Len(s.file) + n
             t == [s EXCEPT !.offset = Sought(@, Target(@))]
  <1>1. /\ IsStream(v) /\ v.ahead = ahead /\ v.pos = buffer_pos
        /\ ~v.error => /\ v.pending = <<>> /\ v.offset = koffset + Len(pending)
                       /\ v.file = Seen /\ v.stop = FALSE
    BY FlushIsSeen
  <1>2. /\ open /\ ~error
        /\ buffer_pos < Len(ahead) => whence # "CUR" /\ ~(Target(s.offset) < 0)
        /\ Target(s.offset) <= MaxLength /\ Becomes(t) /\ at' = Sought(at, Target(at))
        /\ flow' = "neither" /\ open' = open /\ got' = got
    BY DEF fseek
  <1> HIDE DEF v
  <1>3. /\ s.file = v.file /\ s.offset = v.offset /\ s.ahead = <<>> /\ s.pos = 0
        /\ s.pending = v.pending /\ s.error = v.error
        /\ s = [f \in StreamField |-> s[f]]
    BY <1>1 DEF AheadDropped, IsStream, StreamField
  <1> HIDE DEF s
  <1>4. /\ t.file = s.file /\ t.offset = Sought(s.offset, Target(s.offset))
        /\ t.ahead = s.ahead /\ t.pos = s.pos
        /\ t.pending = s.pending /\ t.error = s.error
    BY <1>3 DEF StreamField
  <1> HIDE DEF t
  <1>5. /\ kfile' = v.file /\ koffset' = Sought(v.offset, Target(v.offset))
        /\ ahead' = <<>> /\ buffer_pos' = 0 /\ pending' = v.pending /\ error' = v.error
    BY <1>2, <1>3, <1>4 DEF Becomes
  <1>6. /\ n \in Int /\ MaxLength \in Nat /\ v.offset \in Nat /\ Len(v.file) \in Nat
        /\ v.file \in Seq(Octet) /\ v.pending \in Seq(Octet) /\ v.error \in BOOLEAN /\ at \in Int
    BY <1>1, StdioAssumption DEF StdioAssumption, IsStream, StdioInv, StdioTypeOK
  <1>t. \A from \in Int : Target(from) \in Int
    BY <1>3, <1>6
  <1> HIDE DEF Target
  <1>7. StdioTypeOK' /\ koffset' \in Nat
    <2>1. Target(v.offset) \in Int /\ Target(at) \in Int
      <3>1. v.offset \in Int /\ at \in Int
        BY <1>6
      <3> QED BY ONLY <3>1, <1>t
    <2>2. koffset' \in Nat /\ at' \in Int
      BY <1>2, <1>5, <1>6, <2>1 DEF Sought
    <2>3. <<>> \in Seq(Octet) /\ 0 \in 0 .. Len(<<>>)
      OBVIOUS
    <2> QED BY <1>2, <1>5, <1>6, <2>2, <2>3 DEF StdioInv, StdioTypeOK
  <1>8. ASSUME ~error'
        PROVE  /\ Seen' = Seen /\ at' \in {at} \cup 0 .. MaxLength /\ at' = koffset'
               /\ pending' = <<>> /\ kfile' = Seen
    <2>1. v.pending = <<>> /\ v.offset = koffset + Len(pending) /\ v.file = Seen
      BY <1>1, <1>5, <1>8
    <2>2. at' = koffset' /\ at' \in {at} \cup 0 .. MaxLength
      <3>1. CASE buffer_pos < Len(ahead)
        <4>1. whence # "CUR" /\ ~(Target(v.offset) < 0) /\ Target(v.offset) <= MaxLength
          BY <1>2, <1>3, <3>1
        <4>2. Target(at) = Target(v.offset) /\ Target(v.offset) \in Int
          BY <1>6, <1>t, <4>1 DEF Target
        <4> QED BY <1>2, <1>5, <1>6, <4>1, <4>2 DEF Sought
      <3>2. CASE ~(buffer_pos < Len(ahead))
        <4>1. /\ at = koffset - (Len(ahead) - buffer_pos) + Len(pending)
              /\ koffset \in Nat /\ Len(pending) \in Nat /\ Len(ahead) \in Nat
              /\ buffer_pos \in 0 .. Len(ahead)
          BY <1>2 DEF StdioInv, StdioTypeOK
        <4>2. at = v.offset
          BY <2>1, <3>2, <4>1
        <4>3. Target(at) \in Int /\ Target(at) <= MaxLength
          BY <1>2, <1>3, <1>6, <1>t, <4>2
        <4> QED BY <1>2, <1>5, <1>6, <4>2, <4>3 DEF Sought
      <3> QED BY <3>1, <3>2
    <2>3. Seen \in Seq(Octet)
      BY SeenIsBytes DEF StdioInv
    <2>4. Seen' = Overlaid(Seen, koffset', <<>>)
      BY <1>5, <2>1 DEF Seen, Overlaid
    <2> QED BY <1>5, <1>7, <2>1, <2>2, <2>3, <2>4, OverlaidNothing
  <1>9. StdioInv'
    <2>1. ASSUME ~error'
          PROVE  /\ at' = koffset' - (Len(ahead') - buffer_pos') + Len(pending')
                 /\ IsAhead(kfile', koffset', ahead')
      <3>1. at' = koffset' /\ pending' = <<>> /\ kfile' = Seen /\ Seen \in Seq(Octet)
        BY <1>8, <2>1, SeenIsBytes DEF StdioInv
      <3>2. Len(pending') = 0 /\ Len(ahead') = 0 /\ buffer_pos' = 0
        BY <1>5, <3>1
      <3>3. koffset' = koffset' - (0 - 0) + 0
        <4>1. PICK o \in Nat : o = koffset'
          BY <1>7
        <4>2. o = o - (0 - 0) + 0
          OBVIOUS
        <4> QED BY <4>1, <4>2
      <3> QED BY <1>5, <1>7, <3>1, <3>2, <3>3, NothingAhead
    <2> QED BY <1>5, <1>7, <1>8, <2>1 DEF StdioInv
  <1> QED BY <1>2, <1>8, <1>9

-----------------------------------------------------------------------------
(* The buffers never tell: the calls are those of a plain file.            *)
LEMMA StartsPlain ==
  StdioInit => StdioInv
  <1>1. <<>> \in Seq(Octet) /\ Len(<<>>) = 0
    OBVIOUS
  <1>2. SUFFICES ASSUME StdioInit PROVE StdioInv
    OBVIOUS
  <1>3. StdioTypeOK
    <2>1. /\ kfile = <<>> /\ koffset = 0 /\ ahead = <<>> /\ buffer_pos = 0 /\ pending = <<>>
          /\ error = FALSE /\ open = TRUE /\ flow = "neither" /\ at = 0 /\ got = <<>>
      BY <1>2 DEF StdioInit
    <2>2. buffer_pos \in 0 .. Len(ahead) /\ koffset \in Nat /\ at \in Int
      BY <1>1, <2>1
    <2>3. kfile \in Seq(Octet) /\ ahead \in Seq(Octet) /\ pending \in Seq(Octet) /\ got \in Seq(Octet)
      BY <1>1, <2>1
    <2> QED BY <2>1, <2>2, <2>3 DEF StdioTypeOK
  <1>4. IsAhead(kfile, koffset, ahead)
    BY <1>1, <1>2 DEF StdioInit, IsAhead
  <1>5. at = koffset - (Len(ahead) - buffer_pos) + Len(pending)
    BY <1>1, <1>2 DEF StdioInit
  <1> QED BY <1>2, <1>3, <1>4, <1>5 DEF StdioInv, StdioInit

Contents(seen) == [i \in 0 .. Len(seen) - 1 |-> seen[i + 1]]

(* A write of SparseFile is one byte laid n times over what is seen.       *)
LEMMA LaidIsWrite ==
  ASSUME StdioTypeOK, at \in Nat, NEW n \in 1 .. MaxItems, NEW b \in Octet, at + n <= MaxLength,
         Seen' = Overlaid(Seen, at, [k \in 1 .. n |-> b]), at' = at + n, got' = got
  PROVE  PlainFile!Write("stream", n, b)
  <1> DEFINE bytes == [k \in 1 .. n |-> b]
             size == PlainFile!Larger(Len(Seen), at + n)
  <1>0. n \in Nat /\ n > 0
    BY StdioAssumption DEF StdioAssumption
  <1>1. bytes \in Seq(Octet) /\ Len(bytes) = n /\ bytes # <<>> /\ \A k \in 1 .. n : bytes[k] = b
    <2>1. bytes \in [1 .. n -> Octet]
      OBVIOUS
    <2>2. bytes \in Seq(Octet) /\ Len(bytes) = n
      BY <1>0, <2>1
    <2> QED BY <1>0, <2>2
  <1>2. Seen \in Seq(Octet) /\ Len(Seen) \in Nat
    BY SeenIsBytes
  <1> HIDE DEF bytes
  <1>3. /\ Len(Seen') = Reach(Seen, at, bytes)
        /\ \A i \in 1 .. Reach(Seen, at, bytes) :
             Seen'[i] = IF at < i /\ i <= at + Len(bytes) THEN bytes[i - at]
                        ELSE IF i <= Len(Seen) THEN Seen[i] ELSE 0
    <2>1. Seen' = Overlaid(Seen, at, bytes)
      BY DEF bytes
    <2> DEFINE laid == Overlaid(Seen, at, bytes)
    <2>2. /\ Len(laid) = Reach(Seen, at, bytes)
          /\ \A i \in 1 .. Reach(Seen, at, bytes) :
               laid[i] = IF at < i /\ i <= at + Len(bytes) THEN bytes[i - at]
                         ELSE IF i <= Len(Seen) THEN Seen[i] ELSE 0
      BY <1>1, <1>2, OverlaidIs
    <2> HIDE DEF laid
    <2>3. Seen' = laid
      BY <2>1 DEF laid
    <2> QED BY <2>2, <2>3
  <1>4. Reach(Seen, at, bytes) = size /\ size \in Nat
    BY <1>0, <1>1, <1>2 DEF Reach, PlainFile!Larger
  <1> HIDE DEF size
  <1>5. ASSUME NEW i \in 0 .. size - 1
        PROVE  Seen'[i + 1] = IF i \in at .. at + n - 1 THEN b
                              ELSE IF i < Len(Seen) THEN Contents(Seen)[i] ELSE 0
    <2>1. i + 1 \in 1 .. size
      BY <1>4
    <2>2. Seen'[i + 1] = IF at < i + 1 /\ i + 1 <= at + n THEN bytes[(i + 1) - at]
                         ELSE IF i + 1 <= Len(Seen) THEN Seen[i + 1] ELSE 0
      BY <1>1, <1>3, <1>4, <2>1
    <2>3. CASE i \in at .. at + n - 1
      <3>1. at < i + 1 /\ i + 1 <= at + n /\ (i + 1) - at \in 1 .. n
        BY <1>0, <2>3
      <3> QED BY <1>1, <2>2, <2>3, <3>1
    <2>4. CASE i \notin at .. at + n - 1
      <3>1. ~(at < i + 1 /\ i + 1 <= at + n)
        BY <1>0, <1>4, <2>4
      <3>2. i < Len(Seen) <=> i + 1 <= Len(Seen)
        BY <1>2, <1>4
      <3>3. i < Len(Seen) => Contents(Seen)[i] = Seen[i + 1]
        BY <1>2, <1>4 DEF Contents
      <3> QED BY <2>2, <2>4, <3>1, <3>2, <3>3
    <2> QED BY <2>3, <2>4
  <1>6. Len(Seen)' = size
    BY <1>3, <1>4
  <1>7. [i \in 0 .. Len(Seen) - 1 |-> Seen[i + 1]]'
          = [i \in 0 .. size - 1 |-> IF i \in at .. at + n - 1 THEN b
                                     ELSE IF i < Len(Seen) THEN Contents(Seen)[i] ELSE 0]
    BY <1>5, <1>6
  <1>8. [d \in {"stream"} |-> at]' = [[d \in {"stream"} |-> at] EXCEPT !["stream"] = at + n]
    OBVIOUS
  <1>9. [i \in 0 .. Len(got) - 1 |-> got[i + 1]]' = [i \in 0 .. Len(got) - 1 |-> got[i + 1]]
    OBVIOUS
  <1>10. [d \in {"stream"} |-> at]["stream"] = at
    OBVIOUS
  <1> QED BY <1>6, <1>7, <1>8, <1>9, <1>10 DEF PlainFile!Write, size, Contents

LEMMA GotIsRead ==
  ASSUME StdioTypeOK, StdioTypeOK', at \in Nat, NEW n \in 0 .. MaxItems,
         Seen' = Seen, at' = at + Available(n),
         Len(got') = Available(n), \A i \in 1 .. Available(n) : got'[i] = Seen[at + i]
  PROVE  PlainFile!Read("stream", n)
  <1>1. PICK g \in Nat : g = Available(n) /\ g <= Len(Seen) /\ (g # 0 => at + g <= Len(Seen))
    <2>1. PICK m \in Nat : m = Len(Seen)
      BY SeenIsBytes
    <2>2. n \in Nat
      BY StdioAssumption DEF StdioAssumption
    <2>3. Available(n) = IF at >= m THEN 0 ELSE IF at + n > m THEN m - at ELSE n
      BY <2>1 DEF Available
    <2>4. Available(n) \in Nat /\ Available(n) <= m /\ (Available(n) # 0 => at + Available(n) <= m)
      <3>1. CASE at >= m
        BY <2>3, <3>1
      <3>2. CASE ~(at >= m) /\ at + n > m
        <4>1. Available(n) = m - at
          BY <2>3, <3>2
        <4> QED BY <3>2, <4>1
      <3>3. CASE ~(at >= m) /\ ~(at + n > m)
        <4>1. Available(n) = n
          BY <2>3, <3>3
        <4> QED BY <2>2, <3>3, <4>1
      <3> QED BY <3>1, <3>2, <3>3
    <2> QED BY <2>1, <2>4
  <1>2. Len(Seen) \in Nat
    BY SeenIsBytes
  <1>3. ASSUME NEW i \in 0 .. g - 1 PROVE got'[i + 1] = Contents(Seen)[at + i]
    <2>1. i + 1 \in 1 .. g /\ at + i \in 0 .. Len(Seen) - 1 /\ at + (i + 1) = (at + i) + 1
      BY <1>1, <1>2
    <2> QED BY <1>1, <2>1 DEF Contents
  <1>4. [i \in 0 .. Len(got) - 1 |-> got[i + 1]]' = [i \in 0 .. g - 1 |-> Contents(Seen)[at + i]]
    BY <1>1, <1>3
  <1>5. [d \in {"stream"} |-> at]' = [[d \in {"stream"} |-> at] EXCEPT !["stream"] = at + g]
    BY <1>1
  <1>6. [d \in {"stream"} |-> at]["stream"] = at
    OBVIOUS
  <1>7. /\ Len(Seen)' = Len(Seen)
        /\ [i \in 0 .. Len(Seen) - 1 |-> Seen[i + 1]]' = [i \in 0 .. Len(Seen) - 1 |-> Seen[i + 1]]
    OBVIOUS
  <1>8. g = IF at >= Len(Seen) THEN 0 ELSE IF at + n > Len(Seen) THEN Len(Seen) - at ELSE n
    BY <1>1 DEF Available
  <1>9. [i \in 0 .. Len(got) - 1 |-> got[i + 1]]'
          = [i \in 0 .. g - 1 |-> [j \in 0 .. Len(Seen) - 1 |-> Seen[j + 1]][at + i]]
    BY <1>4 DEF Contents
  <1> QED BY <1>5, <1>6, <1>7, <1>8, <1>9 DEF PlainFile!Read

(* One call: the invariant again, and a call of a plain file, nothing that *)
(* the program sees, or a write that failed.                               *)
LEMMA StdioStep ==
  ASSUME StdioInv, SeeksAhead = {}, [StdioNext]_svars
  PROVE  StdioInv' /\ (error' \/ [PlainFile!FNext]_<<Seen, at, got>>)
  <1>1. CASE UNCHANGED svars
    <2>1. Seen' = Seen /\ at' = at /\ got' = got
      BY <1>1 DEF svars, Seen, Overlaid
    <2> QED BY <1>1, <2>1 DEF svars, StdioInv, StdioTypeOK, IsAhead
  <1>2. ASSUME NEW works \in BOOLEAN, NEW n \in 0 .. MaxItems, fread(n, works)
        PROVE  StdioInv' /\ (error' \/ [PlainFile!FNext]_<<Seen, at, got>>)
    <2>1. /\ StdioInv' /\ Seen' = Seen
          /\ ~error' => /\ at' = at + Available(n) /\ Len(got') = Available(n)
                        /\ \A i \in 1 .. Available(n) : got'[i] = Seen[at + i]
      BY <1>2, ReadIsRead
    <2>2. StdioTypeOK /\ StdioTypeOK' /\ at \in Nat
      BY <1>2, <2>1, PlaceIsNatural DEF StdioInv, fread
    <2>3. ~error' => PlainFile!Read("stream", n)
      BY <2>1, <2>2, GotIsRead
    <2>4. ~error' => PlainFile!FNext
      BY <2>3 DEF PlainFile!FNext
    <2> QED BY <2>1, <2>4
  <1>3. ASSUME NEW works \in BOOLEAN, NEW n \in 0 .. MaxItems, NEW b \in Octet, fwrite(n, b, works)
        PROVE  StdioInv' /\ (error' \/ [PlainFile!FNext]_<<Seen, at, got>>)
    <2>1. /\ StdioInv'
          /\ error' \/ (/\ Seen' = Overlaid(Seen, at, [k \in 1 .. n |-> b]) /\ at' = at + n)
      BY <1>3, WriteIsWrite
    <2>2. StdioTypeOK /\ at \in Nat /\ at + n <= MaxLength /\ got' = got
      BY <1>3, PlaceIsNatural DEF StdioInv, fwrite
    <2>3. CASE n = 0 /\ ~error'
      <3>1. [k \in 1 .. n |-> b] = <<>>
        BY <2>3
      <3>2. Seen' = Seen
        BY <2>1, <2>2, <2>3, <3>1, SeenIsBytes, OverlaidNothing
      <3>3. at' = at
        BY <2>1, <2>2, <2>3
      <3> QED BY <2>1, <2>2, <3>2, <3>3
    <2>4. CASE n # 0 /\ ~error'
      <3>1. n \in 1 .. MaxItems
        BY <2>4, StdioAssumption DEF StdioAssumption
      <3>2. PlainFile!Write("stream", n, b)
        BY <2>1, <2>2, <2>4, <3>1, LaidIsWrite
      <3>3. PlainFile!FNext
        BY <3>2 DEF PlainFile!FNext
      <3> QED BY <2>1, <3>3
    <2> QED BY <2>1, <2>3, <2>4
  <1>4. ASSUME NEW works \in BOOLEAN, NEW whence \in {"SET", "CUR", "END"},
               NEW n \in - MaxItems .. MaxLength, fseek(whence, n, works)
        PROVE  StdioInv' /\ (error' \/ [PlainFile!FNext]_<<Seen, at, got>>)
    <2>1. StdioInv' /\ (error' \/ (Seen' = Seen /\ at' \in {at} \cup 0 .. MaxLength)) /\ got' = got
      BY <1>4, SeekKeepsSeen
    <2>2. ASSUME ~error', at' # at PROVE PlainFile!FNext
      <3>1. Seen' = Seen /\ at' \in 0 .. MaxLength
        BY <2>1, <2>2
      <3>2. [d \in {"stream"} |-> at]' = [[d \in {"stream"} |-> at] EXCEPT !["stream"] = at']
        OBVIOUS
      <3>3. PlainFile!Seek("stream")
        BY <2>1, <3>1, <3>2 DEF PlainFile!Seek
      <3> QED BY <3>3 DEF PlainFile!FNext
    <2> QED BY <2>1, <2>2
  <1>5. ASSUME NEW works \in BOOLEAN, fflush(works) \/ fclose(works)
        PROVE  StdioInv' /\ (error' \/ [PlainFile!FNext]_<<Seen, at, got>>)
    <2>1. /\ flow # "reading" \/ flow' = flow
          /\ Becomes(fflush_write(Stream, works)) /\ flow' \in {"neither", flow}
          /\ open' \in BOOLEAN /\ at' = at /\ got' = got
      BY <1>5 DEF fflush, fclose, StdioInv, StdioTypeOK
    <2>2. StdioInv' /\ (error' \/ Seen' = Seen)
      BY <2>1, FlushKeepsSeen
    <2> QED BY <2>1, <2>2
  <1> QED BY <1>1, <1>2, <1>3, <1>4, <1>5 DEF StdioNext

(* The invariant, and with it PositionsAgree: between two calls the        *)
(* kernel's offset, less what was read ahead, plus what is pending, is     *)
(* where the program is, and a stream that was closed keeps nothing back   *)
(* (fputc, fgetc, fseek, fclose), unless a read or a write failed.  The    *)
(* hypothesis leaves out, while bytes are read ahead, the seek relative to *)
(* the position and the seek that lseek refuses: both lose the position.   *)
THEOREM PositionsAreKept ==
  ASSUME SeeksAhead = {}
  PROVE  StdioSpec => []PositionsAgree
  <1>1. StdioInv /\ [StdioNext]_svars => StdioInv'
    BY StdioStep
  <1>2. StdioInv => PositionsAgree
    BY DEF StdioInv, PositionsAgree
  <1> QED BY StartsPlain, <1>1, <1>2, PTL DEF StdioSpec

(* Every call of the library is a call of the plain file of SparseFile: it *)
(* reads what was written last and writes where the program is, whatever   *)
(* is buffered, up to the first read or write that fails                   *)
(* (user_libc.c:510), for programs that make neither of those two seeks.   *)
THEOREM StreamsArePlainFiles ==
  ASSUME SeeksAhead = {}
  PROVE  StdioSpec => StreamIsFile
  <1>1. StdioInv /\ [StdioNext]_svars => StdioInv'
    BY StdioStep
  <1>2. StdioInv /\ StdioInv' /\ [StdioNext]_svars => [error' \/ PlainFile!FNext]_<<Seen, at, got>>
    BY StdioStep
  <1> QED BY StartsPlain, <1>1, <1>2, PTL DEF StdioSpec, StreamIsFile

-----------------------------------------------------------------------------
(***************************************************************************)
(* A tmpfs file is a plain sequence of bytes for every size, limit and     *)
(* number of descriptions: TmpFile implements SparseFile.                  *)
(***************************************************************************)

(* SizesAgree holds the type invariant up: the old content fits the new    *)
(* buffer only because the size never exceeds the capacity.                *)
Inv == TTypeOK /\ SizesAgree

USE TmpFileAssumption

(* Indices of a shorter sequence are indices of a longer one.              *)
LEMMA Below ==
  ASSUME NEW a \in Nat, NEW c \in Nat, a <= c, NEW i \in 0..a - 1
  PROVE  i \in 0..c - 1 /\ i \in Nat /\ i < a
  OBVIOUS

(* The growth policy makes room: what tmpfs_write allocates for n bytes,   *)
(* capped at the limit, has place for n bytes whenever n is within it.     *)
LEMMA GrowthSuffices ==
  ASSUME NEW n \in 0..MaxFile, NEW c \in Int, Grows(n, c)
  PROVE  Capped(c) \in n..MaxFile
  <1>1. CASE n < SmallFile
    BY <1>1 DEF Grows, Capped
  <1>2. CASE ~(n < SmallFile)
    BY <1>2, c = n + n \div 4 DEF Grows, Capped
  <1> QED BY <1>1, <1>2

(* What Store leaves in the buffer: the old bytes below the old size but   *)
(* for the m that were written, and 0 in the gap.                          *)
LEMMA StoredBytes ==
  ASSUME Inv, NEW d \in Description, NEW n \in 0..MaxCount, NEW m \in 0..n,
         NEW b \in Byte, Store(d, n, m, b)
  PROVE  /\ capacity' \in 0..MaxFile
         /\ offset[d] + n <= capacity' /\ fsize <= capacity'
         /\ offset[d] + n <= MaxFile
         /\ data' \in [0..capacity' - 1 -> Byte \cup {Junk}]
         /\ \A i \in 0..capacity' - 1 :
              /\ i \in offset[d]..offset[d] + m - 1 => data'[i] = b
              /\ i \notin offset[d]..offset[d] + m - 1 /\ fsize <= i /\ i < offset[d]
                   => data'[i] = 0
              /\ i \notin offset[d]..offset[d] + m - 1 /\ i < fsize
                   => data'[i] = data[i]
  <1> DEFINE p == offset[d]
             new_size == p + n
  <1>1. p \in 0..MaxSeek /\ fsize \in 0..capacity /\ capacity \in 0..MaxFile
    BY DEF Inv, TTypeOK, SizesAgree
  <1>2. new_size \in 0..MaxFile
    BY <1>1 DEF Store
  <1>3. CASE /\ new_size <= capacity
             /\ data' = Filled(p, m, b, data, capacity)
             /\ UNCHANGED capacity
    BY <1>1, <1>2, <1>3 DEF Inv, TTypeOK, Filled, InGap
  <1>4. CASE /\ new_size > capacity
             /\ \E c \in 0..2 * MaxFile + 1 :
                  /\ Grows(new_size, c)
                  /\ data' = Filled(p, m, b, Moved(Capped(c)), Capped(c))
                  /\ capacity' = Capped(c)
    <2>1. PICK c \in 0..2 * MaxFile + 1 :
                  /\ Grows(new_size, c)
                  /\ data' = Filled(p, m, b, Moved(Capped(c)), Capped(c))
                  /\ capacity' = Capped(c)
      BY <1>4
    <2>2. Capped(c) \in new_size..MaxFile
      BY <1>2, <2>1, GrowthSuffices
    <2> DEFINE C == Capped(c)
    <2>3. C \in Int /\ new_size <= C /\ C <= MaxFile /\ fsize <= C
      BY <1>1, <1>2, <1>4, <2>2
    <2>4. capacity' = C /\ data' = Filled(p, m, b, Moved(C), C)
      BY <2>1
    <2> HIDE DEF C
    <2>5. \A i \in 0..C - 1 : Moved(C)[i] = IF i < fsize THEN data[i] ELSE Junk
      BY DEF Moved, Copied
    <2>6. \A i \in 0..C - 1 :
            data'[i] = IF i \in p..p + m - 1 THEN b
                       ELSE IF fsize <= i /\ i < p THEN 0 ELSE Moved(C)[i]
      BY <2>4 DEF Filled, InGap
    <2>7. \A i \in 0..C - 1 : i < fsize => data[i] \in Byte \cup {Junk}
      BY <1>1 DEF Inv, TTypeOK
    <2>8. data' = [i \in 0..C - 1 |-> data'[i]]
      BY <2>4 DEF Filled
    <2>9. \A i \in 0..C - 1 : data'[i] \in Byte \cup {Junk}
      BY <2>5, <2>6, <2>7
    <2>10. data' \in [0..C - 1 -> Byte \cup {Junk}]
      BY <2>8, <2>9
    <2> QED BY <1>1, <1>2, <2>3, <2>4, <2>5, <2>6, <2>10
  <1> QED BY <1>3, <1>4 DEF Store

-----------------------------------------------------------------------------
LEMMA InitInv == ASSUME TmpInit PROVE Inv
  BY DEF TmpInit, Inv, TTypeOK, SizesAgree, Empty

LEMMA StepInv == ASSUME Inv, [TmpNext]_tvars PROVE Inv'
  <1>1. CASE Truncate
    BY <1>1 DEF Inv, TTypeOK, SizesAgree, Truncate, NodeSizeReset
  <1>2. ASSUME NEW d \in Description, NEW n \in 0..MaxCount, Read(d, n)
        PROVE  Inv'
    BY <1>2 DEF Inv, TTypeOK, SizesAgree, Read
  <1>3. ASSUME NEW d \in Description, NEW n \in 0..MaxCount, NEW b \in Byte,
               Write(d, n, b)
        PROVE  Inv'
    <2>1. Store(d, n, n, b) /\ n \in 0..n
      BY <1>3 DEF Write
    <2>2. /\ capacity' \in 0..MaxFile
          /\ offset[d] + n <= capacity' /\ fsize <= capacity'
          /\ data' \in [0..capacity' - 1 -> Byte \cup {Junk}]
      BY <2>1, StoredBytes
    <2>3. offset[d] + n \in 0..MaxSeek
      BY <2>2 DEF Inv, TTypeOK
    <2>4. /\ fsize' \in Nat /\ fsize' <= capacity' /\ node_size' = fsize'
      BY <1>3, <2>2 DEF Write, Inv, TTypeOK, SizesAgree
    <2>5. offset' \in [Description -> 0..MaxSeek]
      BY <1>3, <2>3 DEF Write, Inv, TTypeOK
    <2>6. TTypeOK'
      BY <2>2, <2>4, <2>5 DEF TTypeOK
    <2>7. SizesAgree'
      BY <2>4 DEF SizesAgree
    <2> QED BY <2>6, <2>7 DEF Inv
  <1>4. ASSUME NEW d \in Description, NEW n \in 0..MaxCount, NEW b \in Byte,
               WriteFaults(d, n, b)
        PROVE  Inv'
    <2>1. PICK m \in 0..n - 1 : Store(d, n, m, b)
      BY <1>4 DEF WriteFaults
    <2>2. m \in 0..n
      OBVIOUS
    <2>3. /\ capacity' \in 0..MaxFile /\ fsize <= capacity'
          /\ data' \in [0..capacity' - 1 -> Byte \cup {Junk}]
      BY <2>1, <2>2, StoredBytes
    <2> QED BY <1>4, <2>3 DEF WriteFaults, Inv, TTypeOK, SizesAgree
  <1>5. ASSUME NEW d \in Description, Lseek(d) PROVE Inv'
    BY <1>5 DEF Inv, TTypeOK, SizesAgree, Lseek
  <1>6. CASE UNCHANGED tvars
    BY <1>6 DEF Inv, TTypeOK, SizesAgree, tvars
  <1> QED BY <1>1, <1>2, <1>3, <1>4, <1>5, <1>6 DEF TmpNext

LEMMA Invariance == TmpSpec => []Inv
  BY InitInv, StepInv, PTL DEF TmpSpec

(* Through growth, truncation, seeks behind the end and writes that fault, *)
(* node->size is the size of the file and the buffer has room for it.      *)
THEOREM SizesAlwaysAgree == TmpSpec => []SizesAgree
  <1>1. Inv => SizesAgree
    BY DEF Inv
  <1> QED BY <1>1, Invariance, PTL

-----------------------------------------------------------------------------
(* Each step of the buffer is a step of the abstract file, or a stutter.   *)
Bytes == [i \in 0..fsize - 1 |-> data[i]]

LEMMA StepImplements ==
  ASSUME Inv, Inv', [TmpNext]_tvars
  PROVE  [File!FNext]_(File!fvars)
  <1>1. CASE Truncate
    <2>1. Bytes' = File!Nothing
      BY <1>1 DEF Truncate, Bytes, File!Nothing
    <2>2. File!Truncate
      BY <1>1, <2>1 DEF Truncate, File!Truncate, Bytes
    <2> QED BY <2>2 DEF File!FNext
  <1>2. ASSUME NEW d \in Description, NEW n \in 0..MaxCount, Read(d, n)
        PROVE  File!Read(d, n)
    <2> DEFINE p == offset[d]
               given == IF p >= fsize THEN 0 ELSE IF p + n > fsize THEN fsize - p ELSE n
    <2>1. p \in Nat /\ fsize \in Nat /\ n \in Nat
      BY DEF Inv, TTypeOK
    <2>2. \A i \in 0..given - 1 : p + i \in 0..fsize - 1
      BY <2>1
    <2>3. [i \in 0..given - 1 |-> data[p + i]] = [i \in 0..given - 1 |-> Bytes[p + i]]
      BY <2>2 DEF Bytes
    <2>4. Bytes' = Bytes
      BY <1>2 DEF Read, Bytes
    <2> QED BY <1>2, <2>3, <2>4 DEF Read, File!Read, Bytes
  <1>3. ASSUME NEW d \in Description, NEW n \in 0..MaxCount, NEW b \in Byte,
               Write(d, n, b)
        PROVE  File!Write(d, n, b)
    <2> DEFINE p == offset[d]
    <2>1. p \in Nat /\ fsize \in Nat /\ n \in 0..n
      BY DEF Inv, TTypeOK
    <2>2. Store(d, n, n, b)
      BY <1>3 DEF Write
    <2>3. fsize' = File!Larger(fsize, p + n)
      BY <1>3, <2>1 DEF Write, File!Larger
    <2>4. p + n <= MaxFile
      BY <2>1, <2>2, StoredBytes
    <2>5. fsize' \in Nat /\ capacity' \in Nat /\ fsize' <= capacity'
      BY DEF Inv, TTypeOK, SizesAgree
    <2>6. \A i \in 0..fsize' - 1 :
            data'[i] = IF i \in p..p + n - 1 THEN b
                       ELSE IF i < fsize THEN Bytes[i] ELSE 0
      <3> SUFFICES ASSUME NEW i \in 0..fsize' - 1
                   PROVE  data'[i] = IF i \in p..p + n - 1 THEN b
                            ELSE IF i < fsize THEN Bytes[i] ELSE 0
        OBVIOUS
      <3>1. i \in 0..capacity' - 1 /\ i \in Nat /\ i < fsize'
        BY <2>5, Below
      <3>2. /\ i \in p..p + n - 1 => data'[i] = b
            /\ i \notin p..p + n - 1 /\ fsize <= i /\ i < p => data'[i] = 0
            /\ i \notin p..p + n - 1 /\ i < fsize => data'[i] = data[i]
        BY <2>1, <2>2, <3>1, StoredBytes
      <3>3. i < fsize => Bytes[i] = data[i]
        BY <2>1, <3>1 DEF Bytes
      <3>4. i \in p..p + n - 1 \/ i < fsize \/ (fsize <= i /\ i < p)
        BY <2>1, <2>3, <3>1 DEF File!Larger
      <3> QED BY <2>1, <3>1, <3>2, <3>3, <3>4
    <2>7. Bytes' = [i \in 0..fsize' - 1 |->
                      IF i \in p..p + n - 1 THEN b
                      ELSE IF i < fsize THEN Bytes[i] ELSE 0]
      BY <2>6 DEF Bytes
    <2> QED BY <1>3, <2>3, <2>4, <2>7 DEF Write, File!Write, Bytes
  <1>4. ASSUME NEW d \in Description, NEW n \in 0..MaxCount, NEW b \in Byte,
               WriteFaults(d, n, b)
        PROVE  File!TornWrite(d, n, b)
    <2> DEFINE p == offset[d]
    <2>1. PICK m \in 0..n - 1 : Store(d, n, m, b)
      BY <1>4 DEF WriteFaults
    <2>2. p \in Nat /\ fsize \in Nat /\ m \in 0..n /\ fsize' = fsize
      BY <1>4 DEF Inv, TTypeOK, WriteFaults
    <2>3. fsize <= capacity' /\ capacity' \in Nat /\ p + n <= MaxFile
      BY <2>1, <2>2, StoredBytes
    <2>4. \A i \in 0..fsize - 1 :
            data'[i] = IF i \in p..p + m - 1 THEN b ELSE Bytes[i]
      <3> SUFFICES ASSUME NEW i \in 0..fsize - 1
                   PROVE  data'[i] = IF i \in p..p + m - 1 THEN b ELSE Bytes[i]
        OBVIOUS
      <3>1. i \in 0..capacity' - 1 /\ i < fsize
        BY <2>2, <2>3, Below
      <3>2. /\ i \in p..p + m - 1 => data'[i] = b
            /\ i \notin p..p + m - 1 /\ i < fsize => data'[i] = data[i]
        BY <2>1, <2>2, <3>1, StoredBytes
      <3> QED BY <3>1, <3>2 DEF Bytes
    <2>5. Bytes' = [i \in 0..fsize - 1 |->
                      IF i \in p..p + m - 1 THEN b ELSE Bytes[i]]
      BY <2>2, <2>4 DEF Bytes
    <2> QED BY <1>4, <2>2, <2>3, <2>5 DEF WriteFaults, File!TornWrite, Bytes
  <1>5. ASSUME NEW d \in Description, Lseek(d) PROVE File!Seek(d)
    <2>1. Bytes' = Bytes
      BY <1>5 DEF Lseek, Bytes
    <2> QED BY <1>5, <2>1 DEF Lseek, File!Seek, Bytes
  <1>6. CASE UNCHANGED tvars
    <2>1. Bytes' = Bytes
      BY <1>6 DEF tvars, Bytes
    <2> QED BY <1>6, <2>1 DEF tvars, Bytes, File!fvars
  <1> QED BY <1>1, <1>2, <1>3, <1>4, <1>5, <1>6 DEF TmpNext, File!FNext

(* A read of a tmpfs file returns what was written last, or 0 in a hole:   *)
(* never heap junk, and nothing from before a truncation.                  *)
THEOREM ReadsAreFaithful == TmpSpec => ReadsWhatWasWritten
  <1>1. TmpInit => File!FInit
    BY DEF TmpInit, File!FInit, File!Nothing, Empty
  <1>2. Inv /\ Inv' /\ [TmpNext]_tvars => [File!FNext]_(File!fvars)
    BY StepImplements
  <1> QED BY <1>1, <1>2, Invariance, PTL DEF TmpSpec, ReadsWhatWasWritten, File!FSpec
=============================================================================
