------------------------------ MODULE UserHeap ------------------------------
(***************************************************************************)
(* malloc of the user library (user_src/user_libc.c): a heap that only     *)
(* grows, by sys_brk.  In front of each block stands a header, from which  *)
(* realloc learns how much to copy.  free does nothing.                    *)
(*                                                                         *)
(* Addresses count the units of the heap; a unit of a block holds a value  *)
(* the program wrote, a header (of Header units) the size in its first.    *)
(***************************************************************************)
EXTENDS Integers, FiniteSets

CONSTANTS
  HeapBase, HeapLimit,     \* USER_HEAP_START, and where USER_HEAP_MAX_SIZE ends
  Header, Align,           \* MALLOC_HDR_SIZE and the alignment, 8
  MaxRequest,              \* (bound) the largest size asked for: no sum wraps
  Datum                    \* values that programs write; 0 is what calloc writes

UserHeapAssumption ==
  /\ HeapBase \in Nat \ {0} /\ HeapLimit \in Nat /\ HeapBase <= HeapLimit
  /\ Header \in Nat \ {0} /\ Align \in Nat \ {0} /\ MaxRequest \in Nat
  /\ 0 \in Datum
ASSUME UserHeapAssumption

VARIABLES
  heap_end,                \* 0 before the first malloc
  brk,                     \* the end of the heap's area
  memory,                  \* unit of the heap -> what it holds
  blocks                   \* what malloc returned: [ptr, size, value, known]; the
                           \* first known units were last written with value

uvars == <<heap_end, brk, memory, blocks>>

Unit == HeapBase .. HeapLimit - 1
Least(a, b) == IF a < b THEN a ELSE b

HeapInit ==
  /\ heap_end = 0 /\ brk = HeapBase /\ blocks = {}
  /\ memory = [u \in Unit |-> 0]

Total(size) == Header + ((size + Align - 1) \div Align) * Align

At == IF heap_end = 0 THEN brk ELSE heap_end   \* heap_init_if_needed
Fits(size) == At + Total(size) <= HeapLimit    \* else sys_brk says -ENOMEM

(* The header of the new block, in memory that holds m.                    *)
WithHeader(m, size) == [m EXCEPT ![At] = size]

ExtendHeap(size) == heap_end' = At + Total(size) /\ brk' = At + Total(size)
Refused == UNCHANGED <<brk, memory, blocks>> /\ heap_end' = At

Malloc(size) ==
  IF ~Fits(size) THEN Refused
  ELSE /\ ExtendHeap(size) /\ memory' = WithHeader(memory, size)
       /\ blocks' = blocks \cup {[ptr |-> At + Header, size |-> size, value |-> 0, known |-> 0]}

Refusal == Refused                             \* too few pages, another area in the way

Holding(m, ptr, n, value) == [u \in Unit |-> IF u \in ptr .. ptr + n - 1 THEN value ELSE m[u]]

Calloc(size) ==
  IF ~Fits(size) THEN Refused
  ELSE /\ ExtendHeap(size)
       /\ memory' = Holding(WithHeader(memory, size), At + Header, size, 0)
       /\ blocks' = blocks \cup {[ptr |-> At + Header, size |-> size, value |-> 0, known |-> size]}

CopiesOne(old, new) == 1                       \* fault: sizeof of the pointer
CopySize(old, new) == Least(old, new)

(* realloc: the old block stays where it is, but is no longer used.        *)
Realloc(b, size) ==
  IF ~Fits(size) THEN Refused
  ELSE LET n == CopySize(memory[b.ptr - Header], size)
           to == At + Header
       IN /\ ExtendHeap(size)
          /\ memory' = [u \in Unit |->
                          IF u \in to .. to + n - 1 THEN memory[b.ptr + (u - to)]
                          ELSE WithHeader(memory, size)[u]]
          /\ blocks' = (blocks \ {b})
                         \cup {[ptr |-> to, size |-> size, value |-> b.value,
                                known |-> Least(b.known, size)]}

Free(b) == blocks' = blocks \ {b} /\ UNCHANGED <<heap_end, brk, memory>>

Use(b, value) ==                               \* the program fills its block
  /\ memory' = Holding(memory, b.ptr, b.size, value)
  /\ blocks' = (blocks \ {b}) \cup {[b EXCEPT !.value = value, !.known = b.size]}
  /\ UNCHANGED <<heap_end, brk>>

HeapNext ==
  \/ \E size \in 1 .. MaxRequest : Malloc(size) \/ Calloc(size)
  \/ Refusal
  \/ \E b \in blocks : \/ Free(b)
                       \/ \E size \in 1 .. MaxRequest : Realloc(b, size)
                       \/ \E value \in Datum : Use(b, value)

HeapSpec == HeapInit /\ [][HeapNext]_uvars

-----------------------------------------------------------------------------
(* What a program wrote into a block stays there, whatever it allocates,   *)
(* fills and frees next to it, and realloc takes it along                  *)
(* (user_libc.c:101: the header makes realloc safe).                       *)
BlocksKeepData ==
  \A b \in blocks :
    /\ b.ptr - Header >= HeapBase /\ b.ptr + b.size <= brk
    /\ memory[b.ptr - Header] = b.size
    /\ \A u \in b.ptr .. b.ptr + b.known - 1 : memory[u] = b.value
=============================================================================
