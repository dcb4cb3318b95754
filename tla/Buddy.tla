------------------------------- MODULE Buddy -------------------------------
(***************************************************************************)
(* The kernel heap (heap.c): a buddy system over 2^MaxOrder pages kept as  *)
(* an implicit binary tree.  Node n has the children 2n and 2n + 1; its    *)
(* state says whether its run of pages is one free block, one allocated    *)
(* block, split, or part of a larger block.                                *)
(*                                                                         *)
(* kmalloc edits the tree with interrupts off, restores the interrupt flag *)
(* and then writes the header of the block: a thread that was called with  *)
(* interrupts on (sys_open after its sti) can lose the CPU in between.     *)
(* kfree takes all it knows of a block from the header.  Programs do not   *)
(* write to headers; the header of a page that holds data is no header.    *)
(***************************************************************************)
EXTENDS Integers, FiniteSets

CONSTANTS
  MaxOrder,      \* MAX_ORDER (15)
  Thread,        \* kernel threads that allocate
  NoBlock

(* What a power of two is the provers do not know.                         *)
ASSUME BuddyAssumption ==
  /\ MaxOrder \in Nat /\ NoBlock \notin Nat
  /\ 2^0 = 1 /\ \A o \in 0 .. MaxOrder : 2^(o + 1) = 2 * 2^o

VARIABLES
  tree,          \* node -> "UNUSED", "FREE", "ALLOC" or "SPLIT"
  header,        \* page -> order in a BlockHeader with a valid magic, or NoBlock
  writing,       \* thread -> the node whose header it has yet to write, or NoBlock
  refused,       \* the order that the last kmalloc was refused, or NoBlock
  balance        \* heap_total_allocs - heap_total_frees

bvars == <<tree, header, writing, refused, balance>>

HeapPage == 0 .. 2^MaxOrder - 1
Order == 0 .. MaxOrder
Node == 1 .. 2^(MaxOrder + 1) - 1

get_depth == [n \in Node |-> CHOOSE d \in Order : 2^d <= n /\ n < 2^(d + 1)]
OrderOf(n) == MaxOrder - get_depth[n]
FirstPage(n) == (n - 2^get_depth[n]) * 2^OrderOf(n)
NodeAt(p, o) == 2^(MaxOrder - o) + (p \div 2^o)
Up(n, h) == n \div 2^h
Sibling(n) == IF n % 2 = 0 THEN n + 1 ELSE n - 1

BuddyInit ==
  /\ tree = [n \in Node |-> IF n = 1 THEN "FREE" ELSE "UNUSED"]
  /\ header = [p \in HeapPage |-> NoBlock] /\ writing = [t \in Thread |-> NoBlock]
  /\ refused = NoBlock /\ balance = 0

-----------------------------------------------------------------------------
(* Search from the left, no deeper than the order asked for; 0 is "none".  *)
LeftOnly(left, right) == left                 \* fault: right subtree not searched
LeftOrRight(left, right) == IF left # 0 THEN left ELSE right

find_free(o) ==
  LET f[n \in Node] ==
        IF tree[n] = "FREE" THEN n
        ELSE IF tree[n] = "SPLIT" /\ OrderOf(n) > o
             THEN LeftOrRight(f[2 * n], f[2 * n + 1])
        ELSE 0
  IN f[1]

HalfLost(n, o) ==                             \* fault: the right halves are not freed
  LET d == OrderOf(n) - o IN
  [m \in Node |->
     IF m = n * 2^d THEN "ALLOC"
     ELSE IF \E k \in 0 .. d - 1 : m = n * 2^k THEN "SPLIT" ELSE tree[m]]

(* Split n down to order o; the block is the leftmost descendant.          *)
SplitTo(n, o) ==
  LET d == OrderOf(n) - o IN
  [m \in Node |->
     IF m = n * 2^d THEN "ALLOC"
     ELSE IF \E k \in 0 .. d - 1 : m = n * 2^k THEN "SPLIT"
     ELSE IF \E k \in 1 .. d : m = n * 2^k + 1 THEN "FREE"
     ELSE tree[m]]

OrderFor(pages) ==                            \* MaxOrder + 1 if it does not fit
  CHOOSE o \in 0 .. MaxOrder + 1 : pages <= 2^o /\ (o > 0 => pages > 2^(o - 1))

Kmalloc(t, pages) ==                          \* pages include the header
  /\ writing[t] = NoBlock
  /\ LET o == OrderFor(pages)
         n == IF o \in Order THEN find_free(o) ELSE 0
     IN IF n = 0 THEN refused' = o /\ UNCHANGED <<tree, writing, balance>>
        ELSE LET block == n * 2^(OrderOf(n) - o)
             IN /\ tree' = SplitTo(n, o)
                /\ writing' = [writing EXCEPT ![t] = block]
                /\ refused' = NoBlock
                /\ balance' = balance + 1
  /\ UNCHANGED header

HeaderOf(n) == OrderOf(n)
WriteHeader(t) ==
  /\ writing[t] # NoBlock
  /\ header' = [header EXCEPT ![FirstPage(writing[t])] = HeaderOf(writing[t])]
  /\ writing' = [writing EXCEPT ![t] = NoBlock]
  /\ UNCHANGED <<tree, refused, balance>>

(* Free n and merge it with free siblings, upwards until one is not free.  *)
Merges(n, h) == h \in 0 .. get_depth[n]

FreedAndMerged(n) ==
  LET Free(h) == Merges(n, h) /\ \A k \in 0 .. h - 1 : tree[Sibling(Up(n, k))] = "FREE"
      top == CHOOSE h \in 0 .. get_depth[n] : Free(h) /\ ~Free(h + 1)
  IN [m \in Node |->
        IF m = Up(n, top) THEN "FREE"
        ELSE IF \E k \in 0 .. top - 1 : m \in {Up(n, k), Sibling(Up(n, k))} THEN "UNUSED"
        ELSE tree[m]]

Rejected == UNCHANGED bvars

Unmagic(p) == [header EXCEPT ![p] = NoBlock]

(* kfree of a pointer handed out now or earlier: one without a valid magic *)
(* is rejected.                                                            *)
Kfree(p) ==
  IF header[p] = NoBlock THEN Rejected
  ELSE /\ tree' = FreedAndMerged(NodeAt(p, header[p]))
       /\ header' = Unmagic(p)
       /\ balance' = balance - 1
       /\ UNCHANGED <<writing, refused>>

BuddyNext ==
  \/ \E t \in Thread :
       WriteHeader(t) \/ \E pages \in 1 .. 2^MaxOrder + 1 : Kmalloc(t, pages)
  \/ \E p \in HeapPage : Kfree(p)

BuddySpec == BuddyInit /\ [][BuddyNext]_bvars

-----------------------------------------------------------------------------
Blocks(s) == {n \in Node : tree[n] = s}
PagesOf(n) == FirstPage(n) .. FirstPage(n) + 2^OrderOf(n) - 1
Pending == {n \in Node : \E t \in Thread : writing[t] = n}

(* The accounting never goes below zero or above the number of pages.      *)
BTypeOK ==
  /\ tree \in [Node -> {"UNUSED", "FREE", "ALLOC", "SPLIT"}]
  /\ header \in [HeapPage -> Order \cup {NoBlock}]
  /\ writing \in [Thread -> Node \cup {NoBlock}]
  /\ refused \in 0 .. MaxOrder + 1 \cup {NoBlock} /\ balance \in 0 .. 2^MaxOrder

(* Every page is in exactly one block, free or allocated, and the split    *)
(* nodes are those above a block: no page is lost or handed out twice,     *)
(* whatever the order of allocations and frees.                            *)
BlocksPartitionHeap ==
  /\ \A p \in HeapPage : \E n \in Blocks("FREE") \cup Blocks("ALLOC") :
       /\ p \in PagesOf(n)
       /\ \A m \in Blocks("FREE") \cup Blocks("ALLOC") : p \in PagesOf(m) => m = n
  /\ \A n \in Node : tree[n] = "SPLIT" <=>
       \E m \in Blocks("FREE") \cup Blocks("ALLOC"), h \in 1 .. MaxOrder : Up(m, h) = n

(* Free siblings do not stay side by side (merging goes on to the top): an *)
(* empty heap is one block again.                                          *)
FreeSiblingsMerge == \A n \in Blocks("FREE") : n > 1 => tree[Sibling(n)] # "FREE"

(* A valid header is that of an allocated block and tells its size; only a *)
(* block whose kmalloc has not returned has none.  So kfree, which reads   *)
(* the header before it turns interrupts off, frees the block it was given *)
(* and rejects a pointer that was freed.                                   *)
HeadersTellBlocks ==
  /\ \A p \in HeapPage : header[p] # NoBlock => tree[NodeAt(p, header[p])] = "ALLOC"
  /\ \A n \in Blocks("ALLOC") : header[FirstPage(n)] = IF n \in Pending THEN NoBlock ELSE OrderOf(n)
  /\ Pending \subseteq Blocks("ALLOC")
  /\ \A t, u \in Thread : writing[t] = writing[u] /\ writing[t] # NoBlock => t = u

(* heap_check_balance() is the number of blocks in use.                    *)
BalanceCountsBlocks == balance = Cardinality(Blocks("ALLOC"))

(* The heap keeps the promise of Allocator: blocks do not overlap, and     *)
(* kmalloc fails only if no aligned run of the size is free.               *)
Promise == INSTANCE Allocator WITH NULL <- NoBlock,
  blocks <- {<<FirstPage(n), OrderOf(n)>> : n \in Blocks("ALLOC")}
AllocatesWhatIsFree == Promise!Spec

(* The tree of heap.c is a partition of the heap that is merged as far as  *)
(* it goes, and the headers that kfree trusts and the count that           *)
(* heap_check_balance returns agree with it, also while a kmalloc that was *)
(* preempted has yet to write its header.                                  *)
HeapIsSound ==
  BTypeOK /\ BlocksPartitionHeap /\ FreeSiblingsMerge /\ HeadersTellBlocks /\ BalanceCountsBlocks
============================================================================
