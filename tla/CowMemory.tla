----------------------------- MODULE CowMemory -----------------------------
(***************************************************************************)
(* The user address spaces of the x86 kernel: demand paging and fork by    *)
(* copy on write (paging.c), the frames and their reference counts (pmm.c) *)
(* and mmap, munmap and mprotect (syscall.c), with the translations the    *)
(* TLB of the one CPU holds.  Every handler runs with interrupts off.      *)
(*                                                                         *)
(* A task that a fault kills (no area, no right, no memory) ends as in     *)
(* Exit.  Page tables and directories are not kept apart from the task:    *)
(* that they cannot be allocated is a failure that may always happen.      *)
(***************************************************************************)
EXTENDS Integers, FiniteSets, Family

CONSTANTS
  Task, Root,    \* PCB pages; the first task
  Page,          \* virtual user pages
  Frame,         \* physical pages
  Value, Zero,   \* what a page can hold; what a new page holds
  MaxRef,        \* pmm_refcounts saturate there (0xFFFF in pmm.c)
  UnmapsShared,  \* whether programs unmap pages that another task shares
  MaxSize,       \* bound: the number of tasks times that of pages in areas
  NULL

Rights == {{"r"}, {"r", "w"}}      \* VMA_READ, VMA_WRITE of an area
Entry == [frame : Frame, write : BOOLEAN, cow : BOOLEAN]

(* The pool of kernel stacks has room for less than 1024 tasks.            *)
ASSUME CowAssumption ==
  /\ IsFiniteSet(Task) /\ Root \in Task
  /\ Zero \in Value /\ NULL \notin Task \cup Frame \cup Value \cup Entry \cup Rights
  /\ MaxRef \in Nat /\ MaxRef >= Cardinality(Task)
  /\ UnmapsShared \in BOOLEAN /\ MaxSize \in Nat

VARIABLES
  live, parent, current,   \* the tasks; the one that owns the CPU, or NULL
  vma,                     \* the rights of the area a page is in, or NULL
  pte,                     \* the page table entry of a page that is present
  used, ref, content,      \* frames: bitmap, pmm_refcounts, what is in them
  tlb                      \* translations the CPU has cached for current

tasks == <<live, parent, current>>
frames == <<used, ref, content>>
vars == <<live, parent, current, vma, pte, used, ref, content, tlb>>

NoPages == [p \in Page |-> NULL]

Init ==
  /\ live = {Root} /\ parent = [t \in Task |-> NULL] /\ current = Root
  /\ vma = [t \in Task |-> NoPages] /\ pte = [t \in Task |-> NoPages]
  /\ used = {} /\ ref = [f \in Frame |-> 0] /\ content = [f \in Frame |-> Zero]
  /\ tlb = NoPages

(* invlpg of one page, and a load of CR3.                                  *)
StaleEntry(p) == tlb                          \* fault: invlpg forgotten
Invalidated(p) == [tlb EXCEPT ![p] = NULL]
Flushed == NoPages

Present(t, p) == pte[t][p] # NULL
Mappings(f) == {m \in Task \X Page : Present(m[1], m[2]) /\ pte[m[1]][m[2]].frame = f}

Mapped == {p \in Page : \E t \in live : vma[t][p] # NULL}
Fits(T, P) == Cardinality(T) * Cardinality(P) <= MaxSize

-----------------------------------------------------------------------------
(* sys_mmap, sys_munmap, sys_mprotect on one page of the current task.     *)
Mmap ==
  /\ \E p \in Page, r \in Rights :
       /\ vma[current][p] = NULL /\ Fits(live, Mapped \cup {p})
       /\ vma' = [vma EXCEPT ![current][p] = r]
  /\ UNCHANGED <<tasks, pte, frames, tlb>>

(* vmm_unmap_and_free_page_in_pd calls pmm_free_page, which frees the      *)
(* frame whatever its reference count is.                                  *)
Munmap ==
  /\ \E p \in Page :
       LET t == current
           f == pte[t][p].frame
       IN /\ vma[t][p] # NULL
          /\ vma' = [vma EXCEPT ![t][p] = NULL]
          /\ \/ /\ Present(t, p)
                /\ UnmapsShared \/ ref[f] = 1
                /\ used' = used \ {f} /\ ref' = [ref EXCEPT ![f] = 0]
                /\ pte' = [pte EXCEPT ![t][p] = NULL]
                /\ tlb' = Invalidated(p)
             \/ ~Present(t, p) /\ UNCHANGED <<used, ref, pte, tlb>>
  /\ UNCHANGED <<tasks, content>>

(* vmm_protect_page_in_pd: a page marked for copy on write stays marked    *)
(* and not writable.                                                       *)
LosesMark(e, r) == [e EXCEPT !.write = "w" \in r, !.cow = FALSE]  \* fault
Protected(e, r) == [e EXCEPT !.write = "w" \in r /\ ~e.cow]

Mprotect ==
  /\ \E p \in Page, r \in Rights :
       /\ vma[current][p] # NULL
       /\ vma' = [vma EXCEPT ![current][p] = r]
       /\ IF Present(current, p)
            THEN /\ pte' = [pte EXCEPT ![current][p] = Protected(@, r)]
                 /\ tlb' = Invalidated(p)
            ELSE UNCHANGED <<pte, tlb>>
  /\ UNCHANGED <<tasks, frames>>

-----------------------------------------------------------------------------
(* The CPU caches a translation, and uses it until it is invalidated.      *)
Cache ==
  /\ current # NULL
  /\ \E p \in Page :
       /\ Present(current, p)
       /\ tlb' = [tlb EXCEPT ![p] = pte[current][p]]
  /\ UNCHANGED <<tasks, vma, pte, frames>>

Write ==
  /\ \E p \in Page, v \in Value :
       /\ tlb[p] # NULL /\ tlb[p].write
       /\ content' = [content EXCEPT ![tlb[p].frame] = v]
  /\ UNCHANGED <<tasks, vma, pte, used, ref, tlb>>

(* page_fault_handler: a page that is not present is allocated and zeroed. *)
DemandPage ==
  /\ \E p \in Page, f \in Frame \ used :
       /\ current # NULL /\ vma[current][p] # NULL /\ ~Present(current, p)
       /\ used' = used \cup {f} /\ ref' = [ref EXCEPT ![f] = 1]
       /\ content' = [content EXCEPT ![f] = Zero]
       /\ pte' = [pte EXCEPT ![current][p] =
            [frame |-> f, write |-> "w" \in vma[current][p], cow |-> FALSE]]
       /\ tlb' = Invalidated(p)
  /\ UNCHANGED <<tasks, vma>>

(* vmm_handle_user_write_fault on a page that is present.  The last owner  *)
(* of a frame takes it over, any other gets a copy of a shared one.        *)
OneOtherOwner(f) == ref[f] <= 2               \* fault: off by one
LastOwner(f) == ref[f] <= 1

TakeOver(t, p) ==
  /\ ~pte[t][p].write /\ LastOwner(pte[t][p].frame)
  /\ pte' = [pte EXCEPT ![t][p].write = TRUE, ![t][p].cow = FALSE]
  /\ UNCHANGED frames

CopyPage(t, p) ==
  LET old == pte[t][p].frame
  IN /\ pte[t][p].cow /\ ~LastOwner(old)
     /\ \E f \in Frame \ used :
          /\ used' = used \cup {f}
          /\ ref' = [ref EXCEPT ![f] = 1, ![old] = @ - 1]
          /\ content' = [content EXCEPT ![f] = content[old]]
          /\ pte' = [pte EXCEPT ![t][p] = [frame |-> f, write |-> TRUE, cow |-> FALSE]]

StaleTranslation(t, p) ==
  /\ pte[t][p].write /\ tlb[p] # NULL /\ ~tlb[p].write
  /\ UNCHANGED <<pte, frames>>

WriteFault ==
  /\ current # NULL
  /\ \E p \in Page :
       /\ Present(current, p)
       /\ vma[current][p] # NULL /\ "w" \in vma[current][p]
       /\ TakeOver(current, p) \/ CopyPage(current, p) \/ StaleTranslation(current, p)
       /\ tlb' = Invalidated(p)
  /\ UNCHANGED <<tasks, vma>>

-----------------------------------------------------------------------------
(* vmm_clone_address_space: parent and child keep each page read-only and  *)
(* marked, and the parent's translations are flushed.                      *)
Shared(e) == IF e = NULL THEN NULL ELSE [e EXCEPT !.write = FALSE, !.cow = TRUE]
Uncounted(f) == ref[f]                        \* fault: a sharer is not counted
IncRef(f) == IF f \in {pte[current][p].frame : p \in {q \in Page : Present(current, q)}}
                /\ ref[f] < MaxRef THEN ref[f] + 1 ELSE ref[f]

Fork ==
  /\ current # NULL
  /\ \E c \in Task \ live :
       /\ Fits(live \cup {c}, Mapped)
       /\ live' = live \cup {c} /\ parent' = [parent EXCEPT ![c] = current]
       /\ vma' = [vma EXCEPT ![c] = vma[current]]
       /\ LET shared == [p \in Page |-> Shared(pte[current][p])]
          IN pte' = [pte EXCEPT ![current] = shared, ![c] = shared]
  /\ ref' = [f \in Frame |-> IncRef(f)]
  /\ tlb' = Flushed
  /\ UNCHANGED <<current, used, content>>

(* Memory for a page table runs out half way: the child is destroyed and   *)
(* the pages already shared stay marked.  The TLB is not flushed.          *)
ForkFails ==
  /\ current # NULL
  /\ \E S \in SUBSET Page :
       pte' = [pte EXCEPT ![current] =
         [p \in Page |-> IF p \in S THEN Shared(pte[current][p]) ELSE pte[current][p]]]
  /\ UNCHANGED <<tasks, vma, frames, tlb>>

(* The death of a task and of its subtree: vmm_destroy_address_space drops *)
(* one reference per page.                                                 *)
Dropped(f, D) == Cardinality({m \in Mappings(f) : m[1] \in D})

Exit ==
  LET D == Subtree(current, live, parent)
  IN /\ current # NULL
     /\ live' = live \ D /\ current' = NULL
     /\ parent' = [t \in Task |-> IF t \in D THEN NULL ELSE parent[t]]
     /\ vma' = [t \in Task |-> IF t \in D THEN NoPages ELSE vma[t]]
     /\ pte' = [t \in Task |-> IF t \in D THEN NoPages ELSE pte[t]]
     /\ ref' = [f \in Frame |-> ref[f] - Dropped(f, D)]
     /\ used' = {f \in used : Dropped(f, D) = 0 \/ ref[f] > Dropped(f, D)}
     /\ tlb' = Flushed
     /\ UNCHANGED content

(* schedule(): CR3 is loaded for the next task.                            *)
Switch ==
  /\ \E t \in live : t # current /\ current' = t
  /\ tlb' = Flushed
  /\ UNCHANGED <<live, parent, vma, pte, frames>>

-----------------------------------------------------------------------------
Next ==
  \/ current # NULL /\ (Mmap \/ Munmap \/ Mprotect)
  \/ Cache \/ Write \/ DemandPage \/ WriteFault \/ Fork \/ ForkFails \/ Exit \/ Switch

Spec == Init /\ [][Next]_vars

-----------------------------------------------------------------------------
(* Pages, frames and counts keep their types, the count within MaxRef.     *)
MTypeOK ==
  /\ live \in SUBSET Task /\ parent \in [Task -> Task \cup {NULL}]
  /\ current \in Task \cup {NULL}
  /\ vma \in [Task -> [Page -> Rights \cup {NULL}]]
  /\ pte \in [Task -> [Page -> Entry \cup {NULL}]]
  /\ used \in SUBSET Frame /\ ref \in [Frame -> 0..MaxRef]
  /\ content \in [Frame -> Value] /\ tlb \in [Page -> Entry \cup {NULL}]

(* Through fork, its failure, write faults and deaths in any order the      *)
(* reference count of a frame is the number of page table entries that map *)
(* it, so that it is freed neither early nor never.                        *)
RefCountsAreMappings ==
  \A f \in Frame : /\ ref[f] = Cardinality(Mappings(f))
                   /\ f \in used <=> ref[f] > 0

(* What pmm.c and paging.c keep count of: who shares which frame.          *)
SharingIsCounted == MTypeOK /\ RefCountsAreMappings

(* Whoever can write to a frame, by its page table or by what the TLB still *)
(* holds, is the only one who has it.                                      *)
WritableIsPrivate ==
  /\ \A t \in Task, p \in Page :
       Present(t, p) /\ pte[t][p].write => Mappings(pte[t][p].frame) = {<<t, p>>}
  /\ \A p \in Page :
       tlb[p] # NULL /\ tlb[p].write => Mappings(tlb[p].frame) = {<<current, p>>}

(* A cached translation never leads to another frame than the page table:  *)
(* after copying, unmapping or a switch nothing uses the old one.          *)
TlbFollowsPageTable ==
  \A p \in Page : tlb[p] # NULL =>
    Present(current, p) /\ pte[current][p].frame = tlb[p].frame

(* A task sees its own memory: what it wrote or inherited, nothing else.   *)
Private == INSTANCE PrivateMemory
             WITH None <- NULL, owner <- live,
                  memory <- [t \in Task |-> [p \in Page |->
                    IF Present(t, p) THEN content[pte[t][p].frame]
                    ELSE IF vma[t][p] = NULL THEN NULL ELSE Zero]]

Isolation == Private!PSpec

(* What the repository says of the program and the code does not do: a     *)
(* frame is freed "only when refcount == 0", so none is freed that another *)
(* task still maps.                                                        *)
FreedFramesAreUnmapped == \A f \in Frame \ used : Mappings(f) = {}
=============================================================================
