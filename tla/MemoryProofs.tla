---------------------------- MODULE MemoryProofs ----------------------------
(***************************************************************************)
(* Theorems about the memory of the machine: the frames that programs      *)
(* share until one writes (CowMemory), the frames that there are           *)
(* (PageFrames), and the programs that are brought into them (Loader).     *)
(***************************************************************************)
EXTENDS CowMemory, PageFrames, Loader, FiniteSetTheorems, NaturalsInduction, TLAPS

-----------------------------------------------------------------------------
(***************************************************************************)
(* CowMemory, for any number of tasks, pages and frames: the               *)
(* counts of copy on write are right, what can be written is not shared,   *)
(* the TLB does not lag behind the page table, and so every task has its   *)
(* own memory.  They are said of programs that unmap no page that another  *)
(* task shares (~UnmapsShared; see FreedFramesAreUnmapped for the others). *)
(***************************************************************************)

(* Pages are mapped for tasks that live, in areas; a task has a frame at   *)
(* one page only.                                                          *)
TablesFollowAreas ==
  /\ current # NULL => current \in live
  /\ current = NULL => tlb = NoPages
  /\ \A t \in Task, p \in Page : Present(t, p) => t \in live /\ vma[t][p] # NULL
  /\ \A t \in Task \ live : vma[t] = NoPages

FramesOnce ==
  \A t \in Task, p, q \in Page :
    Present(t, p) /\ Present(t, q) /\ pte[t][p].frame = pte[t][q].frame => p = q

(* A page without the mark for copy on write is not shared; one that can   *)
(* be written to has no mark.                                              *)
SharedIsMarked ==
  \A t \in Task, p \in Page : Present(t, p) =>
    /\ ~pte[t][p].cow => Mappings(pte[t][p].frame) = {<<t, p>>}
    /\ pte[t][p].write => ~pte[t][p].cow

CachedIsPrivate ==
  \A p \in Page : tlb[p] # NULL /\ tlb[p].write => Mappings(tlb[p].frame) = {<<current, p>>}

Counted ==
  \A f \in Frame : /\ IsFiniteSet(Mappings(f)) /\ ref[f] = Cardinality(Mappings(f))
                   /\ f \in used <=> ref[f] > 0

CowInv ==
  /\ MTypeOK /\ TablesFollowAreas /\ FramesOnce /\ SharedIsMarked
  /\ CachedIsPrivate /\ TlbFollowsPageTable /\ Counted

-----------------------------------------------------------------------------
(* Who maps a frame.                                                       *)
LEMMA Mapped1 ==
  \A f, t, p : <<t, p>> \in Mappings(f) <=>
    t \in Task /\ p \in Page /\ Present(t, p) /\ pte[t][p].frame = f
  BY DEF Mappings

(* An entry of the page table that is present.                             *)
LEMMA EntryFacts ==
  ASSUME CowInv, NEW t \in Task, NEW p \in Page, Present(t, p)
  PROVE  /\ pte[t][p] \in Entry /\ pte[t][p].frame \in Frame
         /\ <<t, p>> \in Mappings(pte[t][p].frame)
         /\ ref[pte[t][p].frame] > 0 /\ pte[t][p].frame \in used
  <1>1. pte[t][p] \in Entry
    BY DEF CowInv, MTypeOK, Present
  <1>2. pte[t][p].frame \in Frame
    BY <1>1 DEF Entry
  <1>3. <<t, p>> \in Mappings(pte[t][p].frame)
    BY Mapped1
  <1>4. Cardinality(Mappings(pte[t][p].frame)) # 0
    BY <1>2, <1>3, FS_EmptySet DEF CowInv, Counted
  <1> QED BY <1>1, <1>2, <1>3, <1>4 DEF CowInv, Counted, MTypeOK

(* A frame that is free is mapped nowhere; a frame with one reference is   *)
(* mapped where it is seen.                                                *)
LEMMA FreeIsUnmapped ==
  ASSUME CowInv, NEW f \in Frame, f \notin used PROVE ref[f] = 0 /\ Mappings(f) = {}
  <1>1. ref[f] = 0
    BY DEF CowInv, Counted, MTypeOK
  <1> QED BY <1>1, FS_EmptySet DEF CowInv, Counted

(* A frame with one reference is mapped by whoever maps it.                *)
LEMMA OneReference ==
  ASSUME CowInv, NEW t \in Task, NEW p \in Page, Present(t, p), ref[pte[t][p].frame] <= 1
  PROVE  ref[pte[t][p].frame] = 1 /\ Mappings(pte[t][p].frame) = {<<t, p>>}
  <1> DEFINE f == pte[t][p].frame
  <1>1. f \in Frame /\ <<t, p>> \in Mappings(f) /\ ref[f] > 0
    BY EntryFacts
  <1>2. ref[f] = 1
    BY <1>1 DEF CowInv, MTypeOK
  <1>3. \E x : Mappings(f) = {x}
    BY <1>1, <1>2, FS_Singleton DEF CowInv, Counted
  <1> QED BY <1>1, <1>2, <1>3

-----------------------------------------------------------------------------
(* What is left of the invariant when the frames that pages are mapped to, *)
(* the tasks and the counts stay the same, as in mprotect, in a write      *)
(* fault that copies nothing, and in a fork that fails.                    *)
SameFrames ==
  /\ pte' \in [Task -> [Page -> Entry \cup {NULL}]]
  /\ \A t \in Task, p \in Page : (pte'[t][p] = NULL) <=> (pte[t][p] = NULL)
  /\ \A t \in Task, p \in Page : Present(t, p) => pte'[t][p].frame = pte[t][p].frame

(* Steps that move no frame change no mapping.                             *)
LEMMA SameMappings == ASSUME SameFrames PROVE \A f : Mappings(f)' = Mappings(f)
  <1> TAKE f
  <1>1. ASSUME NEW m \in Task \X Page PROVE m \in Mappings(f)' <=> m \in Mappings(f)
    BY DEF SameFrames, Mappings, Present
  <1> QED BY <1>1 DEF Mappings

(* Steps that only take rights away keep the counts.                       *)
LEMMA RemarkKeeps ==
  ASSUME CowInv, SameFrames, UNCHANGED <<tasks, frames>>,
         vma' \in [Task -> [Page -> Rights \cup {NULL}]],
         \A t \in Task, p \in Page : (vma'[t][p] = NULL) <=> (vma[t][p] = NULL),
         \A t \in Task \ live : vma'[t] = vma[t],
         tlb' \in [Page -> Entry \cup {NULL}],
         \A p \in Page : tlb'[p] # NULL => tlb'[p] = tlb[p],
         current = NULL => tlb' = NoPages,
         SharedIsMarked'
  PROVE  CowInv'
  <1>1. \A f : Mappings(f)' = Mappings(f)
    BY SameMappings
  <1>2. MTypeOK'
    BY DEF CowInv, MTypeOK, SameFrames, tasks, frames
  <1>3. TablesFollowAreas'
    BY DEF CowInv, TablesFollowAreas, SameFrames, tasks, Present
  <1>4. FramesOnce'
    BY DEF CowInv, FramesOnce, SameFrames, Present
  <1>5. CachedIsPrivate'
    BY <1>1 DEF CowInv, CachedIsPrivate, tasks
  <1>6. TlbFollowsPageTable'
    <2> SUFFICES ASSUME NEW p \in Page, tlb'[p] # NULL
                 PROVE  Present(current, p)' /\ pte'[current][p].frame = tlb'[p].frame
      BY DEF TlbFollowsPageTable, tasks
    <2>1. tlb'[p] = tlb[p] /\ tlb[p] # NULL
      OBVIOUS
    <2>2. current \in Task
      BY DEF CowInv, MTypeOK, NoPages
    <2> QED BY <2>1, <2>2 DEF CowInv, TlbFollowsPageTable, SameFrames, Present, tasks
  <1>7. Counted'
    BY <1>1 DEF CowInv, Counted, frames
  <1> QED BY <1>2, <1>3, <1>4, <1>5, <1>6, <1>7 DEF CowInv

-----------------------------------------------------------------------------
(* The first state satisfies the invariant.                                *)
LEMMA CowInit == Init => CowInv
  <1> SUFFICES ASSUME Init PROVE CowInv
    OBVIOUS
  <1>1. MTypeOK
    BY CowAssumption DEF Init, MTypeOK, NoPages
  <1>2. \A t, p : t \in Task /\ p \in Page => ~Present(t, p)
    BY DEF Init, Present, NoPages
  <1>3. \A f : Mappings(f) = {}
    BY <1>2 DEF Mappings
  <1>4. Counted
    BY <1>3, FS_EmptySet DEF Counted, Init
  <1> QED BY <1>1, <1>2, <1>4, CowAssumption
          DEF CowInv, TablesFollowAreas, FramesOnce, SharedIsMarked, CachedIsPrivate,
              TlbFollowsPageTable, Init, NoPages

(* mmap maps no frame yet.                                                 *)
LEMMA MmapKeeps == ASSUME CowInv, current # NULL, Mmap PROVE CowInv'
  <1>1. PICK p \in Page, r \in Rights :
          vma[current][p] = NULL /\ vma' = [vma EXCEPT ![current][p] = r]
    BY DEF Mmap
  <1>2. UNCHANGED <<live, parent, current, pte, used, ref, content, tlb>>
    BY DEF Mmap, tasks, frames
  <1>3. current \in live /\ current \in Task
    BY DEF CowInv, TablesFollowAreas, MTypeOK
  <1>4. vma' \in [Task -> [Page -> Rights \cup {NULL}]]
    BY <1>1, <1>3 DEF CowInv, MTypeOK
  <1>5. \A f : Mappings(f)' = Mappings(f)
    BY <1>2 DEF Mappings, Present
  <1>6. TablesFollowAreas'
    BY <1>1, <1>2, <1>3, CowAssumption DEF CowInv, MTypeOK, TablesFollowAreas, Present
  <1> QED BY <1>2, <1>4, <1>5, <1>6
          DEF CowInv, MTypeOK, FramesOnce, SharedIsMarked, CachedIsPrivate,
              TlbFollowsPageTable, Counted, Present

(* munmap of a page that is not shared: its frame has no other owner.      *)
LEMMA MunmapKeeps ==
  ASSUME CowInv, ~UnmapsShared, current # NULL, Munmap PROVE CowInv'
  <1>1. UNCHANGED <<live, parent, current, content>> /\ current \in live /\ current \in Task
    BY DEF Munmap, tasks, CowInv, TablesFollowAreas, MTypeOK
  <1>2. PICK p \in Page :
          /\ vma[current][p] # NULL
          /\ vma' = [vma EXCEPT ![current][p] = NULL]
          /\ \/ /\ Present(current, p) /\ ref[pte[current][p].frame] = 1
                /\ used' = used \ {pte[current][p].frame}
                /\ ref' = [ref EXCEPT ![pte[current][p].frame] = 0]
                /\ pte' = [pte EXCEPT ![current][p] = NULL]
                /\ tlb' = [tlb EXCEPT ![p] = NULL]
             \/ ~Present(current, p) /\ UNCHANGED <<used, ref, pte, tlb>>
    BY DEF Munmap, Invalidated
  <1>3. vma' \in [Task -> [Page -> Rights \cup {NULL}]]
    BY <1>1, <1>2 DEF CowInv, MTypeOK
  <1>4. \A t \in Task, q \in Page : vma'[t][q] = IF t = current /\ q = p THEN NULL ELSE vma[t][q]
    BY <1>1, <1>2 DEF CowInv, MTypeOK
  <1>a. \A t \in Task \ live : vma'[t] = NoPages
    BY <1>1, <1>2 DEF CowInv, TablesFollowAreas, MTypeOK
  <1>5. CASE ~Present(current, p) /\ UNCHANGED <<used, ref, pte, tlb>>
    <2>1. \A f : Mappings(f)' = Mappings(f)
      BY <1>5 DEF Mappings, Present
    <2>2. TablesFollowAreas'
      BY <1>1, <1>4, <1>a, <1>5 DEF CowInv, TablesFollowAreas, Present
    <2> QED BY <1>1, <1>3, <1>5, <2>1, <2>2
            DEF CowInv, MTypeOK, FramesOnce, SharedIsMarked, CachedIsPrivate,
                TlbFollowsPageTable, Counted, Present
  <1>6. CASE Present(current, p) /\ UNCHANGED <<>>
    <2>0. pte[current][p].frame \in Frame
      BY <1>1, <1>6, EntryFacts
    <2> PICK f \in Frame : f = pte[current][p].frame
      BY <2>0
    <2>1. /\ ref[f] = 1 /\ used' = used \ {f} /\ ref' = [ref EXCEPT ![f] = 0]
          /\ pte' = [pte EXCEPT ![current][p] = NULL] /\ tlb' = [tlb EXCEPT ![p] = NULL]
      BY <1>2, <1>6
    <2>r. ref[pte[current][p].frame] <= 1
      BY <2>1
    <2>2. Mappings(f) = {<<current, p>>}
      BY <1>1, <1>6, <2>r, OneReference
    <2>3. /\ pte' \in [Task -> [Page -> Entry \cup {NULL}]]
          /\ tlb' \in [Page -> Entry \cup {NULL}]
      BY <1>1, <2>1 DEF CowInv, MTypeOK
    <2>4. \A t \in Task, q \in Page : pte'[t][q] = IF t = current /\ q = p THEN NULL ELSE pte[t][q]
      BY <1>1, <2>1 DEF CowInv, MTypeOK
    <2>5. \A q \in Page : tlb'[q] = IF q = p THEN NULL ELSE tlb[q]
      BY <2>1 DEF CowInv, MTypeOK
    <2>6. \A g : Mappings(g)' = Mappings(g) \ {<<current, p>>}
      <3> TAKE g
      <3>1. ASSUME NEW t \in Task, NEW q \in Page
            PROVE <<t, q>> \in Mappings(g)' <=> <<t, q>> \in Mappings(g) /\ ~(t = current /\ q = p)
        BY <2>4, <3>1 DEF Mappings, Present
      <3> QED BY <3>1 DEF Mappings
    <2>7. \A g : g # f => Mappings(g)' = Mappings(g)
      <3> TAKE g
      <3> HAVE g # f
      <3>1. <<current, p>> \notin Mappings(g)
        BY Mapped1
      <3> QED BY <2>6, <3>1
    <2>8. Mappings(f)' = {}
      BY <2>2, <2>6
    <2>9. Counted'
      <3> SUFFICES ASSUME NEW g \in Frame
                   PROVE  /\ IsFiniteSet(Mappings(g))' /\ ref'[g] = Cardinality(Mappings(g))'
                          /\ g \in used' <=> ref'[g] > 0
        BY DEF Counted
      <3>1. CASE g = f
        <4>1. Mappings(g)' = {} /\ ref'[g] = 0 /\ g \notin used'
          BY <2>1, <2>8, <3>1 DEF CowInv, MTypeOK
        <4> QED BY <4>1, FS_EmptySet
      <3>2. CASE g # f
        BY <2>1, <2>2, <2>7, <3>2 DEF CowInv, MTypeOK, Counted
      <3> QED BY <3>1, <3>2
    <2>10. MTypeOK'
      BY <1>1, <1>3, <2>1, <2>2, <2>3, CowAssumption DEF CowInv, MTypeOK
    <2>11. TablesFollowAreas' /\ FramesOnce'
      BY <1>1, <1>2, <1>4, <1>a, <2>4, <2>5 DEF CowInv, TablesFollowAreas, FramesOnce, Present
    <2>12. \A t \in Task, q \in Page : Present(t, q)' =>
             pte'[t][q] = pte[t][q] /\ Present(t, q) /\ pte[t][q].frame # f
      <3> TAKE t \in Task, q \in Page
      <3> HAVE Present(t, q)'
      <3>1. pte'[t][q] = pte[t][q] /\ Present(t, q) /\ ~(t = current /\ q = p)
        BY <2>4 DEF Present
      <3>2. <<t, q>> \notin Mappings(f)
        BY <2>2, <3>1
      <3> QED BY <3>1, <3>2, Mapped1
    <2>13. SharedIsMarked'
      BY <2>7, <2>12 DEF CowInv, SharedIsMarked
    <2>14. \A q \in Page : tlb'[q] # NULL =>
             tlb'[q] = tlb[q] /\ Present(current, q) /\ pte[current][q].frame = tlb[q].frame /\ q # p
      BY <2>5 DEF CowInv, TlbFollowsPageTable
    <2>15. \A q \in Page : tlb'[q] # NULL => tlb[q].frame # f
      BY <1>1, <1>6, <2>14 DEF CowInv, FramesOnce
    <2>16. CachedIsPrivate' /\ TlbFollowsPageTable'
      BY <1>1, <2>4, <2>7, <2>14, <2>15 DEF CowInv, CachedIsPrivate, TlbFollowsPageTable, Present
    <2> QED BY <2>9, <2>10, <2>11, <2>13, <2>16 DEF CowInv
  <1> QED BY <1>5, <1>6, <1>2

(* mprotect never makes a page writable that is marked.                    *)
LEMMA MprotectKeeps == ASSUME CowInv, current # NULL, Mprotect PROVE CowInv'
  <1>1. UNCHANGED <<tasks, frames>> /\ current \in Task /\ current \in live
    BY DEF Mprotect, CowInv, MTypeOK, TablesFollowAreas
  <1>2. PICK p \in Page, r \in Rights :
          /\ vma[current][p] # NULL
          /\ vma' = [vma EXCEPT ![current][p] = r]
          /\ IF Present(current, p)
               THEN /\ pte' = [pte EXCEPT ![current][p] = Protected(@, r)]
                    /\ tlb' = [tlb EXCEPT ![p] = NULL]
               ELSE UNCHANGED <<pte, tlb>>
    BY DEF Mprotect, Invalidated
  <1>3. /\ vma' \in [Task -> [Page -> Rights \cup {NULL}]]
        /\ \A t \in Task, q \in Page : (vma'[t][q] = NULL) <=> (vma[t][q] = NULL)
        /\ \A t \in Task \ live : vma'[t] = vma[t]
    BY <1>1, <1>2, CowAssumption DEF CowInv, MTypeOK
  <1>4. \A t \in Task, q \in Page :
          \/ pte'[t][q] = pte[t][q]
          \/ /\ Present(t, q) /\ pte'[t][q] \in Entry /\ pte'[t][q].frame = pte[t][q].frame
             /\ pte'[t][q].cow = pte[t][q].cow /\ (pte'[t][q].write => ~pte[t][q].cow)
    <2>1. CASE Present(current, p)
      <3>1. pte[current][p] \in Entry
        BY <1>1, <2>1, EntryFacts
      <3>2. /\ Protected(pte[current][p], r) \in Entry
            /\ Protected(pte[current][p], r).frame = pte[current][p].frame
            /\ Protected(pte[current][p], r).cow = pte[current][p].cow
            /\ Protected(pte[current][p], r).write => ~pte[current][p].cow
        BY <3>1 DEF Protected, Entry
      <3> QED BY <1>1, <1>2, <2>1, <3>2 DEF CowInv, MTypeOK
    <2> QED BY <1>2, <2>1
  <1>5. /\ pte' \in [Task -> [Page -> Entry \cup {NULL}]]
        /\ tlb' \in [Page -> Entry \cup {NULL}]
        /\ \A q \in Page : tlb'[q] # NULL => tlb'[q] = tlb[q]
    <2>1. CASE Present(current, p)
      <3>1. Protected(pte[current][p], r) \in Entry
        BY <1>1, <2>1, EntryFacts DEF Protected, Entry
      <3>2. pte' = [pte EXCEPT ![current] = [pte[current] EXCEPT ![p] = Protected(pte[current][p], r)]]
            /\ tlb' = [tlb EXCEPT ![p] = NULL]
        BY <1>1, <1>2, <2>1 DEF CowInv, MTypeOK
      <3>3. [pte[current] EXCEPT ![p] = Protected(pte[current][p], r)] \in [Page -> Entry \cup {NULL}]
        BY <1>1, <3>1 DEF CowInv, MTypeOK
      <3>4. pte' \in [Task -> [Page -> Entry \cup {NULL}]]
        BY <1>1, <3>2, <3>3 DEF CowInv, MTypeOK
      <3> QED BY <3>2, <3>4 DEF CowInv, MTypeOK
    <2> QED BY <1>2, <2>1 DEF CowInv, MTypeOK
  <1>6. SameFrames
    BY <1>4, <1>5, CowAssumption DEF SameFrames, Present
  <1>7. SharedIsMarked'
    BY <1>4, <1>6, SameMappings DEF SharedIsMarked, CowInv, Present
  <1> QED BY <1>1, <1>3, <1>5, <1>6, <1>7, RemarkKeeps

(* What the CPU caches is what the page table says.                        *)
LEMMA CacheKeeps == ASSUME CowInv, Cache PROVE CowInv'
  <1>1. UNCHANGED <<live, parent, current, vma, pte, used, ref, content>> /\ current # NULL
    BY DEF Cache, tasks, frames
  <1>2. PICK p \in Page : Present(current, p) /\ tlb' = [tlb EXCEPT ![p] = pte[current][p]]
    BY DEF Cache
  <1>3. current \in Task /\ pte[current][p] \in Entry
    BY <1>1, <1>2, EntryFacts DEF CowInv, MTypeOK
  <1>4. \A f : Mappings(f)' = Mappings(f)
    BY <1>1 DEF Mappings, Present
  <1>5. pte[current][p].write => Mappings(pte[current][p].frame) = {<<current, p>>}
    BY <1>2, <1>3 DEF CowInv, SharedIsMarked
  <1>6. \A q \in Page : tlb'[q] = IF q = p THEN pte[current][p] ELSE tlb[q]
    BY <1>2 DEF CowInv, MTypeOK
  <1>7. CachedIsPrivate'
    BY <1>1, <1>4, <1>5, <1>6 DEF CowInv, CachedIsPrivate
  <1>8. TlbFollowsPageTable'
    BY <1>1, <1>2, <1>6 DEF CowInv, TlbFollowsPageTable, Present
  <1>9. MTypeOK'
    BY <1>1, <1>2, <1>3 DEF CowInv, MTypeOK
  <1> QED BY <1>1, <1>4, <1>7, <1>8, <1>9
          DEF CowInv, TablesFollowAreas, FramesOnce, SharedIsMarked, Counted, Present

(* A store goes to memory and changes no mapping.                          *)
LEMMA WriteKeeps == ASSUME CowInv, Write PROVE CowInv'
  <1>1. UNCHANGED <<live, parent, current, vma, pte, used, ref, tlb>>
    BY DEF Write, tasks
  <1>2. content' \in [Frame -> Value]
    BY DEF Write, CowInv, MTypeOK
  <1>3. \A f : Mappings(f)' = Mappings(f)
    BY <1>1 DEF Mappings, Present
  <1> QED BY <1>1, <1>2, <1>3
          DEF CowInv, MTypeOK, TablesFollowAreas, FramesOnce, SharedIsMarked, CachedIsPrivate,
              TlbFollowsPageTable, Counted, Present

(* The flush of schedule() leaves nothing of the task that ran.            *)
LEMMA SwitchKeeps == ASSUME CowInv, Switch PROVE CowInv'
  <1>1. UNCHANGED <<live, parent, vma, pte, used, ref, content>>
        /\ tlb' = NoPages /\ current' \in live
    BY DEF Switch, frames, Flushed
  <1>2. \A f : Mappings(f)' = Mappings(f)
    BY <1>1 DEF Mappings, Present
  <1>3. \A p \in Page : tlb'[p] = NULL
    BY <1>1 DEF NoPages
  <1>4. tlb' \in [Page -> Entry \cup {NULL}]
    BY <1>1 DEF NoPages
  <1> QED BY <1>1, <1>2, <1>3, <1>4
          DEF CowInv, MTypeOK, TablesFollowAreas, FramesOnce, SharedIsMarked, CachedIsPrivate,
              TlbFollowsPageTable, Counted, Present, NoPages

-----------------------------------------------------------------------------
(* A page gets a frame of its own: on demand, or as the copy of one that   *)
(* is shared, which loses one owner.                                       *)
LEMMA FreshKeeps ==
  ASSUME CowInv, current # NULL, NEW p \in Page, NEW f \in Frame \ used, NEW w \in BOOLEAN,
         vma[current][p] # NULL, UNCHANGED <<tasks, vma>>,
         used' = used \cup {f}, content' \in [Frame -> Value],
         pte' = [pte EXCEPT ![current][p] = [frame |-> f, write |-> w, cow |-> FALSE]],
         tlb' = [tlb EXCEPT ![p] = NULL],
         ref' \in [Frame -> 0..MaxRef], ref'[f] = 1,
         \A g \in Frame \ {f} :
           ref'[g] = IF <<current, p>> \in Mappings(g) THEN ref[g] - 1 ELSE ref[g],
         \A g \in Frame : <<current, p>> \in Mappings(g) => ref[g] > 1
  PROVE  CowInv'
  <1>1. /\ current \in live /\ current \in Task /\ UNCHANGED <<live, parent, current, vma>>
        /\ [frame |-> f, write |-> w, cow |-> FALSE] \in Entry
    BY DEF CowInv, MTypeOK, TablesFollowAreas, tasks, Entry
  <1> DEFINE e == [frame |-> f, write |-> w, cow |-> FALSE]
  <1>e. e \in Entry /\ e.frame = f /\ e.write = w /\ e.cow = FALSE /\ e # NULL
    BY <1>1, CowAssumption
  <1> HIDE DEF e
  <1>2. \A t \in Task, q \in Page : pte'[t][q] = IF t = current /\ q = p THEN e ELSE pte[t][q]
    BY <1>1 DEF CowInv, MTypeOK, e
  <1>3. /\ pte' \in [Task -> [Page -> Entry \cup {NULL}]]
        /\ tlb' \in [Page -> Entry \cup {NULL}]
        /\ \A q \in Page : tlb'[q] = IF q = p THEN NULL ELSE tlb[q]
    <2>1. [pte[current] EXCEPT ![p] = e] \in [Page -> Entry \cup {NULL}]
      BY <1>1, <1>e DEF CowInv, MTypeOK
    <2>2. pte' = [pte EXCEPT ![current] = [pte[current] EXCEPT ![p] = e]]
      BY <1>1 DEF CowInv, MTypeOK, e
    <2> QED BY <1>1, <2>1, <2>2 DEF CowInv, MTypeOK
  <1>4. Mappings(f) = {}
    BY FreeIsUnmapped
  <1>5. Mappings(f)' = {<<current, p>>}
    <2>1. ASSUME NEW t \in Task, NEW q \in Page
          PROVE <<t, q>> \in Mappings(f)' <=> t = current /\ q = p
      <3>1. <<t, q>> \notin Mappings(f)
        BY <1>4
      <3>2. CASE t = current /\ q = p
        <4>1. pte'[t][q] = e
          BY <1>2, <3>2
        <4>2. pte'[t][q].frame = f /\ pte'[t][q] # NULL
          BY <1>e, <4>1
        <4> QED BY <3>2, <4>2 DEF Mappings, Present
      <3>3. CASE ~(t = current /\ q = p)
        <4>1. pte'[t][q] = pte[t][q]
          BY <1>2, <3>3
        <4>2. ~(Present(t, q) /\ pte[t][q].frame = f)
          BY <3>1, Mapped1
        <4> QED BY <3>3, <4>1, <4>2 DEF Mappings, Present
      <3> QED BY <3>2, <3>3
    <2> QED BY <1>1, <2>1 DEF Mappings
  <1>6. \A g : g # f => Mappings(g)' = Mappings(g) \ {<<current, p>>}
    <2> TAKE g
    <2> HAVE g # f
    <2>1. ASSUME NEW t \in Task, NEW q \in Page
          PROVE <<t, q>> \in Mappings(g)' <=> <<t, q>> \in Mappings(g) /\ ~(t = current /\ q = p)
      BY <1>2, <1>e DEF Mappings, Present
    <2> QED BY <2>1 DEF Mappings
  <1>7. Counted'
    <2> SUFFICES ASSUME NEW g \in Frame
                 PROVE  /\ IsFiniteSet(Mappings(g))' /\ ref'[g] = Cardinality(Mappings(g))'
                        /\ g \in used' <=> ref'[g] > 0
      BY DEF Counted
    <2>1. CASE g = f
      <3>1. Mappings(g)' = {<<current, p>>} /\ ref'[g] = 1 /\ g \in used'
        BY <1>5, <2>1
      <3>2. IsFiniteSet({<<current, p>>}) /\ Cardinality({<<current, p>>}) = 1
        BY FS_Singleton
      <3> QED BY <3>1, <3>2
    <2>2. CASE g # f /\ <<current, p>> \in Mappings(g)
      <3>1. Mappings(g)' = Mappings(g) \ {<<current, p>>} /\ ref'[g] = ref[g] - 1 /\ ref[g] > 1
        BY <1>6, <2>2
      <3>2. ref[g] \in Int /\ (g \in used' <=> g \in used)
        BY <2>2 DEF CowInv, MTypeOK
      <3>3. /\ IsFiniteSet(Mappings(g)) /\ ref[g] = Cardinality(Mappings(g))
            /\ g \in used <=> ref[g] > 0
        BY DEF CowInv, Counted
      <3>4. /\ IsFiniteSet(Mappings(g) \ {<<current, p>>})
            /\ Cardinality(Mappings(g) \ {<<current, p>>}) = ref[g] - 1
        BY <2>2, <3>3, FS_RemoveElement
      <3>5. ref[g] > 0 /\ ref[g] - 1 > 0
        BY <3>1, <3>2
      <3> QED BY <3>1, <3>2, <3>3, <3>4, <3>5
    <2>3. CASE g # f /\ <<current, p>> \notin Mappings(g)
      <3>0. Mappings(g)' = Mappings(g) \ {<<current, p>>}
        BY <1>6, <2>3
      <3>1. Mappings(g)' = Mappings(g)
        BY <2>3, <3>0
      <3>2. ref'[g] = ref[g] /\ (g \in used' <=> g \in used)
        BY <2>3
      <3> QED BY <3>1, <3>2 DEF CowInv, Counted
    <2> QED BY <2>1, <2>2, <2>3
  <1>8. MTypeOK'
    BY <1>1, <1>3 DEF CowInv, MTypeOK
  <1>9. TablesFollowAreas'
    BY <1>1, <1>2 DEF CowInv, TablesFollowAreas, Present
  <1>10. \A t \in Task, q \in Page : Present(t, q)' /\ ~(t = current /\ q = p) =>
           /\ Present(t, q) /\ pte'[t][q] = pte[t][q] /\ pte[t][q].frame # f
           /\ <<t, q>> \in Mappings(pte[t][q].frame)
    <2> TAKE t \in Task, q \in Page
    <2> HAVE Present(t, q)' /\ ~(t = current /\ q = p)
    <2>1. Present(t, q) /\ pte'[t][q] = pte[t][q]
      BY <1>2 DEF Present
    <2>2. <<t, q>> \in Mappings(pte[t][q].frame)
      BY <2>1, EntryFacts
    <2> QED BY <1>4, <2>1, <2>2
  <1>11. FramesOnce'
    <2> SUFFICES ASSUME NEW t \in Task, NEW q \in Page, NEW r \in Page, Present(t, q)', Present(t, r)',
                        pte'[t][q].frame = pte'[t][r].frame
                 PROVE  q = r
      BY DEF FramesOnce
    <2>1. CASE ~(t = current /\ q = p) /\ ~(t = current /\ r = p)
      <3>1. Present(t, q) /\ Present(t, r) /\ pte[t][q].frame = pte[t][r].frame
        BY <1>10, <2>1
      <3> QED BY <3>1 DEF CowInv, FramesOnce
    <2>2. CASE t = current /\ q = p /\ r # p
      <3>1. pte'[t][q].frame = f
        BY <1>2, <1>e, <2>2
      <3>a. pte'[t][r] = pte[t][r] /\ pte[t][r].frame # f
        BY <1>10, <2>2
      <3>2. pte'[t][r].frame # f
        BY <3>a
      <3> QED BY <3>1, <3>2
    <2>3. CASE t = current /\ r = p /\ q # p
      <3>1. pte'[t][r].frame = f
        BY <1>2, <1>e, <2>3
      <3>a. pte'[t][q] = pte[t][q] /\ pte[t][q].frame # f
        BY <1>10, <2>3
      <3>2. pte'[t][q].frame # f
        BY <3>a
      <3> QED BY <3>1, <3>2
    <2> QED BY <2>1, <2>2, <2>3
  <1>12. SharedIsMarked'
    <2> SUFFICES ASSUME NEW t \in Task, NEW q \in Page, Present(t, q)'
                 PROVE  /\ ~pte'[t][q].cow => Mappings(pte[t][q].frame)' = {<<t, q>>}
                        /\ pte'[t][q].write => ~pte'[t][q].cow
      BY DEF SharedIsMarked
    <2>1. CASE t = current /\ q = p
      BY <1>2, <1>5, <1>e, <2>1
    <2>2. CASE ~(t = current /\ q = p)
      <3>0. Present(t, q) /\ pte'[t][q] = pte[t][q] /\ pte[t][q].frame # f
        BY <1>10, <2>2
      <3>1. /\ ~pte[t][q].cow => Mappings(pte[t][q].frame) = {<<t, q>>}
            /\ pte[t][q].write => ~pte[t][q].cow
        BY <3>0 DEF CowInv, SharedIsMarked
      <3>2. PICK g : g = pte[t][q].frame
        OBVIOUS
      <3>3. ASSUME ~pte[t][q].cow PROVE Mappings(g)' = {<<t, q>>}
        <4>1. Mappings(g) = {<<t, q>>} /\ g # f
          BY <3>0, <3>1, <3>2, <3>3
        <4>2. Mappings(g)' = {<<t, q>>} \ {<<current, p>>}
          BY <1>6, <4>1
        <4> QED BY <2>2, <4>2
      <3> QED BY <3>0, <3>1, <3>2, <3>3
    <2> QED BY <2>1, <2>2
  <1>13. \A q \in Page : tlb'[q] # NULL =>
           /\ q # p /\ tlb'[q] = tlb[q] /\ Present(current, q)
           /\ pte[current][q].frame = tlb[q].frame /\ tlb[q].frame # f
    <2> TAKE q \in Page
    <2> HAVE tlb'[q] # NULL
    <2>1. q # p /\ tlb'[q] = tlb[q] /\ Present(current, q) /\ pte[current][q].frame = tlb[q].frame
      BY <1>3 DEF CowInv, TlbFollowsPageTable
    <2>2. <<current, q>> \in Mappings(tlb[q].frame)
      BY <1>1, <2>1, EntryFacts
    <2> QED BY <1>4, <2>1, <2>2
  <1>14. TlbFollowsPageTable'
    BY <1>1, <1>2, <1>13 DEF TlbFollowsPageTable, Present
  <1>15. CachedIsPrivate'
    <2> SUFFICES ASSUME NEW q \in Page, tlb'[q] # NULL, tlb'[q].write
                 PROVE  Mappings(tlb[q].frame)' = {<<current, q>>}
      BY <1>1 DEF CachedIsPrivate
    <2>1. Mappings(tlb[q].frame) = {<<current, q>>} /\ q # p /\ tlb[q].frame # f /\ tlb'[q] = tlb[q]
      BY <1>13 DEF CowInv, CachedIsPrivate
    <2>2. PICK g : g = tlb[q].frame
      OBVIOUS
    <2>3. Mappings(g)' = {<<current, q>>}
      BY <1>6, <2>1, <2>2
    <2> QED BY <2>1, <2>2, <2>3
  <1> QED BY <1>7, <1>8, <1>9, <1>11, <1>12, <1>14, <1>15 DEF CowInv

(* A page fault in an area maps a frame that was free.                     *)
LEMMA DemandPageKeeps == ASSUME CowInv, DemandPage PROVE CowInv'
  <1>1. PICK p \in Page, f \in Frame \ used :
          /\ current # NULL /\ vma[current][p] # NULL /\ ~Present(current, p)
          /\ used' = used \cup {f} /\ ref' = [ref EXCEPT ![f] = 1]
          /\ content' = [content EXCEPT ![f] = Zero]
          /\ pte' = [pte EXCEPT ![current][p] =
               [frame |-> f, write |-> "w" \in vma[current][p], cow |-> FALSE]]
          /\ tlb' = [tlb EXCEPT ![p] = NULL]
    BY DEF DemandPage, Invalidated
  <1>2. UNCHANGED <<tasks, vma>>
    BY DEF DemandPage
  <1> DEFINE w == "w" \in vma[current][p]
  <1>3. w \in BOOLEAN
    OBVIOUS
  <1>4. \A g : <<current, p>> \notin Mappings(g)
    BY <1>1, Mapped1
  <1>5. content' \in [Frame -> Value]
    BY <1>1, CowAssumption DEF CowInv, MTypeOK
  <1>6. 1 \in 0..MaxRef
    <2>1. Cardinality(Task) \in Nat /\ Cardinality(Task) # 0
      BY CowAssumption, FS_CardinalityType, FS_EmptySet
    <2> QED BY <2>1, CowAssumption
  <1>7. ref' \in [Frame -> 0..MaxRef] /\ ref'[f] = 1 /\ \A g \in Frame \ {f} : ref'[g] = ref[g]
    BY <1>1, <1>6 DEF CowInv, MTypeOK
  <1>8. pte' = [pte EXCEPT ![current][p] = [frame |-> f, write |-> w, cow |-> FALSE]]
    BY <1>1
  <1> HIDE DEF w
  <1> QED BY <1>1, <1>2, <1>3, <1>4, <1>5, <1>7, <1>8, FreshKeeps

(* A write fault: the last owner keeps the frame, others get a copy.       *)
LEMMA WriteFaultKeeps == ASSUME CowInv, WriteFault PROVE CowInv'
  <1>1. PICK p \in Page :
          /\ Present(current, p) /\ vma[current][p] # NULL
          /\ TakeOver(current, p) \/ CopyPage(current, p) \/ StaleTranslation(current, p)
          /\ tlb' = [tlb EXCEPT ![p] = NULL]
    BY DEF WriteFault, Invalidated
  <1>2. UNCHANGED <<tasks, vma>> /\ current # NULL /\ current \in Task
    BY DEF WriteFault, CowInv, MTypeOK
  <1>3. pte[current][p] \in Entry /\ pte[current][p].frame \in Frame
    BY <1>1, <1>2, EntryFacts
  <1>4. /\ tlb' \in [Page -> Entry \cup {NULL}]
        /\ \A q \in Page : tlb'[q] # NULL => tlb'[q] = tlb[q]
    BY <1>1 DEF CowInv, MTypeOK
  <1>t. vma' \in [Task -> [Page -> Rights \cup {NULL}]]
    BY <1>2 DEF CowInv, MTypeOK
  <1>5. CASE TakeOver(current, p)
    <2> DEFINE e == [pte[current][p] EXCEPT !.write = TRUE, !.cow = FALSE]
    <2>1. e \in Entry /\ e.frame = pte[current][p].frame /\ e.cow = FALSE /\ e # NULL
      BY <1>3, CowAssumption DEF Entry
    <2> HIDE DEF e
    <2>2. pte' = [pte EXCEPT ![current] = [pte[current] EXCEPT ![p] = e]] /\ UNCHANGED frames
      BY <1>2, <1>3, <1>5 DEF TakeOver, CowInv, MTypeOK, e, Entry
    <2>3. [pte[current] EXCEPT ![p] = e] \in [Page -> Entry \cup {NULL}]
      BY <1>2, <2>1 DEF CowInv, MTypeOK
    <2>4. /\ pte' \in [Task -> [Page -> Entry \cup {NULL}]]
          /\ \A t \in Task, q \in Page : pte'[t][q] = IF t = current /\ q = p THEN e ELSE pte[t][q]
      BY <1>2, <2>2, <2>3 DEF CowInv, MTypeOK
    <2>5. SameFrames
      BY <1>1, <2>1, <2>4 DEF SameFrames, Present
    <2>6. Mappings(pte[current][p].frame) = {<<current, p>>}
      BY <1>1, <1>2, <1>5, OneReference DEF TakeOver, LastOwner
    <2>7. SharedIsMarked'
      <3> SUFFICES ASSUME NEW t \in Task, NEW q \in Page, Present(t, q)'
                   PROVE  /\ ~pte'[t][q].cow => Mappings(pte[t][q].frame)' = {<<t, q>>}
                          /\ pte'[t][q].write => ~pte'[t][q].cow
        BY DEF SharedIsMarked
      <3>1. PICK g : g = pte[t][q].frame
        OBVIOUS
      <3>2. Mappings(g)' = Mappings(g) /\ pte'[t][q].frame = g /\ Present(t, q)
        BY <2>5, <3>1, SameMappings DEF SameFrames, Present
      <3>3. CASE t = current /\ q = p
        <4>1. Mappings(g)' = {<<t, q>>}
          BY <2>6, <3>1, <3>2, <3>3
        <4>2. pte'[t][q] = e
          BY <2>4, <3>3
        <4> QED BY <2>1, <3>2, <4>1, <4>2
      <3>4. CASE ~(t = current /\ q = p)
        <4>1. pte'[t][q] = pte[t][q]
          BY <2>4, <3>4
        <4>2. /\ ~pte[t][q].cow => Mappings(g) = {<<t, q>>}
              /\ pte[t][q].write => ~pte[t][q].cow
          BY <3>1, <3>2 DEF CowInv, SharedIsMarked
        <4> QED BY <3>2, <4>1, <4>2
      <3> QED BY <3>3, <3>4
    <2> QED BY <1>2, <1>4, <1>t, <2>2, <2>5, <2>7, RemarkKeeps
  <1>6. CASE CopyPage(current, p)
    <2>0. PICK old \in Frame : old = pte[current][p].frame
      BY <1>3
    <2>1. /\ pte[current][p].cow /\ ~(ref[old] <= 1)
          /\ \E f \in Frame \ used :
               /\ used' = used \cup {f}
               /\ ref' = [ref EXCEPT ![f] = 1, ![old] = @ - 1]
               /\ content' = [content EXCEPT ![f] = content[old]]
               /\ pte' = [pte EXCEPT ![current][p] = [frame |-> f, write |-> TRUE, cow |-> FALSE]]
      BY <1>6, <2>0 DEF CopyPage, LastOwner
    <2>2. PICK f \in Frame \ used :
            /\ used' = used \cup {f}
            /\ ref' = [ref EXCEPT ![f] = 1, ![old] = @ - 1]
            /\ content' = [content EXCEPT ![f] = content[old]]
            /\ pte' = [pte EXCEPT ![current][p] = [frame |-> f, write |-> TRUE, cow |-> FALSE]]
      BY <2>1
    <2>3. f # old
      BY <1>1, <1>2, <2>0, EntryFacts
    <2>4. content' \in [Frame -> Value]
      BY <2>0, <2>2 DEF CowInv, MTypeOK
    <2>5. ref[old] \in 0..MaxRef /\ MaxRef \in Nat
      BY CowAssumption DEF CowInv, MTypeOK
    <2>6. ref[old] - 1 \in 0..MaxRef /\ 1 \in 0..MaxRef /\ ref[old] > 1
      BY <2>1, <2>5
    <2>7. ref' \in [Frame -> 0..MaxRef] /\ ref'[f] = 1
      BY <2>2, <2>3, <2>6 DEF CowInv, MTypeOK
    <2>8. \A g \in Frame : <<current, p>> \in Mappings(g) <=> g = old
      BY <1>1, <1>2, <2>0, Mapped1
    <2>9. \A g \in Frame \ {f} : ref'[g] = IF <<current, p>> \in Mappings(g) THEN ref[g] - 1 ELSE ref[g]
      BY <2>2, <2>3, <2>8 DEF CowInv, MTypeOK
    <2>10. \A g \in Frame : <<current, p>> \in Mappings(g) => ref[g] > 1
      BY <2>6, <2>8
    <2>11. TRUE \in BOOLEAN
      OBVIOUS
    <2> QED BY <1>1, <1>2, <2>2, <2>4, <2>7, <2>9, <2>10, <2>11, FreshKeeps
  <1>7. CASE StaleTranslation(current, p)
    <2>1. UNCHANGED <<pte, frames>>
      BY <1>7 DEF StaleTranslation
    <2>2. SameFrames
      BY <2>1 DEF SameFrames, CowInv, MTypeOK
    <2>3. SharedIsMarked'
      BY <2>1, <2>2, SameMappings DEF CowInv, SharedIsMarked, Present
    <2> QED BY <1>2, <1>4, <1>t, <2>1, <2>2, <2>3, RemarkKeeps
  <1> QED BY <1>1, <1>5, <1>6, <1>7

-----------------------------------------------------------------------------
(* What fork makes of an entry: the frame stays, the mark is set.          *)
LEMMA SharedFacts ==
  ASSUME CowInv, NEW t \in Task, NEW p \in Page
  PROVE  /\ Shared(pte[t][p]) \in Entry \cup {NULL}
         /\ (Shared(pte[t][p]) = NULL) <=> (pte[t][p] = NULL)
         /\ Present(t, p) => /\ Shared(pte[t][p]).frame = pte[t][p].frame
                             /\ Shared(pte[t][p]).cow = TRUE
                             /\ Shared(pte[t][p]).write = FALSE
  <1>1. CASE Present(t, p)
    <2>1. pte[t][p] \in Entry
      BY <1>1, EntryFacts
    <2> QED BY <1>1, <2>1, CowAssumption DEF Shared, Entry, Present
  <1>2. CASE ~Present(t, p)
    BY <1>2 DEF Shared, Present
  <1> QED BY <1>1, <1>2

(* A fork that fails leaves marks behind, and nothing else.                *)
LEMMA ForkFailsKeeps == ASSUME CowInv, ForkFails PROVE CowInv'
  <1>1. PICK S \in SUBSET Page :
          pte' = [pte EXCEPT ![current] =
            [p \in Page |-> IF p \in S THEN Shared(pte[current][p]) ELSE pte[current][p]]]
    BY DEF ForkFails
  <1>2. UNCHANGED <<tasks, vma, frames, tlb>> /\ current # NULL /\ current \in Task
    BY DEF ForkFails, CowInv, MTypeOK
  <1> DEFINE marked == [p \in Page |-> IF p \in S THEN Shared(pte[current][p]) ELSE pte[current][p]]
  <1>3. marked \in [Page -> Entry \cup {NULL}]
    <2>1. ASSUME NEW p \in Page PROVE marked[p] \in Entry \cup {NULL}
      <3>1. pte[current][p] \in Entry \cup {NULL}
        BY <1>2 DEF CowInv, MTypeOK
      <3>2. Shared(pte[current][p]) \in Entry \cup {NULL}
        BY <1>2, SharedFacts DEF CowInv, MTypeOK
      <3> QED BY <3>1, <3>2
    <2> QED BY <2>1
  <1>4. pte' \in [Task -> [Page -> Entry \cup {NULL}]]
    BY <1>1, <1>2, <1>3 DEF CowInv, MTypeOK
  <1>5. \A t \in Task, p \in Page :
          \/ pte'[t][p] = pte[t][p]
          \/ t = current /\ pte'[t][p] = Shared(pte[current][p])
    BY <1>1, <1>2 DEF CowInv, MTypeOK
  <1> HIDE DEF marked
  <1>6. SameFrames
    <2>1. ASSUME NEW t \in Task, NEW p \in Page
          PROVE  /\ (pte'[t][p] = NULL) <=> (pte[t][p] = NULL)
                 /\ Present(t, p) => pte'[t][p].frame = pte[t][p].frame
      <3>1. CASE pte'[t][p] = pte[t][p]
        BY <3>1
      <3>2. CASE t = current /\ pte'[t][p] = Shared(pte[t][p])
        BY <3>2, SharedFacts
      <3> QED BY <1>5, <3>1, <3>2
    <2> QED BY <1>4, <2>1 DEF SameFrames
  <1>7. SharedIsMarked'
    <2> SUFFICES ASSUME NEW t \in Task, NEW q \in Page, Present(t, q)'
                 PROVE  /\ ~pte'[t][q].cow => Mappings(pte[t][q].frame)' = {<<t, q>>}
                        /\ pte'[t][q].write => ~pte'[t][q].cow
      BY DEF SharedIsMarked
    <2>1. Present(t, q)
      BY <1>6 DEF SameFrames, Present
    <2>2. CASE pte'[t][q] = pte[t][q]
      <3>1. /\ ~pte[t][q].cow => Mappings(pte[t][q].frame) = {<<t, q>>}
            /\ pte[t][q].write => ~pte[t][q].cow
        BY <2>1 DEF CowInv, SharedIsMarked
      <3> QED BY <1>6, <2>2, <3>1, SameMappings
    <2>3. CASE t = current /\ pte'[t][q] = Shared(pte[current][q])
      <3>1. Shared(pte[t][q]).cow = TRUE /\ Shared(pte[t][q]).write = FALSE
        BY <2>1, SharedFacts
      <3> QED BY <2>3, <3>1
    <2> QED BY <1>5, <2>2, <2>3
  <1>8. /\ vma' \in [Task -> [Page -> Rights \cup {NULL}]]
        /\ tlb' \in [Page -> Entry \cup {NULL}]
        /\ current = NULL => tlb' = NoPages
    BY <1>2 DEF CowInv, MTypeOK
  <1> QED BY <1>2, <1>6, <1>7, <1>8, RemarkKeeps

(* A frame has at most one page in each task that lives.                   *)
LEMMA FewOwners ==
  ASSUME CowInv, NEW f \in Frame, NEW c \in Task \ live PROVE ref[f] < MaxRef
  <1> DEFINE owner == [m \in Mappings(f) |-> m[1]]
             others == Task \ {c}
  <1>1. \A m \in Mappings(f) : /\ m[1] \in Task /\ m[2] \in Page /\ m = <<m[1], m[2]>>
                               /\ Present(m[1], m[2]) /\ pte[m[1]][m[2]].frame = f
    BY DEF Mappings
  <1>2. \A m \in Mappings(f) : m[1] \in others
    BY <1>1 DEF CowInv, TablesFollowAreas
  <1>3. owner \in [Mappings(f) -> others]
    BY <1>2
  <1>4. \A m, n \in Mappings(f) : m[1] = n[1] => m = n
    <2> TAKE m, n \in Mappings(f)
    <2> HAVE m[1] = n[1]
    <2>1. m[2] = n[2]
      BY <1>1 DEF CowInv, FramesOnce
    <2> QED BY <1>1, <2>1
  <1>5. owner \in Injection(Mappings(f), others)
    BY <1>3, <1>4 DEF Injection, IsInjective
  <1>6. IsFiniteSet(others) /\ Cardinality(others) = Cardinality(Task) - 1 /\ Cardinality(Task) \in Nat
    BY CowAssumption, FS_RemoveElement, FS_CardinalityType
  <1> HIDE DEF owner, others
  <1>7. Cardinality(Mappings(f)) <= Cardinality(others)
    BY <1>5, <1>6, FS_Injection
  <1>8. ref[f] = Cardinality(Mappings(f)) /\ ref[f] \in 0..MaxRef /\ MaxRef >= Cardinality(Task) /\ MaxRef \in Nat
    BY CowAssumption DEF CowInv, Counted, MTypeOK
  <1> QED BY <1>6, <1>7, <1>8

(* Each frame of the parent gets one more owner, and one more reference.   *)
LEMMA ForkKeeps == ASSUME CowInv, Fork PROVE CowInv'
  <1> DEFINE shared == [p \in Page |-> Shared(pte[current][p])]
  <1>1. PICK c \in Task \ live :
          /\ live' = live \cup {c} /\ parent' = [parent EXCEPT ![c] = current]
          /\ vma' = [vma EXCEPT ![c] = vma[current]]
          /\ pte' = [pte EXCEPT ![current] = shared, ![c] = shared]
    BY DEF Fork
  <1>2. /\ ref' = [f \in Frame |-> IncRef(f)] /\ tlb' = NoPages
        /\ UNCHANGED <<current, used, content>> /\ current # NULL
        /\ current \in live /\ current \in Task /\ current # c
    BY DEF Fork, Flushed, CowInv, TablesFollowAreas, MTypeOK
  <1>3. shared \in [Page -> Entry \cup {NULL}]
    BY <1>2, SharedFacts
  <1>4. \A p \in Page : shared[p] = Shared(pte[current][p])
    OBVIOUS
  <1> HIDE DEF shared
  <1>5. /\ pte' \in [Task -> [Page -> Entry \cup {NULL}]]
        /\ \A t \in Task : pte'[t] = IF t \in {current, c} THEN shared ELSE pte[t]
    BY <1>1, <1>2, <1>3 DEF CowInv, MTypeOK
  <1>6. /\ vma' \in [Task -> [Page -> Rights \cup {NULL}]]
        /\ \A t \in Task : vma'[t] = IF t = c THEN vma[current] ELSE vma[t]
    BY <1>1, <1>2 DEF CowInv, MTypeOK
  <1>7. \A p \in Page : ~Present(c, p)
    BY <1>1 DEF CowInv, TablesFollowAreas
  <1>8. \A p \in Page :
          /\ (shared[p] = NULL) <=> ~Present(current, p)
          /\ Present(current, p) => /\ shared[p].frame = pte[current][p].frame
                                    /\ shared[p].cow = TRUE /\ shared[p].write = FALSE
    <2> TAKE p \in Page
    <2>1. shared[p] = Shared(pte[current][p]) /\ (Present(current, p) <=> pte[current][p] # NULL)
      BY <1>4 DEF Present
    <2>2. PICK me \in Task : me = current
      BY <1>2
    <2>3. /\ (Shared(pte[me][p]) = NULL) <=> (pte[me][p] = NULL)
          /\ Present(me, p) => /\ Shared(pte[me][p]).frame = pte[me][p].frame
                               /\ Shared(pte[me][p]).cow = TRUE
                               /\ Shared(pte[me][p]).write = FALSE
      BY SharedFacts
    <2> QED BY <2>1, <2>2, <2>3
  <1>9. \A t \in Task, p \in Page :
          /\ Present(t, p)' <=> Present(IF t = c THEN current ELSE t, p)
          /\ Present(t, p)' => /\ pte'[t][p].frame = pte[IF t = c THEN current ELSE t][p].frame
                               /\ t \in {c, current} => pte'[t][p].cow = TRUE /\ pte'[t][p].write = FALSE
    <2> TAKE t \in Task, p \in Page
    <2>1. CASE t \in {c, current}
      <3>1. pte'[t][p] = shared[p] /\ (IF t = c THEN current ELSE t) = current
        BY <1>5, <2>1
      <3> QED BY <1>8, <3>1 DEF Present
    <2>2. CASE t \notin {c, current}
      <3>1. pte'[t] = pte[t] /\ (IF t = c THEN current ELSE t) = t
        BY <1>5, <2>2
      <3> QED BY <2>2, <3>1 DEF Present
    <2> QED BY <2>1, <2>2
  <1>10. \A f, t, p : <<t, p>> \in Mappings(f)' <=>
           \/ <<t, p>> \in Mappings(f)
           \/ t = c /\ <<current, p>> \in Mappings(f)
    <2> TAKE f, t, p
    <2>1. CASE t = c
      <3>1. <<t, p>> \notin Mappings(f)
        BY <1>7, <2>1, Mapped1
      <3>2. t \in Task /\ (IF t = c THEN current ELSE t) = current
        BY <2>1
      <3>3. p \in Page => /\ Present(t, p)' <=> Present(current, p)
                          /\ Present(t, p)' => pte'[t][p].frame = pte[current][p].frame
        BY <1>9, <3>2
      <3> QED BY <1>2, <2>1, <3>1, <3>2, <3>3 DEF Mappings
    <2>2. CASE t # c
      <3>1. t \in Task /\ p \in Page => /\ Present(t, p)' <=> Present(t, p)
                                        /\ Present(t, p)' => pte'[t][p].frame = pte[t][p].frame
        BY <1>9, <2>2
      <3> QED BY <2>2, <3>1 DEF Mappings
    <2> QED BY <2>1, <2>2
  <1>11. ASSUME NEW f, NEW p, <<current, p>> \in Mappings(f)
         PROVE  Mappings(f)' = Mappings(f) \cup {<<c, p>>}
    <2>1. \A q : <<current, q>> \in Mappings(f) <=> q = p
      BY <1>2, <1>11, Mapped1 DEF CowInv, FramesOnce
    <2>2. p \in Page
      BY <1>11, Mapped1
    <2>3. ASSUME NEW t \in Task, NEW q \in Page
          PROVE <<t, q>> \in Mappings(f)' <=> <<t, q>> \in Mappings(f) \/ (t = c /\ q = p)
      <3>1. <<t, q>> \in Mappings(f)' <=> <<t, q>> \in Mappings(f)
                                          \/ (t = c /\ <<current, q>> \in Mappings(f))
        BY <1>10
      <3> QED BY <2>1, <3>1
    <2>4. ASSUME NEW m \in Task \X Page
          PROVE  m \in Mappings(f)' <=> m \in Mappings(f) \cup {<<c, p>>}
      <3>1. m = <<m[1], m[2]>> /\ m[1] \in Task /\ m[2] \in Page
        OBVIOUS
      <3>2. <<m[1], m[2]>> \in Mappings(f)' <=> <<m[1], m[2]>> \in Mappings(f)
                                                 \/ (m[1] = c /\ m[2] = p)
        BY <2>3, <3>1
      <3> QED BY <3>1, <3>2
    <2>5. /\ Mappings(f)' \subseteq Task \X Page
          /\ Mappings(f) \cup {<<c, p>>} \subseteq Task \X Page
      BY <1>1, <2>2 DEF Mappings
    <2> QED BY <2>4, <2>5
  <1>12. ASSUME NEW f, \A p : <<current, p>> \notin Mappings(f)
         PROVE  Mappings(f)' = Mappings(f)
    <2>1. ASSUME NEW t \in Task, NEW q \in Page
          PROVE <<t, q>> \in Mappings(f)' <=> <<t, q>> \in Mappings(f)
      BY <1>10, <1>12
    <2> QED BY <2>1 DEF Mappings
  <1>13. \A f \in Frame :
           ref'[f] = IF \E p : <<current, p>> \in Mappings(f) THEN ref[f] + 1 ELSE ref[f]
    <2> TAKE f \in Frame
    <2>1. ref'[f] = IncRef(f) /\ ref[f] < MaxRef
      BY <1>1, <1>2, FewOwners
    <2>2. f \in {pte[current][p].frame : p \in {q \in Page : Present(current, q)}}
            <=> \E p : <<current, p>> \in Mappings(f)
      <3>1. current \in Task
        BY <1>2
      <3>2. ASSUME NEW p \in Page, Present(current, p), f = pte[current][p].frame
            PROVE  <<current, p>> \in Mappings(f)
        BY <3>1, <3>2, Mapped1
      <3>3. ASSUME NEW p, <<current, p>> \in Mappings(f)
            PROVE  p \in Page /\ Present(current, p) /\ f = pte[current][p].frame
        BY <3>3, Mapped1
      <3> QED BY <3>2, <3>3
    <2> QED BY <2>1, <2>2 DEF IncRef
  <1>14. Counted' /\ ref' \in [Frame -> 0..MaxRef]
    <2>1. ASSUME NEW f \in Frame
          PROVE  /\ IsFiniteSet(Mappings(f))' /\ ref'[f] = Cardinality(Mappings(f))'
                 /\ f \in used' <=> ref'[f] > 0
                 /\ ref'[f] \in 0..MaxRef
      <3>1. /\ IsFiniteSet(Mappings(f)) /\ ref[f] = Cardinality(Mappings(f))
            /\ f \in used <=> ref[f] > 0
            /\ ref[f] \in 0..MaxRef /\ ref[f] < MaxRef /\ MaxRef \in Nat
        BY <1>1, FewOwners, CowAssumption DEF CowInv, Counted, MTypeOK
      <3>2. CASE \E p : <<current, p>> \in Mappings(f)
        <4>1. PICK p : <<current, p>> \in Mappings(f)
          BY <3>2
        <4>2. <<c, p>> \notin Mappings(f) /\ ref[f] > 0
          BY <1>2, <1>7, <4>1, EntryFacts, Mapped1
        <4>3. Mappings(f)' = Mappings(f) \cup {<<c, p>>} /\ ref'[f] = ref[f] + 1
          BY <1>11, <1>13, <4>1
        <4>4. /\ IsFiniteSet(Mappings(f) \cup {<<c, p>>})
              /\ Cardinality(Mappings(f) \cup {<<c, p>>}) = Cardinality(Mappings(f)) + 1
          BY <3>1, <4>2, FS_AddElement
        <4>5. ref[f] + 1 \in 0..MaxRef /\ ref[f] + 1 > 0
          BY <3>1
        <4> QED BY <1>2, <3>1, <4>2, <4>3, <4>4, <4>5
      <3>3. CASE \A p : <<current, p>> \notin Mappings(f)
        BY <1>2, <1>12, <1>13, <3>1, <3>3
      <3> QED BY <3>2, <3>3
    <2> QED BY <1>2, <2>1 DEF Counted
  <1>15. MTypeOK'
    BY <1>1, <1>2, <1>5, <1>6, <1>14 DEF CowInv, MTypeOK, NoPages
  <1>16. \A p \in Page : tlb'[p] = NULL
    BY <1>2 DEF NoPages
  <1>17. TablesFollowAreas'
    BY <1>1, <1>2, <1>6, <1>9 DEF CowInv, TablesFollowAreas
  <1>18. FramesOnce'
    <2> SUFFICES ASSUME NEW t \in Task, NEW q \in Page, NEW r \in Page, Present(t, q)', Present(t, r)',
                        pte'[t][q].frame = pte'[t][r].frame
                 PROVE  q = r
      BY DEF FramesOnce
    <2>1. PICK u \in Task : u = IF t = c THEN current ELSE t
      BY <1>2
    <2>2. Present(u, q) /\ Present(u, r) /\ pte[u][q].frame = pte[u][r].frame
      BY <1>9, <2>1
    <2> QED BY <2>2 DEF CowInv, FramesOnce
  <1>19. SharedIsMarked'
    <2> SUFFICES ASSUME NEW t \in Task, NEW q \in Page, Present(t, q)'
                 PROVE  /\ ~pte'[t][q].cow => Mappings(pte[t][q].frame)' = {<<t, q>>}
                        /\ pte'[t][q].write => ~pte'[t][q].cow
      BY DEF SharedIsMarked
    <2>1. CASE t \in {c, current}
      BY <1>9, <2>1
    <2>2. CASE t \notin {c, current}
      <3>1. pte'[t] = pte[t] /\ Present(t, q)
        BY <1>5, <2>2 DEF Present
      <3>2. PICK g : g = pte[t][q].frame
        OBVIOUS
      <3>3. /\ ~pte[t][q].cow => Mappings(g) = {<<t, q>>}
            /\ pte[t][q].write => ~pte[t][q].cow
        BY <3>1, <3>2 DEF CowInv, SharedIsMarked
      <3>4. ASSUME Mappings(g) = {<<t, q>>} PROVE Mappings(g)' = Mappings(g)
        <4>1. \A p : <<current, p>> \notin Mappings(g)
          BY <2>2, <3>4
        <4> QED BY <1>12, <4>1
      <3> QED BY <3>1, <3>2, <3>3, <3>4
    <2> QED BY <2>1, <2>2
  <1> QED BY <1>14, <1>15, <1>16, <1>17, <1>18, <1>19
          DEF CowInv, CachedIsPrivate, TlbFollowsPageTable

(* A death gives back one reference per page of each task that goes.       *)
LEMMA ExitKeeps == ASSUME CowInv, Exit PROVE CowInv'
  <1>0. Subtree(current, live, parent) \subseteq live
    BY DEF Subtree
  <1>1. PICK D \in SUBSET live :
          /\ live' = live \ D /\ current' = NULL
          /\ parent' = [t \in Task |-> IF t \in D THEN NULL ELSE parent[t]]
          /\ vma' = [t \in Task |-> IF t \in D THEN NoPages ELSE vma[t]]
          /\ pte' = [t \in Task |-> IF t \in D THEN NoPages ELSE pte[t]]
          /\ ref' = [f \in Frame |-> ref[f] - Dropped(f, D)]
          /\ used' = {f \in used : Dropped(f, D) = 0 \/ ref[f] > Dropped(f, D)}
          /\ tlb' = NoPages /\ content' = content
    BY <1>0 DEF Exit, Flushed
  <1>2. \A p \in Page : NoPages[p] = NULL
    BY DEF NoPages
  <1>3. \A t \in Task, p \in Page :
          /\ Present(t, p)' <=> Present(t, p) /\ t \notin D
          /\ Present(t, p)' => pte'[t][p] = pte[t][p]
    BY <1>1, <1>2 DEF Present
  <1> DEFINE dropped(f) == {m \in Mappings(f) : m[1] \in D}
  <1>4. \A f : Mappings(f)' = Mappings(f) \ dropped(f)
    <2> TAKE f
    <2>1. ASSUME NEW m \in Task \X Page
          PROVE  m \in Mappings(f)' <=> m \in Mappings(f) /\ m[1] \notin D
      BY <1>3 DEF Mappings
    <2> QED BY <2>1 DEF Mappings
  <1>5. ASSUME NEW f \in Frame
        PROVE  /\ IsFiniteSet(Mappings(f))' /\ ref'[f] = Cardinality(Mappings(f))'
               /\ f \in used' <=> ref'[f] > 0
               /\ ref'[f] \in 0..MaxRef
    <2>1. /\ IsFiniteSet(Mappings(f)) /\ ref[f] = Cardinality(Mappings(f))
          /\ f \in used <=> ref[f] > 0
          /\ ref[f] \in 0..MaxRef
      BY DEF CowInv, Counted, MTypeOK
    <2>2. dropped(f) \subseteq Mappings(f) /\ Dropped(f, D) = Cardinality(dropped(f))
      BY DEF Dropped
    <2> HIDE DEF dropped
    <2>3. Mappings(f) \cap dropped(f) = dropped(f)
      BY <2>2
    <2>4. /\ IsFiniteSet(Mappings(f) \ dropped(f))
          /\ Cardinality(Mappings(f) \ dropped(f)) = ref[f] - Dropped(f, D)
      <3>1. /\ IsFiniteSet(Mappings(f) \ dropped(f))
            /\ Cardinality(Mappings(f) \ dropped(f))
                 = Cardinality(Mappings(f)) - Cardinality(Mappings(f) \cap dropped(f))
        BY <2>1, FS_Difference
      <3> QED BY <2>1, <2>2, <2>3, <3>1
    <2>5. Cardinality(Mappings(f) \ dropped(f)) \in Nat /\ Dropped(f, D) \in Nat
      <3>1. IsFiniteSet(dropped(f))
        BY <2>1, <2>2, FS_Subset
      <3> QED BY <2>2, <2>4, <3>1, FS_CardinalityType
    <2>6. ref'[f] = ref[f] - Dropped(f, D) /\ ref'[f] \in 0..MaxRef
      BY <1>1, <2>1, <2>4, <2>5, CowAssumption
    <2>7. f \in used' <=> ref'[f] > 0
      BY <1>1, <2>1, <2>5, <2>6
    <2> QED BY <1>4, <2>4, <2>6, <2>7
  <1>6. Counted'
    BY <1>5 DEF Counted
  <1>7. MTypeOK'
    <2>1. ref' \in [Frame -> 0..MaxRef] /\ used' \in SUBSET Frame
      BY <1>1, <1>5 DEF CowInv, MTypeOK
    <2>2. NoPages \in [Page -> Entry \cup {NULL}] /\ NoPages \in [Page -> Rights \cup {NULL}]
      BY DEF NoPages
    <2> QED BY <1>1, <2>1, <2>2 DEF CowInv, MTypeOK
  <1>8. TablesFollowAreas'
    BY <1>1, <1>2, <1>3 DEF CowInv, TablesFollowAreas
  <1>9. FramesOnce'
    BY <1>3 DEF CowInv, FramesOnce
  <1>10. SharedIsMarked'
    <2> SUFFICES ASSUME NEW t \in Task, NEW q \in Page, Present(t, q)'
                 PROVE  /\ ~pte'[t][q].cow => Mappings(pte[t][q].frame)' = {<<t, q>>}
                        /\ pte'[t][q].write => ~pte'[t][q].cow
      BY DEF SharedIsMarked
    <2>1. Present(t, q) /\ t \notin D /\ pte'[t][q] = pte[t][q]
      BY <1>3
    <2>2. PICK g : g = pte[t][q].frame
      OBVIOUS
    <2>3. /\ ~pte[t][q].cow => Mappings(g) = {<<t, q>>}
          /\ pte[t][q].write => ~pte[t][q].cow
      BY <2>1, <2>2 DEF CowInv, SharedIsMarked
    <2>4. ASSUME Mappings(g) = {<<t, q>>} PROVE Mappings(g)' = {<<t, q>>}
      BY <1>4, <2>1, <2>4
    <2> QED BY <2>1, <2>2, <2>3, <2>4
  <1> QED BY <1>1, <1>2, <1>6, <1>7, <1>8, <1>9, <1>10
          DEF CowInv, CachedIsPrivate, TlbFollowsPageTable

-----------------------------------------------------------------------------
(* Every step keeps the invariant: one case per handler.                   *)
LEMMA CowStep == ASSUME ~UnmapsShared PROVE CowInv /\ [Next]_vars => CowInv'
  <1> SUFFICES ASSUME CowInv, [Next]_vars PROVE CowInv'
    OBVIOUS
  <1>1. CASE current # NULL /\ (Mmap \/ Munmap \/ Mprotect)
    BY <1>1, MmapKeeps, MunmapKeeps, MprotectKeeps
  <1>2. CASE UNCHANGED vars
    <2>1. \A f : Mappings(f)' = Mappings(f)
      BY <1>2 DEF vars, Mappings, Present
    <2> QED BY <1>2, <2>1
            DEF vars, CowInv, MTypeOK, TablesFollowAreas, FramesOnce, SharedIsMarked,
                CachedIsPrivate, TlbFollowsPageTable, Counted, Present
  <1> QED BY <1>1, <1>2, CacheKeeps, WriteKeeps, DemandPageKeeps, WriteFaultKeeps, ForkKeeps,
             ForkFailsKeeps, ExitKeeps, SwitchKeeps DEF Next

(* The invariant holds always.                                             *)
LEMMA CowInvariance == ASSUME ~UnmapsShared PROVE Spec => []CowInv
  BY CowInit, CowStep, PTL DEF Spec

(* The reference count of a frame is the number of pages that map it, and  *)
(* the bitmap agrees: no frame is freed early and none leaks (pmm.c,       *)
(* vmm_clone_address_space and vmm_destroy_address_space in paging.c).     *)
THEOREM SharingAlwaysCounted ==
  ASSUME ~UnmapsShared PROVE Spec => []SharingIsCounted
  <1>1. CowInv => SharingIsCounted
    BY DEF CowInv, Counted, SharingIsCounted, RefCountsAreMappings
  <1> QED BY <1>1, CowInvariance, PTL

(* Whoever can write to a frame, also by a translation the TLB still has,  *)
(* is the only one who has it (vmm_handle_user_write_fault).               *)
THEOREM WritableAlwaysPrivate ==
  ASSUME ~UnmapsShared PROVE Spec => []WritableIsPrivate
  <1>1. CowInv => WritableIsPrivate
    BY DEF CowInv, SharedIsMarked, CachedIsPrivate, WritableIsPrivate
  <1> QED BY <1>1, CowInvariance, PTL

(* No cached translation leads elsewhere than the page table (the invlpg   *)
(* and the loads of CR3 in paging.c and task.c).                           *)
THEOREM TlbAlwaysFollows ==
  ASSUME ~UnmapsShared PROVE Spec => []TlbFollowsPageTable
  <1>1. CowInv => TlbFollowsPageTable
    BY DEF CowInv
  <1> QED BY <1>1, CowInvariance, PTL

-----------------------------------------------------------------------------
(* What a task sees at a page: the memory of PrivateMemory.                *)
Seen(t, p) == IF Present(t, p) THEN content[pte[t][p].frame]
              ELSE IF vma[t][p] = NULL THEN NULL ELSE Zero
SeenBy == [t \in Task |-> [p \in Page |-> Seen(t, p)]]

(* A step after which everybody sees what they saw is a stutter.           *)
LEMMA NothingSeen ==
  ASSUME UNCHANGED live, \A t \in Task, p \in Page : Seen(t, p)' = Seen(t, p)
  PROVE  UNCHANGED <<live, SeenBy>>
  <1>1. SeenBy' = [t \in Task |-> [p \in Page |-> Seen(t, p)']]
    BY DEF SeenBy
  <1> QED BY <1>1 DEF SeenBy

(* A step after which one task sees another value at one page.             *)
LEMMA OneSeen ==
  ASSUME NEW t \in Task, NEW p \in Page, NEW v, Seen(t, p)' = v,
         \A u \in Task, q \in Page : ~(u = t /\ q = p) => Seen(u, q)' = Seen(u, q)
  PROVE  SeenBy' = [SeenBy EXCEPT ![t][p] = v]
  <1>1. SeenBy' = [u \in Task |-> [q \in Page |-> Seen(u, q)']]
    BY DEF SeenBy
  <1>2. \A u \in Task, q \in Page : Seen(u, q)' = IF u = t /\ q = p THEN v ELSE Seen(u, q)
    OBVIOUS
  <1> QED BY <1>1, <1>2 DEF SeenBy

(* mmap and munmap change the page they name.                              *)
LEMMA MmapMaps == ASSUME CowInv, current # NULL, Mmap PROVE Private!PNext
  <1>1. PICK p \in Page, r \in Rights :
          vma[current][p] = NULL /\ vma' = [vma EXCEPT ![current][p] = r]
    BY DEF Mmap
  <1>2. /\ UNCHANGED <<live, parent, current, pte, used, ref, content, tlb>>
        /\ current \in live /\ current \in Task
    BY DEF Mmap, tasks, frames, CowInv, TablesFollowAreas, MTypeOK
  <1>3. Seen(current, p) = NULL /\ Seen(current, p)' = Zero
    BY <1>1, <1>2, CowAssumption DEF Seen, CowInv, TablesFollowAreas, MTypeOK, Present
  <1>4. \A t \in Task, q \in Page : ~(t = current /\ q = p) => Seen(t, q)' = Seen(t, q)
    BY <1>1, <1>2 DEF Seen, CowInv, MTypeOK, Present
  <1>5. PICK me \in live : me = current /\ me \in Task
    BY <1>2
  <1>6. Seen(me, p)' = Zero /\ SeenBy[me][p] = NULL
    BY <1>2, <1>3, <1>5 DEF SeenBy
  <1>7. SeenBy' = [SeenBy EXCEPT ![me][p] = Zero]
    BY <1>4, <1>5, <1>6, OneSeen
  <1> QED BY <1>2, <1>6, <1>7 DEF Private!PNext, Private!Map, SeenBy, Seen

(* munmap is an Unmap of the private memory.                               *)
LEMMA MunmapUnmaps == ASSUME CowInv, ~UnmapsShared, current # NULL, Munmap PROVE Private!PNext
  <1>1. UNCHANGED <<live, parent, current, content>> /\ current \in live /\ current \in Task
    BY DEF Munmap, tasks, CowInv, TablesFollowAreas, MTypeOK
  <1>2. PICK p \in Page :
          /\ vma' = [vma EXCEPT ![current][p] = NULL]
          /\ \/ pte' = [pte EXCEPT ![current][p] = NULL]
             \/ ~Present(current, p) /\ UNCHANGED pte
    BY DEF Munmap
  <1>3. \A t \in Task, q \in Page :
          /\ ~(t = current /\ q = p) => pte'[t][q] = pte[t][q] /\ vma'[t][q] = vma[t][q]
          /\ t = current /\ q = p => pte'[t][q] = NULL /\ vma'[t][q] = NULL
    BY <1>1, <1>2 DEF CowInv, MTypeOK, Present
  <1>4. Seen(current, p)' = NULL
    BY <1>1, <1>3 DEF Seen, Present
  <1>5. \A t \in Task, q \in Page : ~(t = current /\ q = p) => Seen(t, q)' = Seen(t, q)
    BY <1>1, <1>3 DEF Seen, Present
  <1>6. SeenBy' = [SeenBy EXCEPT ![current][p] = NULL]
    BY <1>1, <1>4, <1>5, OneSeen
  <1> QED BY <1>1, <1>6 DEF Private!PNext, Private!Unmap, SeenBy, Seen

(* A store changes the page of the task that executes it and of no other.  *)
LEMMA WriteStores == ASSUME CowInv, Write PROVE Private!PNext
  <1>1. UNCHANGED <<live, parent, current, vma, pte, used, ref, tlb>>
    BY DEF Write, tasks
  <1>2. PICK p \in Page, v \in Value :
          /\ tlb[p] # NULL /\ tlb[p].write /\ content' = [content EXCEPT ![tlb[p].frame] = v]
    BY DEF Write
  <1>3. /\ current \in live /\ current \in Task
        /\ Present(current, p) /\ pte[current][p].frame = tlb[p].frame
    BY <1>2 DEF CowInv, MTypeOK, TablesFollowAreas, TlbFollowsPageTable, NoPages
  <1>4. tlb[p].frame \in Frame /\ Mappings(tlb[p].frame) = {<<current, p>>}
    BY <1>2, <1>3, EntryFacts DEF CowInv, CachedIsPrivate
  <1>5. Seen(current, p)' = v
    BY <1>1, <1>2, <1>3, <1>4 DEF Seen, Present, CowInv, MTypeOK
  <1>6. ASSUME NEW t \in Task, NEW q \in Page, ~(t = current /\ q = p)
        PROVE  Seen(t, q)' = Seen(t, q)
    <2>1. CASE Present(t, q)
      <3>1. pte[t][q].frame # tlb[p].frame /\ pte[t][q].frame \in Frame
        <4>1. <<t, q>> \in Mappings(pte[t][q].frame) /\ pte[t][q].frame \in Frame
          BY <2>1, EntryFacts
        <4>2. <<t, q>> \notin Mappings(tlb[p].frame)
          BY <1>4, <1>6
        <4> QED BY <4>1, <4>2
      <3> QED BY <1>1, <1>2, <2>1, <3>1 DEF Seen, Present, CowInv, MTypeOK
    <2>2. CASE ~Present(t, q)
      BY <1>1, <2>2 DEF Seen, Present
    <2> QED BY <2>1, <2>2
  <1>c. PICK me \in live : me = current /\ me \in Task
    BY <1>3
  <1>s. Seen(me, p)' = v
    BY <1>1, <1>5, <1>c
  <1>7. SeenBy' = [SeenBy EXCEPT ![me][p] = v]
    BY <1>6, <1>c, <1>s, OneSeen
  <1>8. SeenBy[current][p] # NULL
    <2>1. content[pte[current][p].frame] \in Value
      BY <1>3, <1>4 DEF CowInv, MTypeOK
    <2> QED BY <1>3, <2>1, CowAssumption DEF SeenBy, Seen
  <1>9. Private!Store(me, p, v)
    BY <1>1, <1>7, <1>8, <1>c DEF Private!Store, SeenBy, Seen
  <1> QED BY <1>9, <1>c DEF Private!PNext

(* Rights, marks and translations change, and nobody sees it.              *)
LEMMA RemarkUnseen ==
  ASSUME SameFrames, UNCHANGED <<live, content>>,
         \A t \in Task, p \in Page : (vma'[t][p] = NULL) <=> (vma[t][p] = NULL)
  PROVE  UNCHANGED <<live, SeenBy>>
  <1>1. \A t \in Task, p \in Page : Seen(t, p)' = Seen(t, p)
    <2> TAKE t \in Task, p \in Page
    <2>1. /\ Present(t, p)' <=> Present(t, p)
          /\ Present(t, p) => pte'[t][p].frame = pte[t][p].frame
      BY DEF SameFrames, Present
    <2> QED BY <2>1 DEF Seen
  <1> QED BY <1>1, NothingSeen

(* A new frame holds what the page held: zero on demand, or the copy.      *)
LEMMA FreshUnseen ==
  ASSUME CowInv, NEW me \in Task, NEW p \in Page, NEW f \in Frame \ used, NEW w,
         UNCHANGED <<live, vma>>,
         pte' = [pte EXCEPT ![me][p] = [frame |-> f, write |-> w, cow |-> FALSE]],
         content' = [content EXCEPT ![f] = Seen(me, p)],
         [frame |-> f, write |-> w, cow |-> FALSE] # NULL
  PROVE  UNCHANGED <<live, SeenBy>>
  <1>1. ASSUME NEW t \in Task, NEW q \in Page PROVE Seen(t, q)' = Seen(t, q)
    <2>1. CASE t = me /\ q = p
      <3>1. pte'[t][q] = [frame |-> f, write |-> w, cow |-> FALSE] /\ content'[f] = Seen(me, p)
        BY <2>1 DEF CowInv, MTypeOK
      <3> QED BY <2>1, <3>1 DEF Seen, Present
    <2>2. CASE ~(t = me /\ q = p)
      <3>1. pte'[t][q] = pte[t][q]
        BY <2>2 DEF CowInv, MTypeOK
      <3>2. CASE Present(t, q)
        <4>1. pte[t][q].frame \in Frame /\ pte[t][q].frame # f
          BY <3>2, EntryFacts
        <4>2. content'[pte[t][q].frame] = content[pte[t][q].frame]
          BY <4>1 DEF CowInv, MTypeOK
        <4> QED BY <3>1, <3>2, <4>2 DEF Seen, Present
      <3>3. CASE ~Present(t, q)
        BY <3>1, <3>3 DEF Seen, Present
      <3> QED BY <3>2, <3>3
    <2> QED BY <2>1, <2>2
  <1> QED BY <1>1, NothingSeen

(* mprotect changes nothing a program reads.                               *)
LEMMA MprotectUnseen == ASSUME CowInv, current # NULL, Mprotect PROVE UNCHANGED <<live, SeenBy>>
  <1>1. UNCHANGED <<live, content>> /\ current \in Task
    BY DEF Mprotect, tasks, frames, CowInv, MTypeOK
  <1>2. PICK p \in Page, r \in Rights :
          /\ vma[current][p] # NULL
          /\ vma' = [vma EXCEPT ![current][p] = r]
          /\ IF Present(current, p) THEN pte' = [pte EXCEPT ![current][p] = Protected(@, r)]
                                    ELSE UNCHANGED pte
    BY DEF Mprotect
  <1>3. \A t \in Task, q \in Page : (vma'[t][q] = NULL) <=> (vma[t][q] = NULL)
    BY <1>1, <1>2, CowAssumption DEF CowInv, MTypeOK
  <1>4. CASE Present(current, p)
    <2>1. pte[current][p] \in Entry
      BY <1>1, <1>4, EntryFacts
    <2>2. /\ Protected(pte[current][p], r) \in Entry
          /\ Protected(pte[current][p], r).frame = pte[current][p].frame
      BY <2>1 DEF Protected, Entry
    <2>3. pte' = [pte EXCEPT ![current] = [pte[current] EXCEPT ![p] = Protected(pte[current][p], r)]]
      BY <1>1, <1>2, <1>4 DEF CowInv, MTypeOK
    <2>4. [pte[current] EXCEPT ![p] = Protected(pte[current][p], r)] \in [Page -> Entry \cup {NULL}]
      BY <1>1, <2>2 DEF CowInv, MTypeOK
    <2>5. pte' \in [Task -> [Page -> Entry \cup {NULL}]]
      BY <1>1, <2>3, <2>4 DEF CowInv, MTypeOK
    <2>6. \A t \in Task, q \in Page :
            \/ pte'[t][q] = pte[t][q]
            \/ t = current /\ q = p /\ pte'[t][q] = Protected(pte[current][p], r)
      BY <1>1, <2>3 DEF CowInv, MTypeOK
    <2>7. SameFrames
      BY <1>4, <2>2, <2>5, <2>6, CowAssumption DEF SameFrames, Present
    <2> QED BY <1>1, <1>3, <2>7, RemarkUnseen
  <1>5. CASE ~Present(current, p)
    <2>1. SameFrames
      BY <1>2, <1>5 DEF SameFrames, CowInv, MTypeOK
    <2> QED BY <1>1, <1>3, <2>1, RemarkUnseen
  <1> QED BY <1>4, <1>5

(* A page that is filled on demand reads as before.                        *)
LEMMA DemandPageUnseen == ASSUME CowInv, DemandPage PROVE UNCHANGED <<live, SeenBy>>
  <1>1. PICK p \in Page, f \in Frame \ used :
          /\ current # NULL /\ vma[current][p] # NULL /\ ~Present(current, p)
          /\ content' = [content EXCEPT ![f] = Zero]
          /\ pte' = [pte EXCEPT ![current][p] =
               [frame |-> f, write |-> "w" \in vma[current][p], cow |-> FALSE]]
    BY DEF DemandPage
  <1>2. UNCHANGED <<live, vma>> /\ current \in Task
    BY <1>1 DEF DemandPage, tasks, CowInv, MTypeOK
  <1>3. PICK me \in Task : me = current
    BY <1>2
  <1> DEFINE w == "w" \in vma[current][p]
  <1>4. w \in BOOLEAN
    OBVIOUS
  <1>5. /\ pte' = [pte EXCEPT ![me][p] = [frame |-> f, write |-> w, cow |-> FALSE]]
        /\ content' = [content EXCEPT ![f] = Seen(me, p)]
    BY <1>1, <1>3 DEF Seen
  <1> HIDE DEF w
  <1>e. [frame |-> f, write |-> w, cow |-> FALSE] \in Entry
    BY <1>4 DEF Entry
  <1>6. [frame |-> f, write |-> w, cow |-> FALSE] # NULL
    BY <1>e, CowAssumption
  <1> QED BY <1>2, <1>5, <1>6, FreshUnseen

(* A copy reads as the page it was made from.                              *)
LEMMA WriteFaultUnseen == ASSUME CowInv, WriteFault PROVE UNCHANGED <<live, SeenBy>>
  <1>1. PICK p \in Page :
          /\ Present(current, p)
          /\ TakeOver(current, p) \/ CopyPage(current, p) \/ StaleTranslation(current, p)
    BY DEF WriteFault
  <1>2. UNCHANGED <<live, vma>> /\ current \in Task
    BY DEF WriteFault, tasks, CowInv, MTypeOK
  <1>3. PICK me \in Task : me = current
    BY <1>2
  <1>4. pte[me][p] \in Entry /\ pte[me][p].frame \in Frame
    BY <1>1, <1>3, EntryFacts
  <1>5. CASE TakeOver(current, p)
    <2> DEFINE e == [pte[me][p] EXCEPT !.write = TRUE, !.cow = FALSE]
    <2>1. e \in Entry /\ e.frame = pte[me][p].frame /\ e # NULL
      BY <1>4, CowAssumption DEF Entry
    <2> HIDE DEF e
    <2>2. pte' = [pte EXCEPT ![me] = [pte[me] EXCEPT ![p] = e]] /\ UNCHANGED content
      BY <1>3, <1>4, <1>5 DEF TakeOver, CowInv, MTypeOK, e, Entry, frames
    <2>3. [pte[me] EXCEPT ![p] = e] \in [Page -> Entry \cup {NULL}]
      BY <2>1 DEF CowInv, MTypeOK
    <2>4. /\ pte' \in [Task -> [Page -> Entry \cup {NULL}]]
          /\ \A t \in Task, q \in Page : pte'[t][q] = IF t = me /\ q = p THEN e ELSE pte[t][q]
      BY <2>2, <2>3 DEF CowInv, MTypeOK
    <2>5. SameFrames
      BY <1>1, <1>3, <2>1, <2>4 DEF SameFrames, Present
    <2> QED BY <1>2, <2>2, <2>5, RemarkUnseen
  <1>6. CASE CopyPage(current, p)
    <2>1. PICK f \in Frame \ used :
            /\ content' = [content EXCEPT ![f] = content[pte[current][p].frame]]
            /\ pte' = [pte EXCEPT ![current][p] = [frame |-> f, write |-> TRUE, cow |-> FALSE]]
      BY <1>6 DEF CopyPage
    <2>2. /\ pte' = [pte EXCEPT ![me][p] = [frame |-> f, write |-> TRUE, cow |-> FALSE]]
          /\ content' = [content EXCEPT ![f] = Seen(me, p)]
      BY <1>1, <1>3, <2>1 DEF Seen
    <2>e. [frame |-> f, write |-> TRUE, cow |-> FALSE] \in Entry
      BY DEF Entry
    <2>3. [frame |-> f, write |-> TRUE, cow |-> FALSE] # NULL
      BY <2>e, CowAssumption
    <2> QED BY <1>2, <2>2, <2>3, FreshUnseen
  <1>7. CASE StaleTranslation(current, p)
    <2>1. UNCHANGED <<pte, content>>
      BY <1>7 DEF StaleTranslation, frames
    <2>2. SameFrames
      BY <2>1 DEF SameFrames, CowInv, MTypeOK
    <2> QED BY <1>2, <2>1, <2>2, RemarkUnseen
  <1> QED BY <1>1, <1>5, <1>6, <1>7

(* A fork that fails changes nothing a program reads.                      *)
LEMMA ForkFailsUnseen == ASSUME CowInv, ForkFails PROVE UNCHANGED <<live, SeenBy>>
  <1>1. PICK S \in SUBSET Page :
          pte' = [pte EXCEPT ![current] =
            [p \in Page |-> IF p \in S THEN Shared(pte[current][p]) ELSE pte[current][p]]]
    BY DEF ForkFails
  <1>2. UNCHANGED <<live, vma, content>> /\ current \in Task
    BY DEF ForkFails, tasks, frames, CowInv, MTypeOK
  <1>3. ASSUME NEW t \in Task, NEW p \in Page PROVE Seen(t, p)' = Seen(t, p)
    <2>1. pte'[t][p] = pte[t][p] \/ pte'[t][p] = Shared(pte[t][p])
      BY <1>1, <1>2 DEF CowInv, MTypeOK
    <2>2. CASE pte'[t][p] = pte[t][p]
      BY <1>2, <2>2 DEF Seen, Present
    <2>3. CASE pte'[t][p] = Shared(pte[t][p])
      <3>1. /\ Present(t, p)' <=> Present(t, p)
            /\ Present(t, p) => pte'[t][p].frame = pte[t][p].frame
        BY <2>3, SharedFacts DEF Present
      <3> QED BY <1>2, <3>1 DEF Seen
    <2> QED BY <2>1, <2>2, <2>3
  <1> QED BY <1>2, <1>3, NothingSeen

(* The child of a fork sees what its parent sees.                          *)
LEMMA ForkCopies == ASSUME CowInv, Fork PROVE Private!PNext
  <1> DEFINE shared == [p \in Page |-> Shared(pte[current][p])]
  <1>1. PICK c \in Task \ live :
          /\ live' = live \cup {c}
          /\ vma' = [vma EXCEPT ![c] = vma[current]]
          /\ pte' = [pte EXCEPT ![current] = shared, ![c] = shared]
    BY DEF Fork
  <1>2. PICK me \in live : me = current /\ me \in Task /\ me # c
    BY DEF Fork, CowInv, TablesFollowAreas, MTypeOK
  <1>3. content' = content /\ \A p \in Page : shared[p] = Shared(pte[me][p])
    BY <1>2 DEF Fork
  <1> HIDE DEF shared
  <1>4. ASSUME NEW t \in Task, NEW p \in Page
        PROVE  Seen(t, p)' = Seen(IF t = c THEN me ELSE t, p)
    <2>1. PICK u \in Task : u = IF t = c THEN me ELSE t
      BY <1>2
    <2>2. vma'[t] = vma[u] /\ (pte'[t][p] = pte[u][p] \/ pte'[t][p] = Shared(pte[u][p]))
      BY <1>1, <1>2, <1>3, <2>1 DEF CowInv, MTypeOK
    <2>3. /\ Present(t, p)' <=> Present(u, p)
          /\ Present(u, p) => pte'[t][p].frame = pte[u][p].frame
      <3>1. /\ (Shared(pte[u][p]) = NULL) <=> (pte[u][p] = NULL)
            /\ Present(u, p) => Shared(pte[u][p]).frame = pte[u][p].frame
        BY SharedFacts
      <3> QED BY <2>2, <3>1 DEF Present
    <2>4. Seen(t, p)' = Seen(u, p)
      <3>1. CASE Present(u, p)
        <4>1. pte'[t][p].frame = pte[u][p].frame /\ Present(t, p)'
          BY <2>3, <3>1
        <4> QED BY <1>3, <3>1, <4>1 DEF Seen
      <3>2. CASE ~Present(u, p)
        BY <2>2, <2>3, <3>2 DEF Seen
      <3> QED BY <3>1, <3>2
    <2> QED BY <2>1, <2>4
  <1>5. SeenBy' = [SeenBy EXCEPT ![c] = SeenBy[me]]
    <2>1. SeenBy' = [t \in Task |-> [p \in Page |-> Seen(t, p)']]
      BY DEF SeenBy
    <2>2. SeenBy' = [t \in Task |-> [p \in Page |-> Seen(IF t = c THEN me ELSE t, p)]]
      BY <1>4, <2>1
    <2> QED BY <1>2, <2>2 DEF SeenBy
  <1> QED BY <1>1, <1>2, <1>5 DEF Private!PNext, Private!Copy, SeenBy, Seen

(* An exit ends the memory of a task.                                      *)
LEMMA ExitEnds == ASSUME CowInv, Exit PROVE Private!PNext
  <1>0. Subtree(current, live, parent) \subseteq live
    BY DEF Subtree
  <1>1. PICK D \in SUBSET live :
          /\ live' = live \ D
          /\ vma' = [t \in Task |-> IF t \in D THEN NoPages ELSE vma[t]]
          /\ pte' = [t \in Task |-> IF t \in D THEN NoPages ELSE pte[t]]
          /\ content' = content
    BY <1>0 DEF Exit
  <1>2. ASSUME NEW t \in Task, NEW p \in Page
        PROVE  Seen(t, p)' = IF t \in D THEN NULL ELSE Seen(t, p)
    <2>1. NoPages[p] = NULL
      BY DEF NoPages
    <2> QED BY <1>1, <2>1 DEF Seen, Present
  <1>3. SeenBy' = [t \in Task |-> [p \in Page |-> Seen(t, p)']]
    BY DEF SeenBy
  <1>4. SeenBy' = [t \in Task |-> IF t \in D THEN [p \in Page |-> NULL] ELSE SeenBy[t]]
    BY <1>2, <1>3 DEF SeenBy
  <1> QED BY <1>1, <1>4 DEF Private!PNext, Private!End, Private!Unmapped, SeenBy, Seen

(* Each handler is a step of PrivateMemory or changes nothing it can see.  *)
LEMMA StepIsPrivate ==
  ASSUME ~UnmapsShared PROVE CowInv /\ [Next]_vars => [Private!PNext]_(Private!pvars)
  <1> SUFFICES ASSUME CowInv, [Next]_vars PROVE [Private!PNext]_(Private!pvars)
    OBVIOUS
  <1>1. (UNCHANGED <<live, SeenBy>>) => UNCHANGED Private!pvars
    BY DEF Private!pvars, SeenBy, Seen
  <1>2. CASE current # NULL /\ (Mmap \/ Munmap \/ Mprotect)
    BY <1>1, <1>2, MmapMaps, MunmapUnmaps, MprotectUnseen
  <1>3. CASE Cache \/ Switch \/ UNCHANGED vars
    <2>1. UNCHANGED <<live, vma, pte, content>>
      BY <1>3 DEF Cache, Switch, vars, tasks, frames
    <2>2. \A t \in Task, p \in Page : Seen(t, p)' = Seen(t, p)
      BY <2>1 DEF Seen, Present
    <2> QED BY <1>1, <2>1, <2>2, NothingSeen
  <1> QED BY <1>1, <1>2, <1>3, WriteStores, DemandPageUnseen, WriteFaultUnseen, ForkCopies,
             ForkFailsUnseen, ExitEnds DEF Next

(* Copy on write, demand paging and the TLB cannot be told from copying:   *)
(* a task sees what it wrote or inherited, and nothing that another writes *)
(* after the fork (vmm_clone_address_space, vmm_handle_user_write_fault).  *)
THEOREM MemoryIsPrivate == ASSUME ~UnmapsShared PROVE Spec => Isolation
  <1>1. Init => Private!PInit
    <2> SUFFICES ASSUME Init PROVE Private!PInit
      OBVIOUS
    <2>1. \A t \in Task, p \in Page : Seen(t, p) = NULL
      BY DEF Init, Seen, Present, NoPages
    <2>2. live = {Root} /\ Root \in Task
      BY CowAssumption DEF Init
    <2>3. SeenBy = [t \in Task |-> [p \in Page |-> NULL]]
      BY <2>1 DEF SeenBy
    <2> QED BY <2>2, <2>3 DEF Private!PInit, Private!Unmapped, SeenBy, Seen
  <1>2. CowInv /\ [Next]_vars => [Private!PNext]_(Private!pvars)
    BY StepIsPrivate
  <1> QED BY <1>1, <1>2, CowInvariance, PTL DEF Spec, Isolation, Private!PSpec

-----------------------------------------------------------------------------
(***************************************************************************)
(* Proof that the frame allocators hand out RAM that is nobody's, and      *)
(* count it.                                                               *)
(*                                                                         *)
(* What is clear or given never changes after the boot, so that            *)
(* PagesAreUsable is a matter of the boot alone, and of rounding: regions  *)
(* of RAM shrink to pages, reserved ones grow.  The counters need that no  *)
(* page beyond the end is ever given, or FreePage would take one back that *)
(* it does not count.                                                      *)
(***************************************************************************)

PagesInRange ==
  /\ machine.pages \in Nat
  /\ clear \cup given \subseteq 0 .. machine.pages - 1
  /\ available \in Int /\ used_pages \in Int

FramesInv == PagesInRange /\ FramesAreSound

USE DEF FramesAssumption

-----------------------------------------------------------------------------
(* Rounding of an address to pages.                                        *)
LEMMA Rounding ==
  ASSUME NEW a \in Nat
  PROVE  /\ RoundDown(a) \in Nat /\ RoundUp(a) \in Nat
         /\ RoundDown(a) * FrameBytes <= a /\ a < (RoundDown(a) + 1) * FrameBytes
         /\ a <= RoundUp(a) * FrameBytes /\ RoundUp(a) * FrameBytes < a + FrameBytes
  <1>1. ASSUME NEW b \in Nat, NEW f \in Nat \ {0}
        PROVE  /\ b \div f \in Nat /\ (b \div f) * f <= b /\ b < ((b \div f) + 1) * f
    OBVIOUS
  <1>2. FrameBytes \in Nat \ {0}
    BY FramesAssumption
  <1>3. PICK b \in Nat : b = a + FrameBytes - 1
    BY <1>2
  <1>4. /\ b \div FrameBytes \in Nat /\ (b \div FrameBytes) * FrameBytes <= b
        /\ b < ((b \div FrameBytes) + 1) * FrameBytes
    BY <1>1, <1>2
  <1>5. ((b \div FrameBytes) + 1) * FrameBytes = (b \div FrameBytes) * FrameBytes + FrameBytes
    BY <1>2, <1>4
  <1>6. /\ a \div FrameBytes \in Nat /\ (a \div FrameBytes) * FrameBytes <= a
        /\ a < ((a \div FrameBytes) + 1) * FrameBytes
    BY <1>1, <1>2
  <1>7. RoundUp(a) = b \div FrameBytes /\ RoundDown(a) = a \div FrameBytes
    BY <1>3 DEF RoundUp, RoundDown
  <1>8. PICK m \in Nat : m = (b \div FrameBytes) * FrameBytes
    BY <1>2, <1>4
  <1>9. a <= m /\ m < a + FrameBytes
    BY <1>2, <1>3, <1>4, <1>5, <1>8
  <1> QED BY <1>4, <1>6, <1>7, <1>8, <1>9

(* More pages have more bytes.                                             *)
LEMMA MoreBytes == \A p, q \in Nat : p <= q => p * FrameBytes <= q * FrameBytes
  <1>1. \A f, p, q \in Nat : p <= q => p * f <= q * f
    OBVIOUS
  <1> QED BY <1>1, FramesAssumption

(* Pages between two addresses, rounded inward, have their bytes there.    *)
LEMMA Inward ==
  ASSUME NEW from \in Nat, NEW to \in Nat, NEW p \in Nat,
         RoundUp(from) <= p, p < RoundDown(to)
  PROVE  from <= p * FrameBytes /\ (p + 1) * FrameBytes <= to
  <1>1. /\ from <= RoundUp(from) * FrameBytes /\ RoundUp(from) * FrameBytes <= p * FrameBytes
    BY Rounding, MoreBytes
  <1>2. /\ (p + 1) * FrameBytes <= RoundDown(to) * FrameBytes
        /\ RoundDown(to) * FrameBytes <= to
    BY Rounding, MoreBytes
  <1>3. \A f, x \in Nat : x * f \in Nat
    OBVIOUS
  <1>4. /\ RoundUp(from) * FrameBytes \in Nat /\ p * FrameBytes \in Nat
        /\ (p + 1) * FrameBytes \in Nat /\ RoundDown(to) * FrameBytes \in Nat
    <2>1. RoundUp(from) \in Nat /\ RoundDown(to) \in Nat /\ p + 1 \in Nat /\ FrameBytes \in Nat
      BY Rounding, FramesAssumption
    <2> QED BY <1>3, <2>1
  <1> QED BY <1>1, <1>2, <1>4

(* Pages outside of two addresses, rounded outward, have no byte there.    *)
LEMMA Outside ==
  ASSUME NEW from \in Nat, NEW to \in Nat, NEW p \in Nat,
         p < RoundDown(from) \/ RoundUp(to) <= p
  PROVE  (p * FrameBytes .. (p + 1) * FrameBytes - 1) \cap (from .. to - 1) = {}
  <1>0. \A f, x \in Nat : x * f \in Nat
    OBVIOUS
  <1>1. /\ RoundUp(to) * FrameBytes \in Nat /\ p * FrameBytes \in Nat
        /\ (p + 1) * FrameBytes \in Nat /\ RoundDown(from) * FrameBytes \in Nat
    <2>1. RoundUp(to) \in Nat /\ RoundDown(from) \in Nat /\ p + 1 \in Nat /\ FrameBytes \in Nat
      BY Rounding, FramesAssumption
    <2> QED BY <1>0, <2>1
  <1>2. CASE p < RoundDown(from)
    <2>1. (p + 1) * FrameBytes <= RoundDown(from) * FrameBytes
      BY <1>2, Rounding, MoreBytes
    <2>2. RoundDown(from) * FrameBytes <= from
      BY Rounding
    <2> QED BY <1>1, <2>1, <2>2
  <1>3. CASE RoundUp(to) <= p
    <2>1. RoundUp(to) * FrameBytes <= p * FrameBytes
      BY <1>3, Rounding, MoreBytes
    <2>2. to <= RoundUp(to) * FrameBytes
      BY Rounding
    <2> QED BY <1>1, <2>1, <2>2
  <1> QED BY <1>2, <1>3

(* An address that is a multiple of the page size is where a page begins.  *)
LEMMA CutToPages ==
  ASSUME NEW a \in Nat, a % FrameBytes = 0
  PROVE  RoundDown(a) \in Nat /\ RoundDown(a) * FrameBytes = a
  <1>1. ASSUME NEW f \in Nat \ {0}, a % f = 0 PROVE (a \div f) * f = a
    BY <1>1
  <1> QED BY <1>1, Rounding, FramesAssumption DEF RoundDown

LEMMA Whole ==
  ASSUME NEW q \in Nat, NEW n \in Nat
  PROVE  /\ q * FrameBytes + n * FrameBytes = (q + n) * FrameBytes
         /\ RoundDown(q * FrameBytes + n * FrameBytes) = q + n
  <1>1. ASSUME NEW f \in Nat \ {0}
        PROVE  /\ q * f + n * f = (q + n) * f
               /\ \A a \in Nat : (a * f) \div f = a
    OBVIOUS
  <1>2. q + n \in Nat
    OBVIOUS
  <1> QED BY <1>1, <1>2, FramesAssumption DEF RoundDown

(* RoundUp takes no more pages than are needed.                            *)
LEMMA LeastCover ==
  ASSUME NEW a \in Nat, NEW n \in Nat, a <= n * FrameBytes
  PROVE  RoundUp(a) <= n
  <1>0. \A f, x \in Nat : x * f \in Nat /\ (x + 1) * f = x * f + f
    OBVIOUS
  <1>1. RoundUp(a) \in Nat /\ RoundUp(a) * FrameBytes < a + FrameBytes
    BY Rounding
  <1>2. n * FrameBytes \in Nat /\ (n + 1) * FrameBytes = n * FrameBytes + FrameBytes
        /\ RoundUp(a) * FrameBytes \in Nat
    BY <1>0, <1>1, FramesAssumption
  <1>3. CASE n + 1 <= RoundUp(a)
    <2>1. (n + 1) * FrameBytes <= RoundUp(a) * FrameBytes
      BY <1>1, <1>3, MoreBytes
    <2> QED BY <1>1, <1>2, <2>1, FramesAssumption
  <1> QED BY <1>1, <1>3

(* The bytes of a page between two addresses,                              *)
LEMMA BytesOf ==
  ASSUME NEW from \in Nat, NEW to \in Nat, NEW p \in Nat,
         from <= p * FrameBytes, (p + 1) * FrameBytes <= to
  PROVE  p * FrameBytes .. (p + 1) * FrameBytes - 1 \subseteq from .. to - 1
  <1>1. \A f, x \in Nat : x * f \in Nat
    OBVIOUS
  <1>2. p * FrameBytes \in Nat /\ (p + 1) * FrameBytes \in Nat
    BY <1>1, FramesAssumption
  <1> QED BY <1>2

(* and the first byte of memory, which is in page 0.                       *)
LEMMA ByteZero ==
  ASSUME NEW h, h.from = 0, h.to \in Nat, h.to > 0, NEW p,
         (p * FrameBytes .. (p + 1) * FrameBytes - 1) \cap (h.from .. h.to - 1) = {}
  PROVE  p # 0
  <1> SUFFICES ASSUME p = 0 PROVE FALSE
    OBVIOUS
  <1>1. 0 * FrameBytes = 0 /\ (0 + 1) * FrameBytes = FrameBytes
    BY FramesAssumption
  <1>2. 0 \in p * FrameBytes .. (p + 1) * FrameBytes - 1
    BY <1>1, FramesAssumption
  <1>3. 0 \in h.from .. h.to - 1
    OBVIOUS
  <1> QED BY <1>2, <1>3

-----------------------------------------------------------------------------
(* The least and the greatest of a set.                                    *)
LEMMA LeastExists ==
  ASSUME NEW S \in SUBSET Nat, S # {}
  PROVE  Min(S) \in S /\ \A y \in S : Min(S) <= y
  <1>1. PICK i \in S : \A j \in S : ~ (<<j, i>> \in OpToRel(<, Nat))
    BY NatLessThanWellFounded, WFMin
  <1>2. \A j \in S : ~(j < i)
    BY <1>1 DEF OpToRel
  <1>3. \A j \in S : i <= j
    BY <1>2
  <1> QED BY <1>3 DEF Min

(* The greatest of a finite set is the one that has the fewest above it.   *)
LEMMA GreatestExists ==
  ASSUME NEW S \in SUBSET Nat, S # {}, IsFiniteSet(S)
  PROVE  Max(S) \in S /\ \A y \in S : Max(S) >= y
  <1> DEFINE Over(x) == {y \in S : y > x}
             above == {Cardinality(Over(x)) : x \in S}
  <1>1. \A x : IsFiniteSet(Over(x)) /\ Cardinality(Over(x)) \in Nat
    BY FS_Subset, FS_CardinalityType
  <1>2. above \in SUBSET Nat /\ above # {}
    BY <1>1
  <1> HIDE DEF above
  <1>3. PICK m \in above : m = Min(above) /\ \A k \in above : m <= k
    BY <1>2, LeastExists
  <1>4. PICK x \in S : m = Cardinality(Over(x)) /\ \A y \in S : m <= Cardinality(Over(y))
    BY <1>3 DEF above
  <1>5. ASSUME NEW y \in S, y > x PROVE FALSE
    <2>1. x \in Nat /\ y \in Nat
      OBVIOUS
    <2>2. Over(y) \in SUBSET Over(x) /\ y \in Over(x) /\ y \notin Over(y)
      <3>1. \A z \in S : z > y => z > x
        BY <1>5, <2>1
      <3>2. ~(y > y)
        BY <2>1
      <3> QED BY <1>5, <3>1, <3>2
    <2> HIDE DEF Over
    <2>3. Cardinality(Over(y)) # Cardinality(Over(x)) /\ Cardinality(Over(y)) <= Cardinality(Over(x))
      BY <1>1, <2>2, FS_Subset
    <2> QED BY <1>1, <1>4, <2>3
  <1>6. \A y \in S : x >= y
    BY <1>5
  <1> QED BY <1>6 DEF Max

(* What pmm_init takes for the number of pages is one.                     *)
LEMMA PagesOfMap ==
  ASSUME NEW map \in E820Map, NEW ram, ram = {r \in map : r.usable}
  PROVE  Min({Max({0} \cup {RoundDown(r.to) : r \in ram}), MaxPages}) \in Nat
  <1>1. IsFiniteSet(ram) /\ \A r \in ram : r.to \in Nat
    <2>1. ram \in SUBSET map /\ IsFiniteSet(map) /\ \A r \in map : r.to \in Nat
      BY BootAssumption DEF BootAssumption
    <2> QED BY <2>1, FS_Subset
  <1> DEFINE ends == {RoundDown(r.to) : r \in ram}
             f == [r \in ram |-> RoundDown(r.to)]
  <1>2. ends \in SUBSET Nat
    BY <1>1, Rounding
  <1>3. f \in Surjection(ram, ends)
    BY DEF Surjection
  <1>4. IsFiniteSet(ends)
    <2> HIDE DEF ends, f
    <2> QED BY <1>1, <1>3, FS_Surjection
  <1>5. IsFiniteSet({0} \cup ends) /\ {0} \cup ends \in SUBSET Nat /\ {0} \cup ends # {}
    <2> HIDE DEF ends
    <2>1. ends \cup {0} = {0} \cup ends
      OBVIOUS
    <2> QED BY <1>2, <1>4, <2>1, FS_AddElement
  <1>6. Max({0} \cup ends) \in Nat
    <2> HIDE DEF ends
    <2> QED BY <1>5, GreatestExists
  <1>7. PICK top \in Nat : top = Max({0} \cup ends)
    BY <1>6
  <1>8. Min({top, MaxPages}) \in Nat
    BY FramesAssumption, LeastExists
  <1> QED BY <1>7, <1>8

-----------------------------------------------------------------------------
(* What the boot leaves in the bitmap of the x86,                          *)
LEMMA X86Boot ==
  ASSUME NEW map \in E820Map, NEW holes \in Holes, pmm_init(map, holes), given = {}
  PROVE  machine.pages \in Nat /\ clear \subseteq 0 .. machine.pages - 1 /\ PagesAreUsable
         /\ available = Cardinality(clear)
  <1> DEFINE ram == {r \in map : r.usable}
             limit == Min({Max({0} \cup {RoundDown(r.to) : r \in ram}), MaxPages})
             freed == UNION {pmm_free_region(r, limit) : r \in ram}
             taken == UNION {pmm_reserve_region(h, limit) : h \in holes}
  <1>1. /\ machine = [arm |-> FALSE, ram |-> ram, holes |-> holes, pages |-> limit]
        /\ clear = freed \ taken /\ available = Cardinality(freed \ taken)
    BY DEF pmm_init
  <1>2. limit \in Nat
    BY PagesOfMap
  <1>3. /\ \A r \in ram : r.from \in Nat /\ r.to \in Nat
        /\ \A h \in holes : h.from \in Nat /\ h.to \in Nat
        /\ \E h \in holes : h.from = 0 /\ h.to > 0
    BY BootAssumption DEF BootAssumption
  <1>4. machine.pages = limit /\ machine.ram = ram /\ machine.holes = holes
    BY <1>1
  <1> HIDE DEF limit, ram
  <1>5. \A p \in clear : p \in 0 .. limit - 1 /\ p \in Nat
    BY <1>1, <1>2 DEF pmm_free_region, Below
  <1>6. ASSUME NEW p \in clear
        PROVE  \E r \in ram : p * FrameBytes .. (p + 1) * FrameBytes - 1 \subseteq r.from .. r.to - 1
    <2>1. PICK r \in ram : RoundUp(r.from) <= p /\ p < RoundDown(r.to)
      BY <1>1 DEF pmm_free_region
    <2>2. r.from <= p * FrameBytes /\ (p + 1) * FrameBytes <= r.to
      BY <1>3, <1>5, <2>1, Inward
    <2> QED BY <1>3, <1>5, <2>2, BytesOf
  <1>7. ASSUME NEW p \in clear, NEW h \in holes
        PROVE  (p * FrameBytes .. (p + 1) * FrameBytes - 1) \cap (h.from .. h.to - 1) = {}
    <2>1. h.from \in Nat /\ h.to \in Nat /\ p \in Nat /\ p \in Below(limit)
      BY <1>3, <1>5 DEF Below
    <2>2. CASE h.to <= h.from
      <3>1. h.from .. h.to - 1 = {}
        BY <2>1, <2>2
      <3> QED BY <3>1
    <2>3. CASE h.to > h.from
      <3>1. p \notin pmm_reserve_region(h, limit)
        BY <1>1
      <3>2. ~(h.to <= h.from)
        BY <2>1, <2>3
      <3>3. ~(RoundDown(h.from) <= p /\ p < RoundUp(h.to))
        BY <2>1, <3>1, <3>2 DEF pmm_reserve_region
      <3>4. p < RoundDown(h.from) \/ RoundUp(h.to) <= p
        BY <2>1, <3>3, Rounding
      <3> QED BY <2>1, <3>4, Outside
    <2> QED BY <2>1, <2>2, <2>3
  <1>8. ASSUME NEW p \in clear PROVE p # 0
    <2>1. PICK h \in holes : h.from = 0 /\ h.to > 0
      BY <1>3
    <2> QED BY <1>3, <1>7, <2>1, ByteZero
  <1> QED BY <1>1, <1>2, <1>4, <1>5, <1>6, <1>7, <1>8 DEF PagesAreUsable

(* and in that of the ARM: a range that begins at a page is reserved whole. *)
LEMMA ArmBoot ==
  ASSUME NEW size \in ArmSize, NEW ranges \in ArmRanges,
         arm_pmm_init(size, ArmLowest, ranges), given = {}
  PROVE  machine.pages \in Nat /\ clear \subseteq 0 .. machine.pages - 1 /\ PagesAreUsable
         /\ available = Cardinality(clear)
  <1> DEFINE limit == Min({RoundDown(size), MaxPages})
             Hole(r) == [from |-> r.from, to |-> r.from + r.size]
             Taken(r) == {p \in Below(limit) :
                            /\ RoundDown(r.from) <= p
                            /\ p < RoundDown(RoundDown(r.from) * FrameBytes
                                               + RoundUp(r.size) * FrameBytes)}
             low == [from |-> 0, to |-> 1 * FrameBytes]
  <1>1. /\ machine.ram = {[from |-> 0, to |-> size]} /\ machine.pages = limit
        /\ machine.holes = {low} \cup {Hole(r) : r \in ranges}
        /\ clear = (1 .. limit - 1) \ UNION {Taken(r) : r \in ranges}
        /\ available = Cardinality(clear)
    BY DEF arm_pmm_init, ArmLowest
  <1>2. size \in Nat /\ \A r \in ranges : r.from \in Nat /\ r.size \in Nat /\ r.from % FrameBytes = 0
    BY BootAssumption DEF BootAssumption
  <1>3. limit \in Nat /\ limit <= RoundDown(size)
    BY <1>2, Rounding, FramesAssumption, LeastExists
  <1> HIDE DEF limit
  <1>4. \A p \in clear : p \in 1 .. limit - 1 /\ p \in Below(limit) /\ p \in Nat
    BY <1>1, <1>3 DEF Below
  <1>5. ASSUME NEW p \in clear
        PROVE  p * FrameBytes .. (p + 1) * FrameBytes - 1 \subseteq 0 .. size - 1
    <2>1. p \in Nat /\ RoundUp(0) <= p /\ p < RoundDown(size)
      <3>1. RoundUp(0) * FrameBytes < FrameBytes /\ RoundUp(0) \in Nat
        BY Rounding, FramesAssumption
      <3>2. RoundUp(0) < 1
        <4>1. 1 * FrameBytes <= RoundUp(0) * FrameBytes \/ RoundUp(0) < 1
          BY <3>1, MoreBytes
        <4> QED BY <3>1, <4>1, FramesAssumption
      <3> QED BY <1>2, <1>3, <1>4, <3>1, <3>2, Rounding
    <2>2. 0 <= p * FrameBytes /\ (p + 1) * FrameBytes <= size
      BY <1>2, <2>1, Inward
    <2> QED BY <1>2, <2>1, <2>2, BytesOf
  <1>6. ASSUME NEW p \in clear, NEW r \in ranges
        PROVE  (p * FrameBytes .. (p + 1) * FrameBytes - 1) \cap (r.from .. r.from + r.size - 1) = {}
    <2>1. PICK q \in Nat : q = RoundDown(r.from) /\ q * FrameBytes = r.from
      BY <1>2, CutToPages
    <2>2. PICK n \in Nat : n = RoundUp(r.size) /\ r.size <= n * FrameBytes
      BY <1>2, Rounding
    <2>3. RoundDown(q * FrameBytes + n * FrameBytes) = q + n
      BY Whole
    <2>4. p \in Nat /\ ~(q <= p /\ p < q + n)
      <3>1. p \notin Taken(r) /\ p \in Below(limit)
        BY <1>1, <1>4
      <3> QED BY <1>4, <2>1, <2>2, <2>3, <3>1
    <2>5. p < q \/ q + n <= p
      BY <2>4
    <2>6. PICK to \in Nat : to = r.from + r.size
      BY <1>2
    <2>7. to <= (q + n) * FrameBytes
      <3>1. PICK m \in Nat : m = n * FrameBytes
        <4>1. \A f, x \in Nat : x * f \in Nat
          OBVIOUS
        <4> QED BY <4>1, FramesAssumption
      <3>2. q * FrameBytes + n * FrameBytes = (q + n) * FrameBytes
        BY Whole
      <3>3. (q + n) * FrameBytes = r.from + m
        BY <2>1, <3>1, <3>2
      <3> QED BY <1>2, <2>2, <2>6, <3>1, <3>3
    <2>8. RoundUp(to) <= q + n
      BY <2>6, <2>7, LeastCover
    <2>9. RoundUp(to) <= p \/ p < RoundDown(r.from)
      BY <2>1, <2>4, <2>5, <2>6, <2>8, Rounding
    <2> QED BY <1>2, <2>4, <2>6, <2>9, Outside
  <1>7. ASSUME NEW p \in clear
        PROVE  (p * FrameBytes .. (p + 1) * FrameBytes - 1) \cap (0 .. 1 * FrameBytes - 1) = {}
    <2>1. p \in Nat /\ 1 <= p
      BY <1>4
    <2>2. 1 * FrameBytes <= p * FrameBytes /\ 1 * FrameBytes \in Nat /\ p * FrameBytes \in Nat
          /\ (p + 1) * FrameBytes \in Nat
      <3>1. \A f, x \in Nat : x * f \in Nat
        OBVIOUS
      <3> QED BY <2>1, <3>1, MoreBytes, FramesAssumption
    <2> QED BY <2>2
  <1>8. clear \subseteq 0 .. limit - 1 /\ \A p \in clear : p # 0
    BY <1>3, <1>4
  <1>9. PagesAreUsable
    <2> SUFFICES ASSUME NEW p \in clear \cup given
                 PROVE  /\ p # 0
                        /\ \E r \in machine.ram :
                             p * FrameBytes .. (p + 1) * FrameBytes - 1 \subseteq r.from .. r.to - 1
                        /\ \A h \in machine.holes :
                             (p * FrameBytes .. (p + 1) * FrameBytes - 1) \cap (h.from .. h.to - 1) = {}
      BY DEF PagesAreUsable
    <2>1. p \in clear /\ p # 0
      BY <1>8
    <2>2. \E r \in machine.ram :
             p * FrameBytes .. (p + 1) * FrameBytes - 1 \subseteq r.from .. r.to - 1
      BY <1>1, <1>5, <2>1
    <2>3. ASSUME NEW h \in machine.holes
          PROVE  (p * FrameBytes .. (p + 1) * FrameBytes - 1) \cap (h.from .. h.to - 1) = {}
      <3>1. CASE h = low
        BY <1>7, <2>1, <3>1
      <3>2. CASE h # low
        <4>1. PICK r \in ranges : h = Hole(r)
          BY <1>1, <3>2
        <4>2. h.from = r.from /\ h.to = r.from + r.size
          BY <4>1
        <4>3. (h.from .. h.to - 1) = (r.from .. r.from + r.size - 1)
          BY <1>2, <4>2
        <4> QED BY <1>6, <2>1, <4>3
      <3> QED BY <3>1, <3>2
    <2> QED BY <2>1, <2>2, <2>3
  <1> QED BY <1>1, <1>3, <1>8, <1>9

-----------------------------------------------------------------------------
(* A range of pages can be counted.                                        *)
LEMMA CountsAreNumbers ==
  ASSUME NEW n \in Nat, NEW S, S \subseteq 0 .. n - 1
  PROVE  IsFiniteSet(S) /\ Cardinality(S) \in Nat
  <1>1. IsFiniteSet(0 .. n - 1)
    BY FS_Interval
  <1>2. IsFiniteSet(S)
    BY <1>1, FS_Subset
  <1> QED BY <1>2, FS_CardinalityType

LEMMA FramesAreFinite ==
  ASSUME FramesInv
  PROVE  /\ IsFiniteSet(clear) /\ Cardinality(clear) \in Nat
         /\ IsFiniteSet(given) /\ Cardinality(given) \in Nat
  <1>1. /\ machine.pages \in Nat /\ clear \subseteq 0 .. machine.pages - 1
        /\ given \subseteq 0 .. machine.pages - 1
    BY DEF FramesInv, PagesInRange
  <1> QED BY <1>1, CountsAreNumbers

(* Nothing moves.                                                          *)
LEMMA FramesAreKept ==
  ASSUME FramesInv, machine' = machine, available' = available,
         clear' = clear, given' = given, used_pages' = used_pages
  PROVE  FramesInv'
  BY DEF FramesInv, PagesInRange, FramesAreSound, PagesAreUsable, FramesAreCounted

(* One page changes hands: those that are clear or given stay the same.    *)
LEMMA MovedFrame ==
  ASSUME FramesInv, machine' = machine, available' = available, NEW p,
         \/ /\ p \in clear /\ clear' = clear \ {p} /\ given' = given \cup {p}
            /\ used_pages' = used_pages + 1
            /\ Cardinality(clear') = Cardinality(clear) - 1
            /\ Cardinality(given') = Cardinality(given) + 1
         \/ /\ p \in given /\ clear' = clear \cup {p} /\ given' = given \ {p}
            /\ used_pages' = used_pages - 1
            /\ Cardinality(clear') = Cardinality(clear) + 1
            /\ Cardinality(given') = Cardinality(given) - 1
  PROVE  FramesInv'
  <1>1. clear' \cup given' = clear \cup given /\ clear' \cap given' = {}
    BY DEF FramesInv, FramesAreSound, FramesAreCounted
  <1>2. PagesAreUsable'
    BY <1>1 DEF FramesInv, FramesAreSound, PagesAreUsable
  <1>3. /\ available \in Int /\ used_pages \in Int /\ Cardinality(clear) \in Nat
        /\ Cardinality(given) \in Nat
        /\ used_pages = Cardinality(given) /\ available - used_pages = Cardinality(clear)
    BY FramesAreFinite DEF FramesInv, PagesInRange, FramesAreSound, FramesAreCounted
  <1>4. used_pages' \in Int /\ used_pages' = Cardinality(given')
        /\ available' - used_pages' = Cardinality(clear')
    <2>1. CASE used_pages' = used_pages + 1
      BY <1>3, <2>1
    <2>2. CASE used_pages' = used_pages - 1
      BY <1>3, <2>2
    <2> QED BY <2>1, <2>2
  <1>5. PagesInRange'
    BY <1>1, <1>3, <1>4 DEF FramesInv, PagesInRange
  <1> QED BY <1>1, <1>2, <1>4, <1>5 DEF FramesInv, FramesAreSound, FramesAreCounted

(* The boot establishes the invariant,                                     *)
LEMMA FramesBegin == FramesInit => FramesInv
  <1> SUFFICES ASSUME FramesInit PROVE FramesInv
    OBVIOUS
  <1>1. given = {} /\ used_pages = 0
    BY DEF FramesInit
  <1>2. machine.pages \in Nat /\ clear \subseteq 0 .. machine.pages - 1 /\ PagesAreUsable
        /\ available = Cardinality(clear)
    <2>1. CASE \E map \in E820Map, holes \in Holes : pmm_init(map, holes)
      BY <1>1, <2>1, X86Boot
    <2>2. CASE \E size \in ArmSize, ranges \in ArmRanges : arm_pmm_init(size, ArmLowest, ranges)
      BY <1>1, <2>2, ArmBoot
    <2> QED BY <2>1, <2>2 DEF FramesInit
  <1>3. Cardinality(clear) \in Nat /\ Cardinality({}) = 0
    BY <1>2, CountsAreNumbers, FS_EmptySet
  <1>4. FramesAreCounted
    BY <1>1, <1>2, <1>3 DEF FramesAreCounted
  <1> QED BY <1>1, <1>2, <1>3, <1>4 DEF FramesInv, PagesInRange, FramesAreSound

(* an allocation keeps it,                                                 *)
LEMMA AllocKeeps == ASSUME FramesInv, AllocPage PROVE FramesInv'
  <1>1. machine' = machine /\ available' = available
    BY DEF AllocPage
  <1>2. CASE clear = {}
    <2>1. clear' = clear /\ given' = given /\ used_pages' = used_pages
      BY <1>2 DEF AllocPage
    <2> QED BY <1>1, <2>1, FramesAreKept
  <1>3. CASE clear # {}
    <2>1. PICK p \in clear : p = Min(clear)
      BY <1>3, LeastExists DEF FramesInv, PagesInRange
    <2>2. /\ clear' = clear \ {p} /\ given' = given \cup {p} /\ used_pages' = used_pages + 1
      BY <1>3, <2>1 DEF AllocPage
    <2>3. p \notin given
      BY DEF FramesInv, FramesAreSound, FramesAreCounted
    <2>4. /\ Cardinality(clear') = Cardinality(clear) - 1
          /\ Cardinality(given') = Cardinality(given) + 1
      BY <2>2, <2>3, FramesAreFinite, FS_AddElement, FS_RemoveElement
    <2> QED BY <1>1, <2>2, <2>4, MovedFrame
  <1> QED BY <1>2, <1>3

(* and so does a release, of a page that was given, twice or beyond the end. *)
LEMMA FreeKeeps == ASSUME FramesInv, NEW p \in 0 .. MaxPages, FreePage(p) PROVE FramesInv'
  <1>1. machine' = machine /\ available' = available /\ given' = given \ {p}
    BY DEF FreePage
  <1>2. p \in given \cup clear \cup {machine.pages}
    BY DEF FreePage
  <1>3. CASE p < machine.pages /\ BitIsSet(p)
    <2>1. clear' = clear \cup {p} /\ used_pages' = used_pages - 1
      BY <1>3 DEF FreePage
    <2>2. p \in given /\ p \notin clear
      BY <1>2, <1>3 DEF BitIsSet, FramesInv, PagesInRange
    <2>3. /\ Cardinality(clear') = Cardinality(clear) + 1
          /\ Cardinality(given') = Cardinality(given) - 1
      BY <1>1, <2>1, <2>2, FramesAreFinite, FS_AddElement, FS_RemoveElement
    <2> QED BY <1>1, <2>1, <2>2, <2>3, MovedFrame
  <1>4. CASE ~(p < machine.pages /\ BitIsSet(p))
    <2>1. clear' = clear /\ used_pages' = used_pages
      BY <1>4 DEF FreePage
    <2>2. p \notin given
      <3>1. CASE BitIsSet(p)
        BY <1>4, <3>1 DEF FramesInv, PagesInRange
      <3>2. CASE ~BitIsSet(p)
        BY <3>2 DEF BitIsSet, FramesInv, FramesAreSound, FramesAreCounted
      <3> QED BY <3>1, <3>2
    <2>3. given' = given
      BY <1>1, <2>2
    <2> QED BY <1>1, <2>1, <2>3, FramesAreKept
  <1> QED BY <1>3, <1>4

(* Each page the bitmaps hand out is RAM, holds no byte of the kernel or   *)
(* of what the boot loader left, has one owner, and is counted: for every  *)
(* page size, firmware map and set of reserved ranges.                     *)
THEOREM FramesAlwaysSound == FramesSpec => []FramesAreSound
  <1>1. FramesInv /\ [FramesNext]_fvars => FramesInv'
    <2> SUFFICES ASSUME FramesInv, [FramesNext]_fvars PROVE FramesInv'
      OBVIOUS
    <2>1. CASE AllocPage
      BY <2>1, AllocKeeps
    <2>2. ASSUME NEW p \in 0 .. MaxPages, FreePage(p) PROVE FramesInv'
      BY <2>2, FreeKeeps
    <2>3. CASE UNCHANGED fvars
      BY <2>3, FramesAreKept DEF fvars
    <2> QED BY <2>1, <2>2, <2>3 DEF FramesNext
  <1>2. FramesInv => FramesAreSound
    BY DEF FramesInv
  <1> QED BY <1>1, <1>2, FramesBegin, PTL DEF FramesSpec

-----------------------------------------------------------------------------
(***************************************************************************)
(* Loader, for all files whose segments share no page: loading a program   *)
(* takes each frame once and gives all of them back if it fails, and what  *)
(* was loaded is what the file says.                                       *)
(***************************************************************************)
LoadField == {"image", "free", "bytes", "pages", "tables", "ok"}
Shaped(m) == m = [f \in LoadField |-> m[f]]

(* A load that began with the frames F, when the frames held old.          *)
IsLoad(m, image, F, old) ==
  /\ Shaped(m) /\ m.image = image /\ m.ok \in BOOLEAN
  /\ m.bytes = [f \in LoaderFrame |-> m.bytes[f]]
  /\ m.free \subseteq F /\ F \subseteq LoaderFrame
  /\ PagesFor(m) \cup TablesOf(m) = F \ m.free
  /\ PagesFor(m) \cap TablesOf(m) = {}
  /\ \A p, q \in DOMAIN m.pages : m.pages[p].frame = m.pages[q].frame => p = q
  /\ \A f \in LoaderFrame \ F : m.bytes[f] = old[f]

(* What was mapped stays as it was.                                        *)
Keeps(m, n) ==
  \A p \in DOMAIN m.pages :
    /\ p \in DOMAIN n.pages /\ n.pages[p] = m.pages[p]
    /\ \A i \in 0 .. PageBytes - 1 :
         n.bytes[m.pages[p].frame][i] = m.bytes[m.pages[p].frame][i]

Blank(n, page, flags) ==
  /\ page \in DOMAIN n.pages /\ n.pages[page].rights = RightsOf(flags, n.image.arm)
  /\ \A i \in 0 .. PageBytes - 1 : n.bytes[n.pages[page].frame][i] = 0

-----------------------------------------------------------------------------
(* Frames.                                                                 *)
LeastOf == INSTANCE FoldProofs WITH Op <- LAMBDA x, e : x, Good <- LAMBDA x : TRUE

LEMMA TakenAreFinite ==
  ASSUME NEW T \in SUBSET LoaderFrame
  PROVE  IsFiniteSet(T) /\ Cardinality(T) \in Nat
  <1>1. IsFiniteSet(LoaderFrame)
    BY FS_Interval, LoaderAssumption DEF LoaderFrame, LoaderAssumption
  <1> QED BY <1>1, FS_Subset, FS_CardinalityType

LEMMA LeastIsIn ==
  ASSUME NEW T \in SUBSET LoaderFrame, T # {}
  PROVE  Min(T) \in T
  <1>1. T \in SUBSET Nat
    BY DEF LoaderFrame
  <1>2. PICK x \in T : \A y \in T : ~(y < x)
    BY <1>1, LeastOf!LeastExists
  <1>3. \A y \in T : x <= y
    BY <1>1, <1>2
  <1> QED BY <1>2, <1>3 DEF Min

LEMMA EnoughFrames ==
  ASSUME NEW T \in SUBSET LoaderFrame
  PROVE  /\ ~(Cardinality(T) < 1) => T # {}
         /\ ~(Cardinality(T) < 2) => T # {} /\ \A f \in T : T \ {f} # {}
  <1>1. IsFiniteSet(T) /\ Cardinality(T) \in Nat
    BY TakenAreFinite
  <1>2. T = {} => Cardinality(T) = 0
    BY FS_EmptySet
  <1>3. ASSUME NEW f \in T, T \ {f} = {} PROVE Cardinality(T) < 2
    <2>1. Cardinality(T \ {f}) = Cardinality(T) - 1
      BY <1>1, FS_RemoveElement
    <2>2. Cardinality(T \ {f}) = 0
      BY <1>3, FS_EmptySet
    <2> QED BY <1>1, <2>1, <2>2
  <1> QED BY <1>1, <1>2, <1>3

-----------------------------------------------------------------------------
(* Mapping a page.                                                         *)
HasMapped(m, n, P, flags) ==
  /\ Keeps(m, n) /\ DOMAIN n.pages \subseteq DOMAIN m.pages \cup P
  /\ n.ok => m.ok /\ \A p \in P : Blank(n, p, flags)

LEMMA FieldsOfLoad ==
  ASSUME NEW m, Shaped(m)
  PROVE  DOMAIN m = LoadField /\ \A n : Shaped(n) /\ (\A f \in LoadField : n[f] = m[f]) => n = m
  BY DEF Shaped

LEMMA FailedIs ==
  ASSUME NEW m, NEW image, NEW F, NEW old, IsLoad(m, image, F, old)
  PROVE  /\ IsLoad(Failed(m), image, F, old) /\ ~Failed(m).ok /\ Failed(m).pages = m.pages
         /\ Keeps(m, Failed(m))
         /\ \A P, flags : HasMapped(m, Failed(m), P, flags)
  <1> DEFINE n == Failed(m)
  <1>1. /\ n.image = m.image /\ n.free = m.free /\ n.bytes = m.bytes /\ n.pages = m.pages
        /\ n.tables = m.tables /\ n.ok = FALSE
    BY DEF Failed, IsLoad, Shaped, LoadField
  <1>2. Shaped(n)
    BY DEF Failed, IsLoad, Shaped, LoadField
  <1> HIDE DEF n
  <1>3. PagesFor(n) = PagesFor(m) /\ TablesOf(n) = TablesOf(m)
    BY <1>1 DEF PagesFor, TablesOf
  <1>4. IsLoad(n, image, F, old)
    BY <1>1, <1>2, <1>3 DEF IsLoad
  <1>5. Keeps(m, n)
    BY <1>1 DEF Keeps
  <1>6. \A P, flags : HasMapped(m, n, P, flags)
    BY <1>1, <1>5 DEF HasMapped
  <1> QED BY <1>1, <1>4, <1>5, <1>6 DEF n

LEMMA PageTaken ==
  ASSUME NEW m, NEW image, NEW F, NEW old, IsLoad(m, image, F, old),
         NEW page, page \notin DOMAIN m.pages, NEW flags,
         NEW frame \in m.free, NEW table, NEW new \in SUBSET (m.free \ {frame}),
         Range(table) = TablesOf(m) \cup new
  PROVE  LET n == [m EXCEPT !.free = (m.free \ {frame}) \ Range(table), !.tables = table,
                            !.bytes = Zeroed(m, frame),
                            !.pages = Entered(@, page,
                              [frame |-> frame, rights |-> RightsOf(flags, m.image.arm)])]
         IN IsLoad(n, image, F, old) /\ (m.ok => HasMapped(m, n, {page}, flags))
  <1> DEFINE entry == [frame |-> frame, rights |-> RightsOf(flags, m.image.arm)]
             n == [m EXCEPT !.free = (m.free \ {frame}) \ Range(table), !.tables = table,
                            !.bytes = Zeroed(m, frame), !.pages = Entered(@, page, entry)]
  <1>1. /\ n.image = m.image /\ n.free = (m.free \ {frame}) \ Range(table)
        /\ n.bytes = Zeroed(m, frame) /\ n.pages = Entered(m.pages, page, entry)
        /\ n.tables = table /\ n.ok = m.ok
    BY DEF IsLoad, Shaped, LoadField
  <1>2. Shaped(n)
    BY DEF IsLoad, Shaped, LoadField
  <1>3. entry.frame = frame /\ entry.rights = RightsOf(flags, m.image.arm)
    OBVIOUS
  <1> HIDE DEF n, entry
  <1>4. /\ DOMAIN n.pages = DOMAIN m.pages \cup {page} /\ n.pages[page] = entry
        /\ \A p \in DOMAIN m.pages : n.pages[p] = m.pages[p]
    BY <1>1 DEF Entered
  <1>5. PagesFor(n) = PagesFor(m) \cup {frame}
    BY <1>3, <1>4 DEF PagesFor
  <1>6. TablesOf(n) = TablesOf(m) \cup new
    BY <1>1 DEF TablesOf
  <1>7. frame \in LoaderFrame /\ frame \in F /\ frame \notin PagesFor(m)
    BY DEF IsLoad
  <1>8. /\ n.bytes = [f \in LoaderFrame |-> n.bytes[f]] /\ n.bytes[frame] = ZeroPage
        /\ \A f \in LoaderFrame \ {frame} : n.bytes[f] = m.bytes[f]
    BY <1>1, <1>7 DEF Zeroed, IsLoad
  <1>9. \A p \in DOMAIN m.pages : m.pages[p].frame \in F /\ m.pages[p].frame # frame
    BY <1>7 DEF PagesFor, IsLoad
  <1>10. \A p, q \in DOMAIN n.pages : n.pages[p].frame = n.pages[q].frame => p = q
    BY <1>3, <1>4, <1>9 DEF IsLoad
  <1>11. \A f \in LoaderFrame \ F : n.bytes[f] = old[f]
    BY <1>7, <1>8 DEF IsLoad
  <1>12. /\ n.free \subseteq F /\ PagesFor(n) \cup TablesOf(n) = F \ n.free
         /\ PagesFor(n) \cap TablesOf(n) = {}
    BY <1>1, <1>5, <1>6 DEF IsLoad, TablesOf
  <1>13. IsLoad(n, image, F, old)
    BY <1>1, <1>2, <1>8, <1>10, <1>11, <1>12 DEF IsLoad
  <1>14. Keeps(m, n)
    BY <1>4, <1>8, <1>9 DEF Keeps, IsLoad
  <1>15. Blank(n, page, flags)
    <2>1. \A i \in 0 .. PageBytes - 1 : n.bytes[frame][i] = 0
      BY <1>8 DEF ZeroPage
    <2> QED BY <1>1, <1>3, <1>4, <2>1 DEF Blank
  <1>16. m.ok => HasMapped(m, n, {page}, flags)
    BY <1>4, <1>14, <1>15 DEF HasMapped
  <1> QED BY <1>13, <1>16 DEF n, entry

LEMMA MapPageIs ==
  ASSUME NEW m, NEW image, NEW F, NEW old, IsLoad(m, image, F, old),
         NEW page, page \notin DOMAIN m.pages, NEW flags
  PROVE  IsLoad(MapPage(m, page, flags), image, F, old)
         /\ HasMapped(m, MapPage(m, page, flags), {page}, flags)
  <1> DEFINE region == page \div TablePages
             needed == IF region \in DOMAIN m.tables THEN 1 ELSE 2
             frame == TakenBy(m)
             rest == m.free \ {frame}
             table == IF needed = 1 THEN m.tables ELSE Entered(m.tables, region, Min(rest))
             fails == ~m.ok \/ ~MayMap(m, page, flags) \/ Cardinality(m.free) < needed
  <1>1. CASE fails
    <2>1. MapPage(m, page, flags) = Failed(m)
      BY <1>1 DEF MapPage
    <2> QED BY <2>1, FailedIs
  <1>2. CASE ~fails
    <2> DEFINE n == [m EXCEPT !.free = (m.free \ {frame}) \ Range(table), !.tables = table,
                            !.bytes = Zeroed(m, frame),
                            !.pages = Entered(@, page,
                              [frame |-> frame, rights |-> RightsOf(flags, m.image.arm)])]
    <2>1. MapPage(m, page, flags) = n
      BY <1>2 DEF MapPage
    <2>2. m.ok /\ m.free \in SUBSET LoaderFrame
      BY <1>2 DEF IsLoad
    <2>3. m.free # {} /\ (needed = 2 => \A f \in m.free : m.free \ {f} # {})
      BY <1>2, <2>2, EnoughFrames
    <2>4. frame \in m.free
      BY <2>2, <2>3, LeastIsIn DEF TakenBy
    <2> HIDE DEF frame
    <2>5. \E new \in SUBSET (m.free \ {frame}) : Range(table) = TablesOf(m) \cup new
      <3>1. CASE region \in DOMAIN m.tables
        <4>1. table = m.tables
          BY <3>1
        <4>2. Range(table) = TablesOf(m) \cup {} /\ {} \in SUBSET (m.free \ {frame})
          BY <4>1 DEF TablesOf
        <4> HIDE DEF table
        <4> QED BY <4>2
      <3>2. CASE region \notin DOMAIN m.tables
        <4>1. table = Entered(m.tables, region, Min(rest)) /\ needed = 2
          BY <3>2
        <4>2. rest # {} /\ rest \in SUBSET LoaderFrame
          BY <2>2, <2>3, <2>4, <4>1
        <4>3. Min(rest) \in rest
          BY <4>2, LeastIsIn
        <4>4. Range(table) = TablesOf(m) \cup {Min(rest)}
          <5>1. ASSUME NEW f, NEW x, NEW y, x \notin DOMAIN f
                PROVE  Range(Entered(f, x, y)) = Range(f) \cup {y}
            <6> DEFINE g == Entered(f, x, y)
            <6>1. /\ DOMAIN g = DOMAIN f \cup {x} /\ g[x] = y
                  /\ \A z \in DOMAIN f : g[z] = f[z]
              BY <5>1 DEF Entered
            <6> HIDE DEF g
            <6>2. \A v : v \in Range(g) <=> \E z \in DOMAIN f \cup {x} : v = g[z]
              BY <6>1 DEF Range
            <6>3. \A v : v \in Range(f) <=> \E z \in DOMAIN f : v = f[z]
              BY DEF Range
            <6>4. \A v : v \in Range(g) <=> v \in Range(f) \cup {y}
              BY <6>1, <6>2, <6>3
            <6> QED BY <6>4 DEF g
          <5> HIDE DEF rest, region
          <5>2. Range(Entered(m.tables, region, Min(rest))) = Range(m.tables) \cup {Min(rest)}
            BY <3>2, <5>1
          <5> QED BY <4>1, <5>2 DEF TablesOf
        <4>5. {Min(rest)} \in SUBSET (m.free \ {frame})
          BY <4>3
        <4> HIDE DEF rest, table
        <4> QED BY <4>4, <4>5
      <3> HIDE DEF table
      <3> QED BY <3>1, <3>2
    <2> HIDE DEF frame, table
    <2>6. IsLoad(n, image, F, old) /\ HasMapped(m, n, {page}, flags)
      BY <2>2, <2>4, <2>5, PageTaken
    <2> QED BY <2>1, <2>6
  <1> QED BY <1>1, <1>2

-----------------------------------------------------------------------------
(* Mapping page after page.                                                *)
MapAsked(n, a) == MapPage(n, a.page, a.flags)
EachPage == INSTANCE FoldProofs WITH Op <- MapAsked, Good <- LAMBDA x : TRUE

LEMMA StaysBlank ==
  ASSUME NEW m, NEW n, Keeps(m, n), m.image = n.image, NEW p, NEW flags, Blank(m, p, flags)
  PROVE  Blank(n, p, flags)
  BY DEF Keeps, Blank

LEMMA KeepsOn ==
  ASSUME NEW m, NEW n, NEW o, Keeps(m, n), Keeps(n, o)
  PROVE  Keeps(m, o)
  BY DEF Keeps

LEMMA MapsOn ==
  ASSUME NEW m, NEW n, NEW o, n.image = o.image, NEW P, NEW Q, NEW flags,
         HasMapped(m, n, P, flags), HasMapped(n, o, Q, flags)
  PROVE  HasMapped(m, o, P \cup Q, flags)
  <1>1. Keeps(m, n) /\ Keeps(n, o) /\ Keeps(m, o)
    BY KeepsOn DEF HasMapped
  <1>2. DOMAIN o.pages \subseteq DOMAIN m.pages \cup (P \cup Q)
    BY DEF HasMapped
  <1>3. o.ok => m.ok /\ n.ok
    BY DEF HasMapped
  <1>4. ASSUME o.ok, NEW p \in P \cup Q PROVE Blank(o, p, flags)
    <2>1. CASE p \in P
      <3>1. Blank(n, p, flags)
        BY <1>3, <1>4, <2>1 DEF HasMapped
      <3> QED BY <1>1, <3>1, StaysBlank
    <2>2. CASE p \in Q
      BY <1>4, <2>2 DEF HasMapped
    <2> QED BY <1>4, <2>1, <2>2
  <1> QED BY <1>1, <1>2, <1>3, <1>4 DEF HasMapped

LEMMA NothingMapped ==
  ASSUME NEW m, NEW flags
  PROVE  HasMapped(m, m, {}, flags) /\ Keeps(m, m)
  BY DEF HasMapped, Keeps

Asked(first, last, flags) ==
  [i \in 1 .. last - first + 1 |-> [page |-> first + i - 1, flags |-> flags]]

LEMMA RangeFolds ==
  ASSUME NEW m, NEW first, NEW last, NEW flags
  PROVE  MapRange(m, first, last, flags) = EachPage!Folded(m, Asked(first, last, flags))
  BY DEF MapRange, MapAsked, Asked, FoldLeft, MapThenFoldSet, Max, EachPage!Folded,
         EachPage!FoldLeft, EachPage!MapThenFoldSet, EachPage!Max

LEMMA RangeIs ==
  ASSUME NEW m, NEW image, NEW F, NEW old, IsLoad(m, image, F, old),
         NEW first \in Int, NEW last \in Int, NEW flags,
         (first .. last) \cap DOMAIN m.pages = {}
  PROVE  IsLoad(MapRange(m, first, last, flags), image, F, old)
         /\ HasMapped(m, MapRange(m, first, last, flags), first .. last, flags)
  <1> DEFINE asked == Asked(first, last, flags)
             S == {asked[i] : i \in DOMAIN asked}
             P(k) == first .. first + k - 1
             Good(n, k) == IsLoad(n, image, F, old) /\ HasMapped(m, n, P(k), flags)
  <1>1. PICK len \in Nat : len = IF last - first + 1 < 0 THEN 0 ELSE last - first + 1
    <2>1. (IF last - first + 1 < 0 THEN 0 ELSE last - first + 1) \in Nat
      OBVIOUS
    <2> QED BY <2>1
  <1>2. /\ asked \in Seq(S) /\ Len(asked) = len /\ P(len) = first .. last
        /\ \A k \in Nat : k < len => asked[k + 1].page = first + k /\ asked[k + 1].flags = flags
    <2>1. 1 .. last - first + 1 = 1 .. len /\ P(len) = first .. last
      BY <1>1
    <2>2. asked = [i \in 1 .. len |-> [page |-> first + i - 1, flags |-> flags]]
      BY <2>1 DEF Asked
    <2>3. asked \in [1 .. len -> S]
      BY <2>2
    <2>4. asked \in Seq(S) /\ Len(asked) = len
      <3> HIDE DEF asked, S
      <3> QED BY <2>3
    <2>5. ASSUME NEW k \in Nat, k < len
          PROVE  asked[k + 1].page = first + k /\ asked[k + 1].flags = flags
      <3>1. k + 1 \in 1 .. len /\ first + (k + 1) - 1 = first + k
        BY <2>5
      <3>2. asked[k + 1] = [page |-> first + (k + 1) - 1, flags |-> flags]
        BY <2>2, <3>1
      <3> QED BY <3>1, <3>2
    <2> QED BY <2>1, <2>4, <2>5
  <1> HIDE DEF asked, S
  <1>3. PICK h : EachPage!Passes(h, m, asked) /\ EachPage!Folded(m, asked) = h[Len(asked)]
    BY <1>2, EachPage!FoldedPasses
  <1>4. h[0] = m /\ \A k \in Nat : k < len => h[k + 1] = MapPage(h[k], first + k, flags)
    BY <1>2, <1>3 DEF EachPage!Passes, MapAsked
  <1>5. Good(h[0], 0)
    <2>1. P(0) = {}
      OBVIOUS
    <2> QED BY <1>4, <2>1, NothingMapped
  <1>6. ASSUME NEW k \in Nat, k < len, Good(h[k], k) PROVE Good(h[k + 1], k + 1)
    <2>1. first + k \in first .. last /\ first + k \notin P(k) /\ P(k) \cup {first + k} = P(k + 1)
      BY <1>1, <1>6
    <2>2. first + k \notin DOMAIN h[k].pages
      BY <1>6, <2>1 DEF HasMapped
    <2>3. /\ IsLoad(h[k + 1], image, F, old)
          /\ HasMapped(h[k], h[k + 1], {first + k}, flags)
      BY <1>4, <1>6, <2>2, MapPageIs
    <2>4. h[k].image = h[k + 1].image
      BY <1>6, <2>3 DEF IsLoad
    <2>5. HasMapped(m, h[k + 1], P(k) \cup {first + k}, flags)
      <3> HIDE DEF P
      <3> QED BY <1>6, <2>3, <2>4, MapsOn
    <2> QED BY <2>1, <2>3, <2>5
  <1> DEFINE bad == {k \in Nat : k <= len /\ ~Good(h[k], k)}
  <1>7. bad = {}
    <2>1. SUFFICES ASSUME bad # {} PROVE FALSE
      OBVIOUS
    <2> HIDE DEF Good
    <2>2. PICK b \in bad : \A k \in bad : ~(k < b)
      <3>1. bad \in SUBSET Nat
        OBVIOUS
      <3> HIDE DEF bad
      <3> QED BY <2>1, <3>1, EachPage!LeastExists
    <2>3. b \in Nat /\ b <= len /\ ~Good(h[b], b) /\ b # 0
      BY <1>5, <2>2
    <2>4. PICK k \in Nat : b = k + 1
      BY <2>3
    <2>5. k < len /\ k \notin bad
      BY <2>2, <2>3, <2>4
    <2>6. Good(h[k], k)
      BY <2>5
    <2> QED BY <1>6, <2>3, <2>4, <2>5, <2>6
  <1>8. Good(h[len], len)
    <2> HIDE DEF Good
    <2> QED BY <1>7
  <1>9. MapRange(m, first, last, flags) = h[len]
    BY <1>2, <1>3, RangeFolds DEF asked
  <1> QED BY <1>2, <1>8, <1>9

-----------------------------------------------------------------------------
(* Addresses.                                                              *)
LEMMA AddressIs ==
  ASSUME NEW a \in Nat
  PROVE  /\ PageOf(a) \in Nat /\ a % PageBytes \in 0 .. PageBytes - 1
         /\ a = PageOf(a) * PageBytes + (a % PageBytes)
  <1>1. \A n \in Nat \ {0} : a \div n \in Nat /\ a % n \in 0 .. n - 1 /\ a = (a \div n) * n + (a % n)
    OBVIOUS
  <1> QED BY <1>1, LoaderAssumption DEF LoaderAssumption, PageOf

LEMMA AddressOf ==
  ASSUME NEW p \in Nat, NEW i \in 0 .. PageBytes - 1
  PROVE  /\ p * PageBytes + i \in Nat
         /\ PageOf(p * PageBytes + i) = p /\ (p * PageBytes + i) % PageBytes = i
  <1>0. PageBytes \in Nat \ {0}
    BY LoaderAssumption DEF LoaderAssumption
  <1>1. PICK a \in Nat : a = p * PageBytes + i
    <2>1. p * PageBytes \in Nat
      BY <1>0
    <2> QED BY <1>0, <2>1
  <1>2. PICK q \in Nat, j \in 0 .. PageBytes - 1 :
          q = PageOf(a) /\ j = a % PageBytes /\ a = q * PageBytes + j
    BY AddressIs
  <1>3. \A n \in Nat \ {0} : \A x, y \in Nat : \A k, l \in 0 .. n - 1 :
          x * n + k = y * n + l => x = y /\ k = l
    <2>1. SUFFICES ASSUME NEW n \in Nat \ {0}, NEW x \in Nat, NEW y \in Nat,
                          NEW k \in 0 .. n - 1, NEW l \in 0 .. n - 1, x * n + k = y * n + l
                   PROVE  x = y /\ k = l
      OBVIOUS
    <2>2. (x - y) * n = l - k
      BY <2>1
    <2>3. CASE x < y
      <3>1. PICK d \in Nat : y = x + 1 + d
        <4>1. y - x - 1 \in Nat /\ y = x + 1 + (y - x - 1)
          BY <2>3
        <4> QED BY <4>1
      <3>2. y * n = x * n + n + d * n /\ d * n \in Nat /\ x * n \in Nat
        BY <3>1
      <3> QED BY <2>1, <3>2
    <2>4. CASE y < x
      <3>1. PICK d \in Nat : x = y + 1 + d
        <4>1. x - y - 1 \in Nat /\ x = y + 1 + (x - y - 1)
          BY <2>4
        <4> QED BY <4>1
      <3>2. x * n = y * n + n + d * n /\ d * n \in Nat /\ y * n \in Nat
        BY <3>1
      <3> QED BY <2>1, <3>2
    <2>5. CASE x = y
      <3>1. y * n \in Nat
        OBVIOUS
      <3> QED BY <2>1, <2>5, <3>1
    <2> QED BY <2>3, <2>4, <2>5
  <1>4. p = q /\ i = j
    BY <1>0, <1>1, <1>2, <1>3
  <1> QED BY <1>1, <1>2, <1>4

LEMMA PageOrder ==
  ASSUME NEW a \in Nat, NEW b \in Nat, a <= b
  PROVE  PageOf(a) <= PageOf(b)
  <1>0. PageBytes \in Nat \ {0}
    BY LoaderAssumption DEF LoaderAssumption
  <1>1. PICK p \in Nat, i \in 0 .. PageBytes - 1 : p = PageOf(a) /\ a = p * PageBytes + i
    BY AddressIs
  <1>2. PICK q \in Nat, j \in 0 .. PageBytes - 1 : q = PageOf(b) /\ b = q * PageBytes + j
    BY AddressIs
  <1>3. CASE q < p
    <2>1. PICK d \in Nat : p = q + 1 + d
      <3>1. p - q - 1 \in Nat /\ p = q + 1 + (p - q - 1)
        BY <1>3
      <3> QED BY <3>1
    <2>2. p * PageBytes = q * PageBytes + PageBytes + d * PageBytes
          /\ d * PageBytes \in Nat /\ q * PageBytes \in Nat
      BY <1>0, <2>1
    <2> QED BY <1>0, <1>1, <1>2, <2>2
  <1> QED BY <1>1, <1>2, <1>3

LEMMA MetPages ==
  ASSUME NEW s \in ProgramHeader
  PROVE  /\ PageOf(s.vaddr) \in Nat /\ LastPage(s) \in Int
         /\ \A a \in s.vaddr .. s.vaddr + s.memsz - 1 : PageOf(a) \in PagesMet(s)
  <1>0. PageBytes \in Nat \ {0}
    BY LoaderAssumption DEF LoaderAssumption
  <1>1. PICK lo \in Nat, size \in Nat : lo = s.vaddr /\ size = s.memsz
    BY DEF ProgramHeader
  <1>2. PICK top \in Nat : top = lo + size + PageBytes - 1
    BY <1>0
  <1>3. PageOf(lo) \in Nat /\ PageOf(top) \in Nat /\ LastPage(s) = PageOf(top) - 1
    BY <1>1, <1>2, AddressIs DEF LastPage
  <1>4. ASSUME NEW a \in lo .. lo + size - 1
        PROVE  PageOf(a) \in Nat /\ PageOf(lo) <= PageOf(a) /\ PageOf(a) <= PageOf(top) - 1
    <2>1. a \in Nat /\ a + PageBytes \in Nat /\ a + PageBytes <= top /\ lo <= a
      BY <1>0, <1>2
    <2>2. PICK p \in Nat, i \in 0 .. PageBytes - 1 : p = PageOf(a) /\ a = p * PageBytes + i
      BY <2>1, AddressIs
    <2>3. a + PageBytes = (p + 1) * PageBytes + i
      BY <1>0, <2>2
    <2>4. PageOf(a + PageBytes) = p + 1
      BY <2>2, <2>3, AddressOf
    <2>5. PageOf(a + PageBytes) <= PageOf(top) /\ PageOf(lo) <= PageOf(a)
      BY <2>1, PageOrder
    <2> QED BY <1>3, <2>2, <2>4, <2>5
  <1> QED BY <1>1, <1>3, <1>4 DEF PagesMet

-----------------------------------------------------------------------------
(* One segment.                                                            *)
HasSegment(image, pages, contents, s) ==
  \A a \in s.vaddr .. s.vaddr + s.memsz - 1 :
    /\ PageOf(a) \in DOMAIN pages
    /\ LET page == pages[PageOf(a)]
           held == contents[page.frame][a % PageBytes]
       IN /\ held = IF a - s.vaddr < s.filesz
                    THEN image.bytes[s.offset + (a - s.vaddr) + 1] ELSE 0
          /\ "w" \in page.rights <=> "w" \in s.flags
          /\ image.arm => ("x" \in page.rights <=> "x" \in s.flags)

(* What the file's part of the segment leaves at byte i of page p.         *)
ByteAfter(m, s, p, i) ==
  LET a == p * PageBytes + i
  IN IF s.vaddr <= a /\ a < s.vaddr + FileSize(s, m.image.arm)
     THEN m.image.bytes[FileOffset(s, a) + 1] ELSE m.bytes[m.pages[p].frame][i]

LEMMA CopiedIs ==
  ASSUME NEW m, NEW image, NEW F, NEW old, IsLoad(m, image, F, old), NEW s
  PROVE  LET n == Copied(m, s)
         IN /\ IsLoad(n, image, F, old) /\ n.pages = m.pages
            /\ n.ok => /\ m.ok
                       /\ \A p \in DOMAIN m.pages : \A i \in 0 .. PageBytes - 1 :
                            n.bytes[m.pages[p].frame][i] = ByteAfter(m, s, p, i)
  <1> DEFINE size == FileSize(s, m.image.arm)
             here(f) == {p \in DOMAIN m.pages : m.pages[p].frame = f}
             after(f) ==
               IF here(f) = {} THEN m.bytes[f]
               ELSE [i \in 0 .. PageBytes - 1 |->
                       LET a == (CHOOSE p \in here(f) : TRUE) * PageBytes + i
                       IN IF s.vaddr <= a /\ a < s.vaddr + size
                          THEN m.image.bytes[FileOffset(s, a) + 1] ELSE m.bytes[f][i]]
             n == [m EXCEPT !.bytes = [f \in LoaderFrame |-> after(f)]]
             fails == ~m.ok \/ s.offset + size > Len(m.image.bytes)
  <1>1. CASE fails
    <2>1. Copied(m, s) = Failed(m)
      BY <1>1 DEF Copied
    <2> QED BY <2>1, FailedIs
  <1>2. CASE ~fails
    <2>1. Copied(m, s) = n
      BY <1>2 DEF Copied
    <2>2. m.ok
      BY <1>2
    <2>3. /\ n.image = m.image /\ n.free = m.free /\ n.pages = m.pages /\ n.tables = m.tables
          /\ n.ok = m.ok /\ n.bytes = [f \in LoaderFrame |-> after(f)] /\ Shaped(n)
      BY DEF IsLoad, Shaped, LoadField
    <2>4. ASSUME NEW f \in LoaderFrame \ F PROVE n.bytes[f] = old[f]
      <3>1. f \notin PagesFor(m)
        BY DEF IsLoad
      <3>2. here(f) = {}
        BY <3>1 DEF PagesFor
      <3>3. n.bytes[f] = m.bytes[f]
        BY <2>3, <3>2
      <3> QED BY <3>3 DEF IsLoad
    <2>5. ASSUME NEW p \in DOMAIN m.pages, NEW i \in 0 .. PageBytes - 1
          PROVE  n.bytes[m.pages[p].frame][i] = ByteAfter(m, s, p, i)
      <3> DEFINE f == m.pages[p].frame
      <3>1. f \in LoaderFrame
        <4>1. f \in PagesFor(m)
          BY DEF PagesFor
        <4> QED BY <4>1 DEF IsLoad
      <3>2. here(f) = {p}
        BY DEF IsLoad
      <3>3. (CHOOSE q \in here(f) : TRUE) = p
        <4> HIDE DEF here
        <4> QED BY <3>2
      <3>4. n.bytes[f] = after(f)
        <4> HIDE DEF after, f
        <4> QED BY <2>3, <3>1
      <3>5. after(f)[i] = ByteAfter(m, s, p, i)
        <4>1. here(f) # {}
          BY <3>2
        <4> HIDE DEF here, f
        <4>2. after(f)[i] = LET a == p * PageBytes + i
                            IN IF s.vaddr <= a /\ a < s.vaddr + size
                               THEN m.image.bytes[FileOffset(s, a) + 1] ELSE m.bytes[f][i]
          BY <3>3, <4>1
        <4> QED BY <4>2 DEF ByteAfter, f
      <3> QED BY <3>4, <3>5
    <2> HIDE DEF after, here
    <2>6. n.bytes = [f \in LoaderFrame |-> n.bytes[f]]
      BY <2>3
    <2> HIDE DEF n
    <2>7. PagesFor(n) = PagesFor(m) /\ TablesOf(n) = TablesOf(m)
      BY <2>3 DEF PagesFor, TablesOf
    <2>8. IsLoad(n, image, F, old)
      BY <2>3, <2>4, <2>6, <2>7 DEF IsLoad
    <2> QED BY <2>1, <2>2, <2>3, <2>5, <2>8
  <1> QED BY <1>1, <1>2

LEMMA SegmentStays ==
  ASSUME NEW m, NEW n, Keeps(m, n), NEW image, NEW s \in ProgramHeader,
         HasSegment(image, m.pages, m.bytes, s)
  PROVE  HasSegment(image, n.pages, n.bytes, s)
  <1>1. ASSUME NEW a \in s.vaddr .. s.vaddr + s.memsz - 1
        PROVE  /\ PageOf(a) \in DOMAIN m.pages /\ n.pages[PageOf(a)] = m.pages[PageOf(a)]
               /\ PageOf(a) \in DOMAIN n.pages
               /\ n.bytes[m.pages[PageOf(a)].frame][a % PageBytes]
                    = m.bytes[m.pages[PageOf(a)].frame][a % PageBytes]
    <2>1. a \in Nat
      BY DEF ProgramHeader
    <2>2. a % PageBytes \in 0 .. PageBytes - 1
      BY <2>1, AddressIs
    <2>3. PageOf(a) \in DOMAIN m.pages
      BY DEF HasSegment
    <2> QED BY <2>2, <2>3 DEF Keeps
  <1> QED BY <1>1 DEF HasSegment

(* The pages of a segment, cleared and then filled from the file.          *)
LEMMA FilledIs ==
  ASSUME NEW m, NEW image, NEW F, NEW old, IsLoad(m, image, F, old), image.arm \in BOOLEAN,
         NEW s \in ProgramHeader, DOMAIN m.pages \subseteq Nat,
         image.arm => s.filesz <= s.memsz, NEW n, NEW o,
         IsLoad(n, image, F, old), IsLoad(o, image, F, old), HasMapped(m, n, PagesMet(s), s.flags),
         PagesMet(s) \cap DOMAIN m.pages = {}, o.ok, o.ok => n.ok, o.pages = n.pages,
         \A p \in DOMAIN n.pages : \A i \in 0 .. PageBytes - 1 :
           o.bytes[n.pages[p].frame][i] = ByteAfter(n, s, p, i)
  PROVE  Keeps(m, o) /\ HasSegment(image, o.pages, o.bytes, s)
  <1>1. n.image = image /\ m.image = image
    BY DEF IsLoad
  <1>2. PICK lo \in Nat, size \in Nat, inFile \in Nat :
          lo = s.vaddr /\ size = s.memsz /\ inFile = s.filesz
    BY DEF ProgramHeader
  <1>3. PICK k \in Nat : k = FileSize(s, image.arm) /\ k <= size /\ (inFile <= size => k = inFile)
                         /\ (inFile > size => k = size)
    <2>1. CASE ~image.arm /\ inFile > size
      BY <1>2, <2>1 DEF FileSize
    <2>2. CASE ~(~image.arm /\ inFile > size)
      BY <1>2, <2>2 DEF FileSize
    <2> QED BY <2>1, <2>2
  <1>4. \A a \in lo .. lo + size - 1 : PageOf(a) \in PagesMet(s)
    BY <1>2, MetPages
  <1>5. ASSUME NEW p \in DOMAIN m.pages, NEW i \in 0 .. PageBytes - 1
        PROVE  /\ p \in DOMAIN o.pages /\ o.pages[p] = m.pages[p]
               /\ o.bytes[m.pages[p].frame][i] = m.bytes[m.pages[p].frame][i]
    <2>1. /\ p \in DOMAIN n.pages /\ n.pages[p] = m.pages[p] /\ p \in Nat
          /\ n.bytes[m.pages[p].frame][i] = m.bytes[m.pages[p].frame][i]
      BY <1>5 DEF HasMapped, Keeps
    <2>2. PICK a \in Nat : a = p * PageBytes + i /\ PageOf(a) = p
      BY <2>1, AddressOf
    <2>3. ~(lo <= a /\ a < lo + k)
      <3>1. ASSUME lo <= a, a < lo + k PROVE FALSE
        <4>1. a \in lo .. lo + size - 1
          BY <1>3, <3>1
        <4> QED BY <1>4, <1>5, <2>2, <4>1
      <3> QED BY <3>1
    <2>4. ByteAfter(n, s, p, i) = n.bytes[n.pages[p].frame][i]
      BY <1>1, <1>2, <1>3, <2>2, <2>3 DEF ByteAfter
    <2> QED BY <2>1, <2>4
  <1>6. ASSUME NEW a \in lo .. lo + size - 1
        PROVE  /\ PageOf(a) \in DOMAIN o.pages
               /\ o.pages[PageOf(a)].rights = RightsOf(s.flags, image.arm)
               /\ o.bytes[o.pages[PageOf(a)].frame][a % PageBytes]
                    = IF a - lo < inFile THEN image.bytes[s.offset + (a - lo) + 1] ELSE 0
    <2>1. a \in Nat /\ lo <= a /\ a < lo + size
      BY <1>6
    <2>2. PICK p \in Nat, i \in 0 .. PageBytes - 1 :
            p = PageOf(a) /\ i = a % PageBytes /\ a = p * PageBytes + i
      BY <2>1, AddressIs
    <2>3. Blank(n, p, s.flags)
      BY <1>4, <2>2 DEF HasMapped
    <2>4. /\ p \in DOMAIN n.pages /\ n.pages[p].rights = RightsOf(s.flags, image.arm)
          /\ n.bytes[n.pages[p].frame][i] = 0
      BY <1>1, <2>3 DEF Blank
    <2>5. ByteAfter(n, s, p, i)
            = IF lo <= a /\ a < lo + k THEN image.bytes[FileOffset(s, a) + 1] ELSE 0
      BY <1>1, <1>2, <1>3, <2>2, <2>4 DEF ByteAfter
    <2>6. FileOffset(s, a) = s.offset + (a - lo)
      BY <1>2 DEF FileOffset
    <2>7. (lo <= a /\ a < lo + k) <=> a - lo < inFile
      BY <1>3, <2>1
    <2> QED BY <2>2, <2>4, <2>5, <2>6, <2>7
  <1>7. Keeps(m, o)
    <2>1. ASSUME NEW p \in DOMAIN m.pages PROVE p \in DOMAIN o.pages /\ o.pages[p] = m.pages[p]
      BY DEF HasMapped, Keeps
    <2> QED BY <1>5, <2>1 DEF Keeps
  <1>8. /\ "w" \in RightsOf(s.flags, image.arm) <=> "w" \in s.flags
        /\ image.arm => ("x" \in RightsOf(s.flags, image.arm) <=> "x" \in s.flags)
    BY DEF RightsOf
  <1>9. HasSegment(image, o.pages, o.bytes, s)
    BY <1>2, <1>6, <1>8 DEF HasSegment
  <1> QED BY <1>7, <1>9

LoadedSegment(m, n, s) ==
  /\ \A p \in DOMAIN n.pages : p \in DOMAIN m.pages \/ (s.load /\ p \in PagesMet(s))
  /\ n.ok => m.ok /\ Keeps(m, n) /\ (s.load => HasSegment(n.image, n.pages, n.bytes, s))

LEMMA SegmentIs ==
  ASSUME NEW m, NEW image, NEW F, NEW old, IsLoad(m, image, F, old), m.ok, image.arm \in BOOLEAN,
         NEW s \in ProgramHeader, DOMAIN m.pages \subseteq Nat,
         s.load => PagesMet(s) \cap DOMAIN m.pages = {}
  PROVE  IsLoad(LoadSegment(m, s), image, F, old) /\ LoadedSegment(m, LoadSegment(m, s), s)
  <1>1. CASE ~s.load
    <2>1. LoadSegment(m, s) = m
      BY <1>1 DEF LoadSegment
    <2>2. LoadedSegment(m, m, s)
      BY <1>1, NothingMapped DEF LoadedSegment
    <2> QED BY <2>1, <2>2
  <1>2. CASE s.load /\ ~Accepted(s, m.image)
    <2>1. LoadSegment(m, s) = Failed(m)
      BY <1>2 DEF LoadSegment
    <2> DEFINE n == Failed(m)
    <2>2. IsLoad(n, image, F, old) /\ ~n.ok /\ n.pages = m.pages
      BY FailedIs
    <2> HIDE DEF n
    <2>3. LoadedSegment(m, n, s)
      BY <2>2 DEF LoadedSegment
    <2> QED BY <2>1, <2>2, <2>3 DEF n
  <1>3. CASE s.load /\ Accepted(s, m.image)
    <2> DEFINE n == MapRange(m, PageOf(s.vaddr), LastPage(s), s.flags)
               o == Copied(n, s)
    <2>1. LoadSegment(m, s) = o
      BY <1>3 DEF LoadSegment
    <2>2. PageOf(s.vaddr) \in Int /\ LastPage(s) \in Int
      BY MetPages
    <2>3. IsLoad(n, image, F, old) /\ HasMapped(m, n, PagesMet(s), s.flags)
      BY <1>3, <2>2, RangeIs DEF PagesMet
    <2> HIDE DEF n
    <2>4. /\ IsLoad(o, image, F, old) /\ o.pages = n.pages
          /\ o.ok => /\ n.ok
                     /\ \A p \in DOMAIN n.pages : \A i \in 0 .. PageBytes - 1 :
                          o.bytes[n.pages[p].frame][i] = ByteAfter(n, s, p, i)
      BY <2>3, CopiedIs
    <2> HIDE DEF o
    <2>5. image.arm => s.filesz <= s.memsz
      BY <1>3 DEF Accepted, validate_segment, IsLoad
    <2>6. o.ok => Keeps(m, o) /\ HasSegment(image, o.pages, o.bytes, s)
      BY <1>3, <2>3, <2>4, <2>5, FilledIs
    <2>7. LoadedSegment(m, o, s)
      <3>1. o.image = image /\ s.load /\ m.ok
        BY <1>3, <2>4 DEF IsLoad
      <3>2. \A p \in DOMAIN o.pages : p \in DOMAIN m.pages \/ p \in PagesMet(s)
        BY <2>3, <2>4 DEF HasMapped
      <3> QED BY <2>6, <3>1, <3>2 DEF LoadedSegment
    <2> QED BY <2>1, <2>4, <2>7
  <1> QED BY <1>1, <1>2, <1>3 DEF ProgramHeader

-----------------------------------------------------------------------------
(* All segments of a file.                                                 *)
LoadNext(n, s) == IF n.ok THEN LoadSegment(n, s) ELSE n
EachSegment == INSTANCE FoldProofs WITH Op <- LoadNext, Good <- LAMBDA x : TRUE

(* After k segments: their pages, and no others.                           *)
LoadedTo(n, image, F, old, k) ==
  /\ IsLoad(n, image, F, old)
  /\ \A p \in DOMAIN n.pages :
       \E j \in 1 .. k : image.segments[j].load /\ p \in PagesMet(image.segments[j])
  /\ n.ok => \A j \in 1 .. k :
               image.segments[j].load => HasSegment(image, n.pages, n.bytes, image.segments[j])

LEMMA ImageIs ==
  ASSUME NEW image \in Image
  PROVE  /\ image.arm \in BOOLEAN /\ image.segments \in Seq(ProgramHeader)
         /\ Len(image.segments) \in Nat /\ DOMAIN image.segments = 1 .. Len(image.segments)
         /\ \A j \in 1 .. Len(image.segments) : image.segments[j] \in ProgramHeader
         /\ \A j, k \in 1 .. Len(image.segments) :
              j # k /\ image.segments[j].load /\ image.segments[k].load
                => PagesMet(image.segments[j]) \cap PagesMet(image.segments[k]) = {}
         /\ \A j \in 1 .. Len(image.segments) :
              image.arm /\ image.segments[j].load
                => PagesMet(image.segments[j]) \cap (StackEnd - StackPages .. StackEnd - 1) = {}
  <1>1. image.arm \in BOOLEAN /\ image.segments \in Seq(ProgramHeader)
    BY ImageAssumption DEF ImageAssumption
  <1>2. /\ Len(image.segments) \in Nat /\ DOMAIN image.segments = 1 .. Len(image.segments)
        /\ \A j \in 1 .. Len(image.segments) : image.segments[j] \in ProgramHeader
    BY <1>1
  <1>3. \A j, k \in DOMAIN image.segments :
          j # k /\ image.segments[j].load /\ image.segments[k].load
            => PagesMet(image.segments[j]) \cap PagesMet(image.segments[k]) = {}
    BY ImageAssumption DEF ImageAssumption
  <1>4. \A j \in DOMAIN image.segments :
          image.arm /\ image.segments[j].load
            => PagesMet(image.segments[j]) \cap (StackEnd - StackPages .. StackEnd - 1) = {}
    BY ImageAssumption DEF ImageAssumption
  <1> QED BY <1>1, <1>2, <1>3, <1>4

LEMMA LoadsFold ==
  ASSUME NEW m
  PROVE  LoadSegments(m) = EachSegment!Folded(m, m.image.segments)
  BY DEF LoadSegments, LoadNext, FoldLeft, MapThenFoldSet, Max, EachSegment!Folded,
         EachSegment!FoldLeft, EachSegment!MapThenFoldSet, EachSegment!Max

LEMMA OneSegmentMore ==
  ASSUME NEW image \in Image, NEW F, NEW old, NEW k \in Nat, k < Len(image.segments),
         NEW n, LoadedTo(n, image, F, old, k)
  PROVE  LoadedTo(LoadNext(n, image.segments[k + 1]), image, F, old, k + 1)
  <1> DEFINE o == LoadNext(n, image.segments[k + 1])
  <1>1. PICK s \in ProgramHeader : s = image.segments[k + 1]
    BY ImageIs
  <1>2. IsLoad(n, image, F, old)
    BY DEF LoadedTo
  <1>3. k + 1 \in 1 .. Len(image.segments) /\ \A j \in 1 .. k + 1 : j \in 1 .. k \/ j = k + 1
    BY ImageIs
  <1>4. CASE ~n.ok
    <2>1. o = n
      BY <1>4 DEF LoadNext
    <2> HIDE DEF o
    <2> QED BY <1>4, <2>1 DEF LoadedTo, o
  <1>5. CASE n.ok
    <2>1. o = LoadSegment(n, s)
      BY <1>1, <1>5 DEF LoadNext
    <2>2. ASSUME NEW p \in DOMAIN n.pages
          PROVE  p \in Nat /\ ~(s.load /\ p \in PagesMet(s))
      <3>1. PICK j \in 1 .. k : image.segments[j].load /\ p \in PagesMet(image.segments[j])
        BY DEF LoadedTo
      <3>2. j \in 1 .. Len(image.segments) /\ j # k + 1
        BY <3>1, ImageIs
      <3>3. PICK t \in ProgramHeader : t = image.segments[j]
        BY <3>2, ImageIs
      <3>4. p \in Nat
        <4>1. PageOf(t.vaddr) \in Nat /\ LastPage(t) \in Int /\ p \in PagesMet(t)
          BY <3>1, <3>3, MetPages
        <4> QED BY <4>1 DEF PagesMet
      <3>5. s.load => PagesMet(s) \cap PagesMet(t) = {}
        BY <1>1, <1>3, <3>1, <3>2, <3>3, ImageIs
      <3> QED BY <3>1, <3>3, <3>4, <3>5
    <2>3. DOMAIN n.pages \subseteq Nat /\ (s.load => PagesMet(s) \cap DOMAIN n.pages = {})
      BY <2>2
    <2>4. image.arm \in BOOLEAN
      BY ImageIs
    <2>5. IsLoad(o, image, F, old) /\ LoadedSegment(n, o, s)
      BY <1>2, <1>5, <2>1, <2>3, <2>4, SegmentIs
    <2> HIDE DEF o
    <2>6. ASSUME NEW p \in DOMAIN o.pages
          PROVE  \E j \in 1 .. k + 1 : image.segments[j].load /\ p \in PagesMet(image.segments[j])
      <3>1. p \in DOMAIN n.pages \/ (s.load /\ p \in PagesMet(s))
        BY <2>5 DEF LoadedSegment
      <3>2. CASE p \in DOMAIN n.pages
        <4>1. PICK j \in 1 .. k : image.segments[j].load /\ p \in PagesMet(image.segments[j])
          BY <3>2 DEF LoadedTo
        <4> QED BY <4>1
      <3>3. CASE s.load /\ p \in PagesMet(s)
        BY <1>1, <1>3, <3>3
      <3> QED BY <3>1, <3>2, <3>3
    <2>7. ASSUME o.ok, NEW j \in 1 .. k + 1, image.segments[j].load
          PROVE  HasSegment(image, o.pages, o.bytes, image.segments[j])
      <3>1. Keeps(n, o) /\ (s.load => HasSegment(image, o.pages, o.bytes, s))
        BY <2>5, <2>7 DEF LoadedSegment, IsLoad
      <3>2. CASE j = k + 1
        BY <1>1, <2>7, <3>1, <3>2
      <3>3. CASE j \in 1 .. k
        <4>1. HasSegment(image, n.pages, n.bytes, image.segments[j])
          BY <1>5, <2>7, <3>3 DEF LoadedTo
        <4>2. image.segments[j] \in ProgramHeader
          BY <3>3, ImageIs
        <4> QED BY <3>1, <4>1, <4>2, SegmentStays
      <3> QED BY <1>3, <3>2, <3>3
    <2>8. LoadedTo(o, image, F, old, k + 1)
      BY <2>5, <2>6, <2>7 DEF LoadedTo
    <2> QED BY <2>8 DEF o
  <1> QED BY <1>4, <1>5

LEMMA SegmentsAre ==
  ASSUME NEW image \in Image, NEW F, NEW old, NEW m, IsLoad(m, image, F, old), DOMAIN m.pages = {}
  PROVE  LoadedTo(LoadSegments(m), image, F, old, Len(image.segments))
  <1> DEFINE Good(n, k) == LoadedTo(n, image, F, old, k)
             segments == image.segments
             len == Len(segments)
  <1>1. len \in Nat /\ segments \in Seq(ProgramHeader) /\ m.image = image
    BY ImageIs DEF IsLoad
  <1>2. PICK h : EachSegment!Passes(h, m, segments)
                 /\ EachSegment!Folded(m, segments) = h[Len(segments)]
    BY <1>1, EachSegment!FoldedPasses
  <1>3. h[0] = m /\ \A k \in Nat : k < len => h[k + 1] = LoadNext(h[k], segments[k + 1])
    BY <1>2 DEF EachSegment!Passes
  <1>4. Good(h[0], 0)
    BY <1>3 DEF LoadedTo
  <1>5. ASSUME NEW k \in Nat, k < len, Good(h[k], k) PROVE Good(h[k + 1], k + 1)
    BY <1>3, <1>5, OneSegmentMore
  <1> DEFINE bad == {k \in Nat : k <= len /\ ~Good(h[k], k)}
  <1>7. bad = {}
    <2>1. SUFFICES ASSUME bad # {} PROVE FALSE
      OBVIOUS
    <2> HIDE DEF Good
    <2>2. PICK b \in bad : \A k \in bad : ~(k < b)
      <3>1. bad \in SUBSET Nat
        OBVIOUS
      <3> HIDE DEF bad
      <3> QED BY <2>1, <3>1, EachSegment!LeastExists
    <2>3. b \in Nat /\ b <= len /\ ~Good(h[b], b) /\ b # 0
      BY <1>4, <2>2
    <2>4. PICK k \in Nat : b = k + 1
      BY <2>3
    <2>5. k < len /\ k \notin bad
      BY <1>1, <2>2, <2>3, <2>4
    <2>6. Good(h[k], k)
      BY <2>5
    <2> QED BY <1>5, <2>3, <2>4, <2>5, <2>6
  <1>8. Good(h[len], len)
    <2> HIDE DEF Good
    <2> QED BY <1>1, <1>7
  <1> QED BY <1>1, <1>2, <1>8, LoadsFold

-----------------------------------------------------------------------------
(* A whole file.                                                           *)
HasImage(image, pages, contents) ==
  \A k \in DOMAIN image.segments :
    image.segments[k].load => HasSegment(image, pages, contents, image.segments[k])

Loaded(n, image, F, old) ==
  IsLoad(n, image, F, old) /\ (n.ok => HasImage(image, n.pages, n.bytes))

LEMMA StackIsMapped ==
  ASSUME NEW image \in Image, image.arm, NEW F, NEW old, NEW n,
         LoadedTo(n, image, F, old, Len(image.segments)), n.ok
  PROVE  Loaded(WithImageStack(n), image, F, old)
  <1> DEFINE first == StackEnd - StackPages
             last == StackEnd - 1
             o == MapRange(n, first, last, {"r", "w"})
  <1>1. first \in Int /\ last \in Int
    <2>1. StackEnd \in Nat /\ StackPages \in Nat
      BY LoaderAssumption, AddressIs DEF LoaderAssumption, StackEnd
    <2> QED BY <2>1
  <1>2. (first .. last) \cap DOMAIN n.pages = {}
    <2>1. ASSUME NEW p \in DOMAIN n.pages, p \in first .. last PROVE FALSE
      <3>1. PICK j \in 1 .. Len(image.segments) :
              image.segments[j].load /\ p \in PagesMet(image.segments[j])
        BY DEF LoadedTo
      <3> QED BY <2>1, <3>1, ImageIs
    <2> QED BY <2>1
  <1>3. IsLoad(n, image, F, old)
    BY DEF LoadedTo
  <1>4. IsLoad(o, image, F, old) /\ HasMapped(n, o, first .. last, {"r", "w"})
    BY <1>1, <1>2, <1>3, RangeIs
  <1>5. WithImageStack(n) = o
    BY DEF WithImageStack
  <1> HIDE DEF o, first, last
  <1>6. Keeps(n, o)
    BY <1>4 DEF HasMapped
  <1>7. ASSUME NEW k \in DOMAIN image.segments, image.segments[k].load
        PROVE  HasSegment(image, o.pages, o.bytes, image.segments[k])
    <2>1. k \in 1 .. Len(image.segments) /\ image.segments[k] \in ProgramHeader
      BY ImageIs
    <2>2. HasSegment(image, n.pages, n.bytes, image.segments[k])
      BY <1>7, <2>1 DEF LoadedTo
    <2> QED BY <1>6, <2>1, <2>2, SegmentStays
  <1>8. HasImage(image, o.pages, o.bytes)
    BY <1>7 DEF HasImage
  <1> QED BY <1>4, <1>5, <1>8 DEF Loaded

LEMMA FileIs ==
  ASSUME NEW image \in Image, NEW F, NEW old, NEW m, IsLoad(m, image, F, old), DOMAIN m.pages = {}
  PROVE  Loaded(elf_load(m), image, F, old)
  <1> DEFINE n == LoadSegments(m)
  <1>1. LoadedTo(n, image, F, old, Len(image.segments))
    BY SegmentsAre
  <1> HIDE DEF n
  <1>2. IsLoad(n, image, F, old) /\ m.image = image
    BY <1>1 DEF LoadedTo, IsLoad
  <1>3. n.ok => HasImage(image, n.pages, n.bytes)
    <2>1. DOMAIN image.segments = 1 .. Len(image.segments)
      BY ImageIs
    <2> QED BY <1>1, <2>1 DEF LoadedTo, HasImage
  <1>4. Loaded(n, image, F, old)
    BY <1>2, <1>3 DEF Loaded
  <1>5. Loaded(Failed(m), image, F, old) /\ Loaded(Failed(n), image, F, old)
    BY <1>2, FailedIs DEF Loaded
  <1>6. image.arm /\ n.ok => Loaded(WithImageStack(n), image, F, old)
    BY <1>1, StackIsMapped
  <1>7. elf_load(m) = IF ~validate_elf_header(image) THEN Failed(m)
                      ELSE IF image.arm THEN IF n.ok THEN WithImageStack(n) ELSE n
                      ELSE IF image.entry = 0 THEN Failed(n) ELSE n
    BY <1>2 DEF elf_load, n
  <1>8. image.arm \in BOOLEAN /\ n.ok \in BOOLEAN
    BY <1>2, ImageIs DEF IsLoad
  <1> QED BY <1>4, <1>5, <1>6, <1>7, <1>8

-----------------------------------------------------------------------------
(* The spaces.                                                             *)
IsSpace(s) ==
  /\ s.image \in Image /\ Owned(s) \subseteq LoaderFrame
  /\ ~s.image.arm => s.dir \in LoaderFrame
  /\ HasImage(s.image, s.pages, bytes)

FramesHold ==
  /\ free \subseteq LoaderFrame /\ bytes = [f \in LoaderFrame |-> bytes[f]]
  /\ \A s \in spaces : IsSpace(s)
  /\ EveryFrameIsOwned

(* A step of the loader takes frames, for a new space or for nobody.       *)
Took(taken, space) ==
  /\ taken \subseteq free /\ free' = free \ taken
  /\ bytes' = [f \in LoaderFrame |-> bytes'[f]]
  /\ \A f \in LoaderFrame \ free : bytes'[f] = bytes[f]
  /\ \/ /\ spaces' = spaces \cup {space} /\ lost' = lost
        /\ Owned(space) = taken /\ space.image \in Image
        /\ ~space.image.arm => space.dir \in LoaderFrame
        /\ HasImage(space.image, space.pages, bytes')
     \/ spaces' = spaces /\ lost' = lost \cup taken

LEMMA ZeroIsNoFrame == 0 \notin LoaderFrame
  BY LoaderAssumption DEF LoaderFrame, LoaderAssumption

LEMMA LoadBegins ==
  ASSUME NEW image \in Image, NEW dir, FramesHold
  PROVE  LET m == [Begun(image) EXCEPT !.free = @ \ {dir}]
         IN IsLoad(m, image, free \ {dir}, bytes) /\ DOMAIN m.pages = {}
  <1> DEFINE m == [Begun(image) EXCEPT !.free = @ \ {dir}]
  <1>1. /\ m.image = image /\ m.free = free \ {dir} /\ m.bytes = bytes /\ m.pages = <<>>
        /\ m.tables = <<>> /\ m.ok = TRUE
    BY DEF Begun
  <1>2. Shaped(m)
    BY DEF Begun, Shaped, LoadField
  <1> HIDE DEF m
  <1>3. DOMAIN m.pages = {} /\ DOMAIN m.tables = {}
    BY <1>1
  <1>4. PagesFor(m) = {} /\ TablesOf(m) = {}
    BY <1>3 DEF PagesFor, TablesOf, Range
  <1>5. IsLoad(m, image, free \ {dir}, bytes)
    BY <1>1, <1>2, <1>3, <1>4 DEF IsLoad, FramesHold
  <1> QED BY <1>3, <1>5 DEF m

LEMMA LoadTakes ==
  ASSUME NEW image \in Image, FramesHold, Load(image)
  PROVE  \E taken, space : Took(taken, space)
  <1> DEFINE dir == IF image.arm THEN 0 ELSE TakenBy(Begun(image))
             F == free \ {dir}
             m == elf_load([Begun(image) EXCEPT !.free = @ \ {dir}])
             space == [image |-> image, dir |-> dir, pages |-> m.pages, tables |-> m.tables]
  <1>1. /\ image.arm \/ free # {}
        /\ bytes' = m.bytes
        /\ m.ok => free' = m.free /\ spaces' = spaces \cup {space} /\ lost' = lost
        /\ ~m.ok => /\ free' = m.free \cup GivenBack(m) \cup ({dir} \ {0})
                    /\ lost' = lost \cup LeftBehind(m) /\ spaces' = spaces
    BY DEF Load
  <1>2. /\ image.arm => dir = 0 /\ F = free
        /\ ~image.arm => dir \in free /\ dir # 0 /\ dir \in LoaderFrame
    <2>1. free \in SUBSET LoaderFrame
      BY DEF FramesHold
    <2>2. CASE image.arm
      BY <2>1, <2>2, ZeroIsNoFrame
    <2>3. CASE ~image.arm
      <3>1. dir = Min(free)
        BY <2>3 DEF TakenBy, Begun
      <3>2. Min(free) \in free
        BY <1>1, <2>1, <2>3, LeastIsIn
      <3> HIDE DEF dir
      <3> QED BY <2>1, <2>3, <3>1, <3>2, ZeroIsNoFrame
    <2> QED BY <2>2, <2>3
  <1> HIDE DEF dir
  <1>3. Loaded(m, image, F, bytes)
    BY LoadBegins, FileIs
  <1> HIDE DEF m
  <1>4. /\ m.image = image /\ m.free \subseteq F /\ PagesFor(m) \cup TablesOf(m) = F \ m.free
        /\ PagesFor(m) \cap TablesOf(m) = {} /\ m.ok \in BOOLEAN
        /\ m.bytes = [f \in LoaderFrame |-> m.bytes[f]]
        /\ \A f \in LoaderFrame \ F : m.bytes[f] = bytes[f]
    BY <1>3 DEF Loaded, IsLoad
  <1>5. /\ bytes' = [f \in LoaderFrame |-> bytes'[f]]
        /\ \A f \in LoaderFrame \ free : bytes'[f] = bytes[f]
    BY <1>1, <1>4
  <1>6. CASE m.ok
    <2>1. Owned(space) = free \ m.free
      <3>1. PagesFor(space) = PagesFor(m) /\ TablesOf(space) = TablesOf(m) /\ space.dir = dir
        BY DEF PagesFor, TablesOf
      <3> HIDE DEF space
      <3> QED BY <1>2, <1>4, <3>1 DEF Owned
    <2>2. space.image = image /\ space.dir = dir /\ space.pages = m.pages
      OBVIOUS
    <2> HIDE DEF space
    <2>3. HasImage(space.image, space.pages, bytes')
      BY <1>1, <1>3, <1>6, <2>2 DEF Loaded
    <2>4. Took(free \ m.free, space)
      BY <1>1, <1>2, <1>4, <1>5, <1>6, <2>1, <2>2, <2>3 DEF Took
    <2> QED BY <2>4
  <1>7. CASE ~m.ok
    <2> DEFINE taken == LeftBehind(m)
    <2>1. taken \subseteq free /\ free' = free \ taken
      <3>1. CASE image.arm
        BY <1>1, <1>2, <1>4, <1>7, <3>1 DEF LeftBehind, GivenBack
      <3>2. CASE ~image.arm
        BY <1>1, <1>2, <1>4, <1>7, <3>2 DEF LeftBehind, GivenBack
      <3> QED BY <3>1, <3>2
    <2> HIDE DEF taken
    <2>2. spaces' = spaces /\ lost' = lost \cup taken
      BY <1>1, <1>7 DEF taken
    <2>3. Took(taken, space)
      <3> HIDE DEF space
      <3> QED BY <1>5, <2>1, <2>2 DEF Took
    <2> QED BY <2>3
  <1> QED BY <1>4, <1>6, <1>7

(* A segment's bytes are where they were while its frames are not touched. *)
LEMMA ImageStays ==
  ASSUME NEW s, IsSpace(s), NEW after,
         \A f \in Owned(s) : after[f] = bytes[f]
  PROVE  HasImage(s.image, s.pages, after)
  <1>1. ASSUME NEW k \in DOMAIN s.image.segments, s.image.segments[k].load
        PROVE  HasSegment(s.image, s.pages, after, s.image.segments[k])
    <2> DEFINE g == s.image.segments[k]
    <2>1. HasSegment(s.image, s.pages, bytes, g)
      BY <1>1 DEF IsSpace, HasImage
    <2>2. \A p \in DOMAIN s.pages : after[s.pages[p].frame] = bytes[s.pages[p].frame]
      BY DEF Owned, PagesFor
    <2> HIDE DEF g
    <2> QED BY <2>1, <2>2 DEF HasSegment, g
  <1> QED BY <1>1 DEF HasImage

LEMMA TakingKeepsFrames ==
  ASSUME FramesHold, NEW taken, NEW space, Took(taken, space)
  PROVE  FramesHold'
  <1> DEFINE U == UNION {Owned(s) : s \in spaces}
  <1>1. /\ taken \subseteq free /\ free \subseteq LoaderFrame /\ free' = free \ taken
        /\ free = LoaderFrame \ (lost \cup U) /\ lost \cap U = {}
        /\ \A s, t \in spaces : s # t => Owned(s) \cap Owned(t) = {}
        /\ \A s \in spaces : Owned(s) \subseteq U
    BY DEF FramesHold, EveryFrameIsOwned, Took
  <1>2. ASSUME NEW s \in spaces PROVE IsSpace(s)'
    <2>1. IsSpace(s)
      BY DEF FramesHold
    <2>2. \A f \in Owned(s) : f \in LoaderFrame \ free
      BY <1>1, <2>1 DEF IsSpace
    <2>3. \A f \in Owned(s) : bytes'[f] = bytes[f]
      BY <2>2 DEF Took
    <2>4. HasImage(s.image, s.pages, bytes')
      BY <2>1, <2>3, ImageStays
    <2> QED BY <2>1, <2>4 DEF IsSpace
  <1>3. CASE /\ spaces' = spaces \cup {space} /\ lost' = lost
             /\ Owned(space) = taken /\ space.image \in Image
             /\ ~space.image.arm => space.dir \in LoaderFrame
             /\ HasImage(space.image, space.pages, bytes')
    <2> DEFINE V == UNION {Owned(s) : s \in spaces \cup {space}}
    <2>1. V = U \cup taken
      BY <1>3
    <2>2. \A s, t \in spaces \cup {space} : s # t => Owned(s) \cap Owned(t) = {}
      BY <1>1, <1>3
    <2>3. free' = LoaderFrame \ (lost' \cup V) /\ lost' \cap V = {}
      <3> HIDE DEF U, V
      <3> QED BY <1>1, <1>3, <2>1
    <2>4. EveryFrameIsOwned'
      BY <1>3, <2>2, <2>3 DEF EveryFrameIsOwned
    <2>5. IsSpace(space)'
      BY <1>1, <1>3 DEF IsSpace
    <2> QED BY <1>1, <1>2, <1>3, <2>4, <2>5 DEF FramesHold, Took
  <1>4. CASE spaces' = spaces /\ lost' = lost \cup taken
    <2>1. free' = LoaderFrame \ (lost' \cup U) /\ lost' \cap U = {}
      <3> HIDE DEF U
      <3> QED BY <1>1, <1>4
    <2>2. EveryFrameIsOwned'
      BY <1>1, <1>4, <2>1 DEF EveryFrameIsOwned
    <2> QED BY <1>1, <1>2, <1>4, <2>2 DEF FramesHold, Took
  <1> QED BY <1>3, <1>4 DEF Took

LEMMA DestroyKeepsFrames ==
  ASSUME FramesHold, NEW s \in spaces, Destroy(s)
  PROVE  FramesHold'
  <1> DEFINE U == UNION {Owned(t) : t \in spaces}
             V == UNION {Owned(t) : t \in spaces \ {s}}
  <1>1. /\ free' = free \cup Owned(s) /\ spaces' = spaces \ {s} /\ bytes' = bytes /\ lost' = lost
    <2>1. ~s.image.arm /\ s.dir # 0
      BY ZeroIsNoFrame DEF FramesHold, IsSpace, Destroy
    <2> QED BY <2>1 DEF Destroy, GivenBack, Owned
  <1>2. /\ free \subseteq LoaderFrame /\ free = LoaderFrame \ (lost \cup U) /\ lost \cap U = {}
        /\ \A t, r \in spaces : t # r => Owned(t) \cap Owned(r) = {}
        /\ Owned(s) \subseteq LoaderFrame
    BY DEF FramesHold, EveryFrameIsOwned, IsSpace
  <1>3. U = V \cup Owned(s) /\ V \cap Owned(s) = {}
    BY <1>2
  <1>4. free' = LoaderFrame \ (lost' \cup V) /\ lost' \cap V = {}
    <2> HIDE DEF U, V
    <2> QED BY <1>1, <1>2, <1>3
  <1>5. EveryFrameIsOwned'
    BY <1>1, <1>2, <1>4 DEF EveryFrameIsOwned
  <1>6. \A t \in spaces \ {s} : IsSpace(t)'
    BY <1>1 DEF FramesHold, IsSpace
  <1> QED BY <1>1, <1>2, <1>5, <1>6 DEF FramesHold

-----------------------------------------------------------------------------
(* The arguments.                                                          *)
Plus(x, y) == x + y
EachString == INSTANCE FoldProofs WITH Op <- Plus, Good <- LAMBDA x : TRUE

From(args, i) == SubSeq(args, i, Len(args))

LEMMA DepthFolds ==
  ASSUME NEW args, NEW i
  PROVE  StringDepth(args, i) = EachString!Folded(0, From(args, i))
  BY DEF StringDepth, From, Plus, FoldLeft, MapThenFoldSet, Max, EachString!Folded,
         EachString!FoldLeft, EachString!MapThenFoldSet, EachString!Max

LEMMA FromIs ==
  ASSUME NEW args \in Seq(Nat), NEW i \in 1 .. Len(args) + 1
  PROVE  /\ From(args, i) \in Seq(Nat) /\ Len(From(args, i)) = Len(args) - i + 1
         /\ \A j \in 1 .. Len(args) - i + 1 :
              From(args, i)[j] = args[i + j - 1] /\ args[i + j - 1] \in Nat
  BY DEF From

LEMMA DepthIs ==
  ASSUME NEW args \in Seq(Nat)
  PROVE  /\ StringDepth(args, Len(args) + 1) = 0
         /\ \A i \in 1 .. Len(args) + 1 : StringDepth(args, i) \in Nat
         /\ \A i \in 1 .. Len(args) : StringDepth(args, i) = args[i] + StringDepth(args, i + 1)
  <1>1. ASSUME NEW i \in 1 .. Len(args) + 1
        PROVE  \E h : /\ h[0] = 0 /\ StringDepth(args, i) = h[Len(args) - i + 1]
                      /\ \A j \in Nat : j < Len(args) - i + 1 => h[j + 1] = h[j] + args[i + j]
    <2>1. PICK h : /\ EachString!Passes(h, 0, From(args, i))
                   /\ EachString!Folded(0, From(args, i)) = h[Len(From(args, i))]
      BY FromIs, EachString!FoldedPasses
    <2>2. ASSUME NEW j \in Nat, j < Len(args) - i + 1 PROVE h[j + 1] = h[j] + args[i + j]
      <3>1. j + 1 \in 1 .. Len(args) - i + 1 /\ i + (j + 1) - 1 = i + j
        BY <2>2
      <3>2. From(args, i)[j + 1] = args[i + j]
        BY <3>1, FromIs
      <3> QED BY <2>1, <2>2, <3>2, FromIs DEF EachString!Passes, Plus
    <2>3. h[0] = 0 /\ StringDepth(args, i) = h[Len(args) - i + 1]
      BY <2>1, DepthFolds, FromIs DEF EachString!Passes
    <2> QED BY <2>2, <2>3
  <1>2. ASSUME NEW i \in 1 .. Len(args) + 1, NEW h, h[0] = 0,
               \A j \in Nat : j < Len(args) - i + 1 => h[j + 1] = h[j] + args[i + j]
        PROVE  \A j \in Nat : j <= Len(args) - i + 1 => h[j] \in Nat
    <2> DEFINE bad == {j \in Nat : j <= Len(args) - i + 1 /\ h[j] \notin Nat}
    <2>1. SUFFICES ASSUME bad # {} PROVE FALSE
      OBVIOUS
    <2>2. PICK b \in bad : \A j \in bad : ~(j < b)
      <3>1. bad \in SUBSET Nat
        OBVIOUS
      <3> HIDE DEF bad
      <3> QED BY <2>1, <3>1, EachString!LeastExists
    <2>3. b \in Nat /\ b # 0 /\ b <= Len(args) - i + 1 /\ h[b] \notin Nat
      BY <1>2, <2>2
    <2>4. PICK j \in Nat : b = j + 1
      BY <2>3
    <2>5. j \notin bad /\ j < Len(args) - i + 1
      BY <2>2, <2>3, <2>4
    <2>6. h[j] \in Nat /\ args[i + j] \in Nat
      BY <2>5
    <2>7. h[j + 1] = h[j] + args[i + j]
      BY <1>2, <2>5
    <2>8. \A x, y \in Nat : x + y \in Nat
      OBVIOUS
    <2> QED BY <2>3, <2>4, <2>6, <2>7, <2>8
  <1>3. ASSUME NEW i \in 1 .. Len(args) + 1 PROVE StringDepth(args, i) \in Nat
    <2>1. PICK h : /\ h[0] = 0 /\ StringDepth(args, i) = h[Len(args) - i + 1]
                   /\ \A j \in Nat : j < Len(args) - i + 1 => h[j + 1] = h[j] + args[i + j]
      BY <1>1
    <2>2. Len(args) - i + 1 \in Nat
      OBVIOUS
    <2> QED BY <1>2, <2>1, <2>2
  <1>4. StringDepth(args, Len(args) + 1) = 0
    <2>1. Len(args) + 1 \in 1 .. Len(args) + 1 /\ Len(args) - (Len(args) + 1) + 1 = 0
      OBVIOUS
    <2> QED BY <1>1, <2>1
  <1>5. ASSUME NEW i \in 1 .. Len(args)
        PROVE  StringDepth(args, i) = args[i] + StringDepth(args, i + 1)
    <2>1. PICK n \in Nat : n = Len(args) - i
      OBVIOUS
    <2>2. i \in 1 .. Len(args) + 1 /\ i + 1 \in 1 .. Len(args) + 1
      OBVIOUS
    <2>3. Len(args) - i + 1 = n + 1 /\ Len(args) - (i + 1) + 1 = n
      BY <2>1
    <2>4. PICK h : /\ h[0] = 0 /\ StringDepth(args, i) = h[n + 1]
                   /\ \A j \in Nat : j < n + 1 => h[j + 1] = h[j] + args[i + j]
      BY <1>1, <2>2, <2>3
    <2>5. PICK g : /\ g[0] = 0 /\ StringDepth(args, i + 1) = g[n]
                   /\ \A j \in Nat : j < n => g[j + 1] = g[j] + args[i + 1 + j]
      BY <1>1, <2>2, <2>3
    <2>6. \A j \in Nat : j <= n => g[j] \in Nat
      BY <1>2, <2>2, <2>3, <2>5
    <2> DEFINE bad == {j \in Nat : j <= n /\ h[j + 1] # args[i] + g[j]}
    <2>7. bad = {}
      <3>1. SUFFICES ASSUME bad # {} PROVE FALSE
        OBVIOUS
      <3>2. PICK b \in bad : \A j \in bad : ~(j < b)
        <4>1. bad \in SUBSET Nat
          OBVIOUS
        <4> HIDE DEF bad
        <4> QED BY <3>1, <4>1, EachString!LeastExists
      <3>3. b \in Nat /\ b <= n /\ h[b + 1] # args[i] + g[b]
        BY <3>2
      <3>4. b # 0
        <4>1. h[0 + 1] = h[0] + args[i + 0]
          BY <2>4
        <4>2. h[1] = args[i] + g[0]
          BY <2>4, <2>5, <4>1
        <4> QED BY <3>3, <4>2
      <3>5. PICK j \in Nat : b = j + 1
        BY <3>3, <3>4
      <3>6. j < n /\ j \notin bad
        BY <3>2, <3>3, <3>5
      <3>7. h[j + 1] = args[i] + g[j]
        BY <3>6
      <3>8. h[(j + 1) + 1] = h[j + 1] + args[i + (j + 1)] /\ g[j + 1] = g[j] + args[i + 1 + j]
        BY <2>4, <2>5, <3>6
      <3>9. i + (j + 1) \in 1 .. Len(args) /\ i + (j + 1) = i + 1 + j
        BY <2>1, <3>6
      <3>10. args[i + (j + 1)] \in Nat /\ g[j] \in Nat /\ args[i] \in Nat
        <4>1. g[j] \in Nat
          BY <2>6, <3>6
        <4>2. args[i + (j + 1)] \in Nat /\ args[i] \in Nat
          BY <3>9
        <4> QED BY <4>1, <4>2
      <3>11. h[b + 1] = args[i] + g[j] + args[i + (j + 1)]
        BY <3>5, <3>7, <3>8
      <3>12. g[b] = g[j] + args[i + (j + 1)]
        BY <3>5, <3>8, <3>9
      <3>13. \A x, y, z \in Nat : x + y + z = x + (y + z)
        OBVIOUS
      <3> QED BY <3>3, <3>10, <3>11, <3>12, <3>13
    <2>8. h[n + 1] = args[i] + g[n]
      <3>1. n \notin bad
        BY <2>7
      <3> QED BY <3>1
    <2> QED BY <2>4, <2>5, <2>8
  <1> QED BY <1>3, <1>4, <1>5

(* Of the strings the first lies deepest.                                  *)
LEMMA FirstIsDeepest ==
  ASSUME NEW args \in Seq(Nat)
  PROVE  \A i \in 1 .. Len(args) + 1 : StringDepth(args, i) <= StringDepth(args, 1)
  <1> DEFINE bad == {i \in Nat : i \in 1 .. Len(args) + 1
                                 /\ ~(StringDepth(args, i) <= StringDepth(args, 1))}
  <1>1. SUFFICES ASSUME bad # {} PROVE FALSE
    OBVIOUS
  <1>2. PICK b \in bad : \A i \in bad : ~(i < b)
    <2>1. bad \in SUBSET Nat
      OBVIOUS
    <2> HIDE DEF bad
    <2> QED BY <1>1, <2>1, EachString!LeastExists
  <1>3. 1 \in 1 .. Len(args) + 1 /\ b # 1
    <2>1. 1 \in 1 .. Len(args) + 1 /\ StringDepth(args, 1) \in Nat
      BY DepthIs
    <2> QED BY <1>2, <2>1
  <1>4. PICK i \in Nat : b = i + 1 /\ i \in 1 .. Len(args) /\ i \in 1 .. Len(args) + 1
    <2>1. b - 1 \in Nat /\ b = (b - 1) + 1 /\ b - 1 \in 1 .. Len(args)
      BY <1>2, <1>3
    <2> QED BY <2>1
  <1>5. StringDepth(args, i) <= StringDepth(args, 1)
    BY <1>2, <1>4
  <1>6. /\ StringDepth(args, i) = args[i] + StringDepth(args, i + 1) /\ args[i] \in Nat
        /\ StringDepth(args, i + 1) \in Nat /\ StringDepth(args, 1) \in Nat
    BY <1>3, <1>4, DepthIs
  <1> QED BY <1>2, <1>4, <1>5, <1>6

LaidOut(frame, args) ==
  /\ args \in Seq(Nat) /\ frame = UserFrame(args) /\ (args = <<>> \/ ~TooLarge(args))

Arrives(frame) ==
  /\ frame.esp % WordBytes = 0 /\ frame.esp = frame.argv + WordBytes
  /\ frame.esp <= StackBytes - GuardBytes \/ frame.args = <<>>
  /\ \A i \in 1 .. frame.argc :
       LET end == IF i = frame.argc THEN 0 ELSE frame.pointers[i + 1]
       IN /\ frame.pointers[i] - end = frame.args[i]
          /\ frame.pointers[i] <= frame.argv - WordBytes * (frame.argc + 1)

LEMMA AlignedIs ==
  ASSUME NEW depth \in Nat
  PROVE  \E k \in Nat : Aligned(depth) = 4 * k /\ depth <= 4 * k /\ 4 * k <= depth + 3
  <1>1. PICK q \in Nat, r \in 0 .. 3 : depth = 4 * q + r /\ r = depth % 4
    <2>1. \A n \in Nat \ {0} : depth \div n \in Nat /\ depth % n \in 0 .. n - 1
                               /\ depth = n * (depth \div n) + (depth % n)
      OBVIOUS
    <2> QED BY <2>1
  <1>2. Aligned(depth) = depth + ((4 - r) % 4)
    BY <1>1 DEF Aligned, WordBytes
  <1>3. CASE r = 0
    <2>1. (4 - r) % 4 = 0
      BY <1>3
    <2>2. Aligned(depth) = 4 * q
      BY <1>1, <1>2, <1>3, <2>1
    <2> QED BY <1>1, <1>3, <2>2
  <1>4. CASE r # 0
    <2>1. (4 - r) % 4 = 4 - r
      BY <1>4
    <2>2. PICK k \in Nat : k = q + 1
      OBVIOUS
    <2>3. Aligned(depth) = 4 * k
      BY <1>1, <1>2, <2>1, <2>2
    <2>4. depth <= 4 * k /\ 4 * k <= depth + 3
      BY <1>1, <1>4, <2>2
    <2> QED BY <2>3, <2>4
  <1> QED BY <1>3, <1>4

LEMMA FrameArrives ==
  ASSUME NEW frame, NEW args, LaidOut(frame, args)
  PROVE  Arrives(frame)
  <1>1. PICK n \in Nat : n = Len(args) /\ args \in Seq(Nat)
    BY DEF LaidOut
  <1>2. PICK deep \in Nat : deep = StringDepth(args, 1)
    <2>1. 1 \in 1 .. Len(args) + 1
      BY <1>1
    <2> QED BY <1>1, <2>1, DepthIs
  <1>3. PICK k \in Nat : Aligned(deep) = 4 * k /\ deep <= 4 * k /\ 4 * k <= deep + 3
    BY AlignedIs
  <1>4. /\ frame.args = args /\ frame.argc = n /\ frame.argv = 4 * k + 4 + 4 * (n + 1)
        /\ frame.esp = 4 * k + 4 + 4 * (n + 1) + 4
        /\ frame.pointers = [i \in 1 .. n |-> StringDepth(args, i)]
    BY <1>1, <1>2, <1>3 DEF LaidOut, UserFrame, WordBytes
  <1>5. frame.esp % WordBytes = 0
    <2>1. frame.esp = 4 * (k + n + 3)
      BY <1>4
    <2>2. k + n + 3 \in Nat
      OBVIOUS
    <2>3. \A x \in Nat : (4 * x) % 4 = 0
      OBVIOUS
    <2> QED BY <2>1, <2>2, <2>3 DEF WordBytes
  <1>6. frame.esp <= StackBytes - GuardBytes \/ frame.args = <<>>
    <2>1. CASE args = <<>>
      BY <1>4, <2>1
    <2>2. CASE ~TooLarge(args)
      <3>1. StackBytes \in Nat /\ GuardBytes \in Nat
        BY LoaderAssumption DEF LoaderAssumption
      <3>2. ~(deep + (n + 1) * 4 + 4 + 64 > StackBytes - GuardBytes)
        BY <1>1, <1>2, <2>2 DEF TooLarge, WordBytes
      <3> QED BY <1>3, <1>4, <3>1, <3>2
    <2> QED BY <2>1, <2>2 DEF LaidOut
  <1>7. ASSUME NEW i \in 1 .. n
        PROVE  LET end == IF i = frame.argc THEN 0 ELSE frame.pointers[i + 1]
               IN /\ frame.pointers[i] - end = frame.args[i]
                  /\ frame.pointers[i] <= frame.argv - WordBytes * (frame.argc + 1)
    <2>1. i \in 1 .. Len(args) /\ i \in 1 .. Len(args) + 1 /\ i + 1 \in 1 .. Len(args) + 1
      BY <1>1
    <2>2. PICK d \in Nat, e \in Nat, len \in Nat :
            /\ d = StringDepth(args, i) /\ e = StringDepth(args, i + 1) /\ len = args[i]
            /\ d = len + e /\ d <= deep /\ (i = n => e = 0)
      <3>1. /\ StringDepth(args, i) \in Nat /\ StringDepth(args, i + 1) \in Nat
            /\ StringDepth(args, i) = args[i] + StringDepth(args, i + 1)
            /\ StringDepth(args, Len(args) + 1) = 0
        BY <1>1, <2>1, DepthIs
      <3>2. StringDepth(args, i) <= deep
        BY <1>1, <1>2, <2>1, FirstIsDeepest
      <3>3. args[i] \in Nat
        BY <1>1, <2>1
      <3> QED BY <1>1, <3>1, <3>2, <3>3
    <2>3. frame.pointers[i] = d /\ (i # n => frame.pointers[i + 1] = e)
      <3>1. i # n => i + 1 \in 1 .. n
        BY <1>1
      <3> QED BY <1>4, <2>2, <3>1
    <2>4. d - (IF i = frame.argc THEN 0 ELSE frame.pointers[i + 1]) = len
      BY <1>4, <2>2, <2>3
    <2>5. d <= frame.argv - WordBytes * (frame.argc + 1)
      BY <1>3, <1>4, <2>2 DEF WordBytes
    <2> QED BY <1>4, <2>2, <2>3, <2>4, <2>5
  <1>8. frame.esp = frame.argv + WordBytes
    BY <1>4 DEF WordBytes
  <1> QED BY <1>4, <1>5, <1>6, <1>7, <1>8 DEF Arrives

-----------------------------------------------------------------------------
(* All of it is inductive.                                                 *)
LoaderInv == FramesHold /\ \E args : LaidOut(stack, args)

LEMMA EmptyFrame == LaidOut(UserFrame(<<>>), <<>>)
  BY DEF LaidOut

LEMMA LoaderBegins == LoaderInit => LoaderInv
  <1> SUFFICES ASSUME LoaderInit PROVE LoaderInv
    OBVIOUS
  <1>1. EveryFrameIsOwned
    BY DEF LoaderInit, EveryFrameIsOwned
  <1>2. FramesHold
    BY <1>1 DEF LoaderInit, FramesHold
  <1>3. LaidOut(stack, <<>>)
    BY EmptyFrame DEF LoaderInit
  <1> QED BY <1>2, <1>3 DEF LoaderInv

LEMMA LoaderSteps == LoaderInv /\ [LoaderNext]_lvars => LoaderInv'
  <1> SUFFICES ASSUME LoaderInv, [LoaderNext]_lvars PROVE LoaderInv'
    OBVIOUS
  <1>1. ASSUME NEW image \in Image, Load(image) PROVE LoaderInv'
    <2>1. FramesHold'
      BY <1>1, LoadTakes, TakingKeepsFrames DEF LoaderInv
    <2>2. LaidOut(stack', <<>>)
      BY <1>1, EmptyFrame DEF Load
    <2> QED BY <2>1, <2>2 DEF LoaderInv, LaidOut
  <1>2. ASSUME NEW s \in spaces, Destroy(s) PROVE LoaderInv'
    <2>1. FramesHold'
      BY <1>2, DestroyKeepsFrames DEF LoaderInv
    <2>2. LaidOut(stack', <<>>)
      BY <1>2, EmptyFrame DEF Destroy
    <2> QED BY <2>1, <2>2 DEF LoaderInv, LaidOut
  <1>3. ASSUME NEW args \in Arguments, ExecImage(args) PROVE LoaderInv'
    <2>1. FramesHold'
      BY <1>3 DEF LoaderInv, ExecImage, FramesHold, IsSpace, EveryFrameIsOwned
    <2>2. LaidOut(stack', args)
      BY <1>3, LoaderAssumption DEF ExecImage, LaidOut, LoaderAssumption
    <2> QED BY <2>1, <2>2 DEF LoaderInv, LaidOut
  <1>4. CASE UNCHANGED lvars
    BY <1>4 DEF lvars, LoaderInv, FramesHold, IsSpace, EveryFrameIsOwned, LaidOut
  <1> QED BY <1>1, <1>2, <1>3, <1>4 DEF LoaderNext

(* No frame is in two spaces, none is free that a space has, and none is   *)
(* lost that the ARM did not lose: loading that fails half way gives back  *)
(* what it took, and destroying a program all that its image got.          *)
THEOREM FramesAreOwned == LoaderSpec => []EveryFrameIsOwned
  <1>1. LoaderInv => EveryFrameIsOwned
    BY DEF LoaderInv, FramesHold
  <1> QED BY <1>1, LoaderBegins, LoaderSteps, PTL DEF LoaderSpec

(* Each program has in its pages what its file says, with the rights its   *)
(* segments ask for, and its arguments on the stack where crt0.asm looks.  *)
THEOREM ProgramsArrive == LoaderSpec => []ProgramArrives
  <1>1. LoaderInv => ProgramArrives
    <2>1. SUFFICES ASSUME LoaderInv PROVE ImageIsLoaded /\ ArgumentsArrive
      BY DEF ProgramArrives
    <2>2. ImageIsLoaded
      <3>1. \A s \in spaces : HasImage(s.image, s.pages, bytes)
        BY <2>1 DEF LoaderInv, FramesHold, IsSpace
      <3> QED BY <3>1 DEF ImageIsLoaded, HasImage, HasSegment
    <2>3. ArgumentsArrive
      <3>1. Arrives(stack)
        BY <2>1, FrameArrives DEF LoaderInv
      <3> QED BY <3>1 DEF Arrives, ArgumentsArrive
    <2> QED BY <2>2, <2>3
  <1> QED BY <1>1, LoaderBegins, LoaderSteps, PTL DEF LoaderSpec
=============================================================================
