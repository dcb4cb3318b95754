---------------------------- MODULE AreasProofs ----------------------------
(***************************************************************************)
(* The list of memory areas stays sorted and free of overlaps, for every   *)
(* layout of the address space and every program, and the lookups that     *)
(* stop early find what the whole list holds.                              *)
(***************************************************************************)
EXTENDS Areas, TLAPS

(* AreasInOrder is not inductive: it would let an area start where another *)
(* one does, and an empty one stand inside another.                        *)
Sorted(list) ==
  /\ \A i, j \in DOMAIN list : i < j => list[i].start < list[j].start /\ list[i].end <= list[j].start
  /\ \A i \in DOMAIN list : list[i].start <= list[i].end /\ list[i].start % PageSize = 0

(* Only the heap may be empty, and only below the mmap region may an end   *)
(* be off a page boundary.                                                 *)
IsSound(v) ==
  /\ v \in Segment
  /\ v.start = v.end => v.start = HeapStart
  /\ v.end % PageSize = 0 \/ v.end <= HeapStart + HeapMax

Elements(list) == {list[i] : i \in DOMAIN list}
IsSpace(list) == list \in Seq(Segment) /\ Sorted(list) /\ \A v \in Elements(list) : IsSound(v)

AreasInv == IsSpace(areas)

-----------------------------------------------------------------------------
(* Addresses.                                                              *)
LEMMA Rounding ==
  ASSUME NEW a \in Nat
  PROVE  /\ AlignDown(a) \in Nat /\ AlignDown(a) % PageSize = 0 /\ AlignDown(a) <= a
         /\ AlignUp(a) \in Nat /\ AlignUp(a) % PageSize = 0 /\ AlignUp(a) >= a
         /\ \A b \in Nat : b % PageSize = 0 /\ a <= b => AlignUp(a) <= b
         /\ \A b \in Nat : b % PageSize = 0 /\ b <= a => b <= AlignDown(a)
         /\ a % PageSize = 0 => AlignDown(a) = a /\ AlignUp(a) = a
  <1>1. AlignDown(a) = a - (a % 2) /\ AlignUp(a) = (a + 1) - ((a + 1) % 2)
    BY DEF AlignDown, AlignUp, PageSize
  <1>2. /\ AlignDown(a) \in Nat /\ AlignDown(a) % 2 = 0 /\ AlignDown(a) <= a
        /\ AlignUp(a) \in Nat /\ AlignUp(a) % 2 = 0 /\ AlignUp(a) >= a
    BY <1>1
  <1>3. \A b \in Nat : b % 2 = 0 /\ a <= b => AlignUp(a) <= b
    BY <1>1
  <1>4. \A b \in Nat : b % 2 = 0 /\ b <= a => b <= AlignDown(a)
    BY <1>1
  <1>5. a % 2 = 0 => AlignDown(a) = a /\ AlignUp(a) = a
    BY <1>1
  <1> QED BY <1>2, <1>3, <1>4, <1>5 DEF PageSize

(* What the assumption says of the layout, for arithmetic to cite.         *)
LEMMA Layout ==
  /\ HeapStart \in Nat /\ HeapStart > 0 /\ HeapStart % PageSize = 0 /\ HeapMax \in Nat
  /\ MmapStart \in Nat /\ MmapStart > 0 /\ MmapStart % PageSize = 0 /\ MmapMax \in Nat
  /\ KernelStart \in Nat /\ KernelStart % PageSize = 0
  /\ HeapStart + HeapMax <= MmapStart /\ MmapStart < KernelStart
  /\ StackArea \in Segment /\ StackBottom < StackTop
  /\ StackBottom % PageSize = 0 /\ StackTop % PageSize = 0
  BY AreasAssumption DEF AreasAssumption, UserPage, Bound, PageSize, StackArea, Segment, RW

LEMMA SegmentIs ==
  ASSUME NEW v \in Segment
  PROVE  /\ v.start \in Nat /\ v.end \in Nat /\ v.start <= KernelStart /\ v.end <= KernelStart
         /\ v.flags \in Prot \cup {RW, {"R", "X"}}
         /\ v = [start |-> v.start, end |-> v.end, flags |-> v.flags]
  BY Layout DEF Segment

-----------------------------------------------------------------------------
(* One more area.                                                          *)
AddArea(list, s) == Added(list, s.start, s.end, s.flags)
EachAdded == INSTANCE FoldProofs WITH Op <- AddArea, Good <- Sorted

LEMMA BehindIs ==
  ASSUME NEW list \in Seq(Segment), Sorted(list), NEW v \in Segment
  PROVE  /\ Behind(list, v) \in 0 .. Len(list)
         /\ \A i \in 1 .. Behind(list, v) : list[i].start <= v.start
         /\ \A i \in Behind(list, v) + 1 .. Len(list) : list[i].start >= v.start
  <1> DEFINE n == Len(list)
             N == {i \in 1 .. n : i < n => list[i + 1].start >= v.start}
             Fits(i) == /\ \A j \in 2 .. i : list[j].start < v.start
                        /\ i < n => list[i + 1].start >= v.start
  <1>0. n \in Nat /\ DOMAIN list = 1 .. n /\ v.start \in Nat
        /\ (\A i \in 1 .. n : list[i] \in Segment /\ list[i].start \in Nat)
        /\ (\A i, j \in 1 .. n : i < j => list[i].start < list[j].start)
    BY SegmentIs DEF Sorted
  <1>1. CASE list = <<>> \/ Head(list).start > v.start
    <2>1. Behind(list, v) = 0
      BY <1>1 DEF Behind
    <2>2. ASSUME NEW i \in 1 .. n PROVE list[i].start >= v.start
      <3>1. Head(list).start > v.start /\ Head(list) = list[1] /\ 1 \in 1 .. n
        BY <1>0, <1>1, <2>2
      <3>2. i = 1 \/ list[1].start < list[i].start
        BY <1>0, <3>1
      <3> QED BY <1>0, <3>1, <3>2
    <2> QED BY <1>0, <2>1, <2>2
  <1>2. CASE ~(list = <<>> \/ Head(list).start > v.start)
    <2>1. n > 0 /\ n \in N /\ list[1].start <= v.start
      BY <1>0, <1>2
    <2>2. PICK m \in N : \A k \in N : ~(k < m)
      <3>1. N # {} /\ \A i \in N : i \in 1 .. n
        BY <2>1
      <3> HIDE DEF N
      <3>2. N \in SUBSET Nat
        BY <3>1
      <3> QED BY <3>1, <3>2, EachAdded!LeastExists
    <2>3. m \in 1 .. n /\ (m < n => list[m + 1].start >= v.start)
      BY <2>2
    <2>4. ASSUME NEW j \in 2 .. m PROVE list[j].start < v.start
      <3>1. PICK k \in Nat : j = k + 1 /\ k \in 1 .. n /\ k < m /\ k < n
        <4>1. j - 1 \in 1 .. n /\ j = (j - 1) + 1 /\ j - 1 < m /\ j - 1 < n
          BY <1>0, <2>3
        <4> QED BY <4>1
      <3>2. k \notin N
        BY <2>2, <3>1
      <3>3. ~(list[k + 1].start >= v.start)
        BY <3>1, <3>2
      <3>4. list[k + 1].start \in Nat
        BY <1>0, <3>1
      <3> QED BY <1>0, <3>1, <3>3, <3>4
    <2> HIDE DEF N
    <2>5. Fits(m)
      BY <2>3, <2>4
    <2>6. Behind(list, v) = CHOOSE i \in DOMAIN list : Fits(i)
      BY <1>2 DEF Behind
    <2>7. PICK p \in 1 .. n : p = Behind(list, v) /\ Fits(p)
      <3> DEFINE p == CHOOSE i \in DOMAIN list : Fits(i)
      <3>1. p \in DOMAIN list /\ Fits(p)
        BY <1>0, <2>3, <2>5
      <3> QED BY <1>0, <2>6, <3>1
    <2>8. ASSUME NEW i \in 1 .. p PROVE list[i].start <= v.start
      <3>1. CASE i = 1
        BY <2>1, <3>1
      <3>2. CASE i # 1
        <4>1. i \in 2 .. p /\ i \in 1 .. n
          BY <1>0, <3>2
        <4> QED BY <1>0, <2>7, <4>1
      <3> QED BY <3>1, <3>2
    <2>9. ASSUME NEW i \in p + 1 .. n PROVE list[i].start >= v.start
      <3>1. p < n /\ p + 1 \in 1 .. n /\ i \in 1 .. n
        BY <1>0
      <3>2. list[p + 1].start >= v.start
        BY <2>7, <3>1
      <3>3. i = p + 1 \/ list[p + 1].start < list[i].start
        BY <1>0, <3>1
      <3> QED BY <1>0, <3>1, <3>2, <3>3
    <2> QED BY <1>0, <2>7, <2>8, <2>9
  <1> QED BY <1>1, <1>2

HasInserted(longer, list, p, v) ==
  /\ longer \in Seq(Segment) /\ Len(longer) = Len(list) + 1
  /\ longer[p + 1] = v
  /\ \A i \in 1 .. p : longer[i] = list[i]
  /\ \A i \in p + 2 .. Len(list) + 1 : longer[i] = list[i - 1]

LEMMA InsertedIs ==
  ASSUME NEW list \in Seq(Segment), NEW p \in 0 .. Len(list), NEW v \in Segment
  PROVE  HasInserted(InsertAt(list, p + 1, v), list, p, v)
  <1> DEFINE n == Len(list)
             left == SubSeq(list, 1, p)
             right == SubSeq(list, p + 1, n)
             longer == InsertAt(list, p + 1, v)
  <1>1. n \in Nat /\ p \in Nat /\ p <= n
    OBVIOUS
  <1>2. left \in Seq(Segment) /\ Len(left) = p /\ \A i \in 1 .. p : left[i] = list[i]
    BY <1>1
  <1>3. right \in Seq(Segment) /\ Len(right) = n - p /\ \A i \in 1 .. n - p : right[i] = list[p + i]
    BY <1>1
  <1>4. longer = (left \o <<v>>) \o right
    <2>1. (p + 1) - 1 = p
      BY <1>1
    <2> QED BY <2>1 DEF InsertAt
  <1> HIDE DEF left, right
  <1>5. PICK first \in Seq(Segment) :
          first = left \o <<v>> /\ Len(first) = p + 1 /\ first[p + 1] = v
          /\ \A i \in 1 .. p : first[i] = list[i]
    <2>1. left \o <<v>> \in Seq(Segment) /\ Len(left \o <<v>>) = p + 1 /\ (left \o <<v>>)[p + 1] = v
          /\ \A i \in 1 .. p : (left \o <<v>>)[i] = list[i]
      BY <1>1, <1>2
    <2> QED BY <2>1
  <1>6. longer \in Seq(Segment) /\ Len(longer) = (p + 1) + (n - p)
        /\ (\A i \in 1 .. p + 1 : longer[i] = first[i])
        /\ \A i \in 1 .. n - p : longer[p + 1 + i] = right[i]
    <2>1. PICK last \in Seq(Segment) : last = right /\ Len(last) = n - p
      BY <1>3
    <2>2. longer = first \o last
      BY <1>4, <1>5, <2>1
    <2>3. first \o last \in Seq(Segment) /\ Len(first \o last) = (p + 1) + (n - p)
      <3>1. first \o last \in Seq(Segment) /\ Len(first \o last) = Len(first) + Len(last)
        OBVIOUS
      <3> QED BY <1>5, <2>1, <3>1
    <2>4. \A i \in 1 .. p + 1 : (first \o last)[i] = first[i]
      BY <1>1, <1>5, <2>1
    <2>5. \A i \in 1 .. n - p : (first \o last)[p + 1 + i] = last[i]
      BY <1>1, <1>5, <2>1
    <2> QED BY <2>1, <2>2, <2>3, <2>4, <2>5
  <1>7. ASSUME NEW i \in p + 2 .. n + 1 PROVE longer[i] = list[i - 1]
    <2>1. PICK k \in 1 .. n - p : i = p + 1 + k /\ i - 1 = p + k
      <3>1. i - p - 1 \in 1 .. n - p /\ i = p + 1 + (i - p - 1) /\ i - 1 = p + (i - p - 1)
        BY <1>1
      <3> QED BY <3>1
    <2> QED BY <1>3, <1>6, <2>1
  <1>8. Len(longer) = n + 1 /\ longer[p + 1] = v /\ \A i \in 1 .. p : longer[i] = list[i]
    BY <1>1, <1>5, <1>6
  <1> QED BY <1>6, <1>7, <1>8 DEF HasInserted

(* The place an area needs among those of a list.                          *)
Before(v, w) == v.start < w.start /\ v.end <= w.start
HasRoom(list, v) == \A w \in Elements(list) : Before(v, w) \/ Before(w, v)

LEMMA InsertedIsSorted ==
  ASSUME NEW list \in Seq(Segment), Sorted(list), NEW v \in Segment,
         v.start <= v.end, v.start % PageSize = 0, HasRoom(list, v)
  PROVE  LET longer == InsertAt(list, Behind(list, v) + 1, v) IN
         longer \in Seq(Segment) /\ Sorted(longer) /\ Elements(longer) = Elements(list) \cup {v}
  <1> DEFINE n == Len(list)
             p == Behind(list, v)
             longer == InsertAt(list, p + 1, v)
  <1>0. n \in Nat /\ DOMAIN list = 1 .. n
        /\ (\A i \in 1 .. n : list[i] \in Segment /\ list[i].start \in Nat)
        /\ (\A i, j \in 1 .. n : i < j => Before(list[i], list[j]))
        /\ (\A i \in 1 .. n : list[i].start <= list[i].end /\ list[i].start % PageSize = 0)
    BY SegmentIs DEF Sorted, Before
  <1>1. /\ p \in 0 .. n
        /\ \A i \in 1 .. p : list[i].start <= v.start
        /\ \A i \in p + 1 .. n : list[i].start >= v.start
    BY BehindIs
  <1>2. /\ longer \in Seq(Segment) /\ Len(longer) = n + 1 /\ longer[p + 1] = v
        /\ \A i \in 1 .. p : longer[i] = list[i]
        /\ \A i \in p + 2 .. n + 1 : longer[i] = list[i - 1]
    <2>1. PICK q \in 0 .. Len(list) : q = p
      BY <1>1
    <2>2. longer = InsertAt(list, q + 1, v)
      BY <2>1
    <2> HIDE DEF longer, p
    <2>3. HasInserted(InsertAt(list, q + 1, v), list, q, v)
      BY InsertedIs
    <2> QED BY <2>1, <2>2, <2>3 DEF HasInserted
  <1> HIDE DEF n, longer, p
  <1>3. v.start \in Nat
    BY SegmentIs
  <1>4. ASSUME NEW i \in 1 .. p PROVE Before(list[i], v)
    <2>1. i \in 1 .. n /\ list[i] \in Elements(list) /\ list[i].start <= v.start /\ list[i].start \in Nat
      BY <1>0, <1>1 DEF Elements
    <2>2. ~Before(v, list[i])
      BY <1>3, <2>1 DEF Before
    <2> QED BY <2>1, <2>2 DEF HasRoom
  <1>5. ASSUME NEW i \in p + 1 .. n PROVE Before(v, list[i])
    <2>1. i \in 1 .. n /\ list[i] \in Elements(list) /\ list[i].start >= v.start /\ list[i].start \in Nat
      BY <1>0, <1>1 DEF Elements
    <2>2. ~Before(list[i], v)
      BY <1>3, <2>1 DEF Before
    <2> QED BY <2>1, <2>2 DEF HasRoom
  <1>6. ASSUME NEW i \in 1 .. n + 1, NEW j \in 1 .. n + 1, i < j PROVE Before(longer[i], longer[j])
    <2>1. CASE j <= p
      <3>1. i \in 1 .. p /\ j \in 1 .. p /\ i \in 1 .. n /\ j \in 1 .. n
        BY <1>0, <1>1, <1>6, <2>1
      <3> QED BY <1>0, <1>2, <1>6, <3>1
    <2>2. CASE j = p + 1
      <3>1. i \in 1 .. p
        BY <1>1, <1>6, <2>2
      <3> QED BY <1>2, <1>4, <2>2, <3>1
    <2>3. CASE j > p + 1
      <3>1. j \in p + 2 .. n + 1 /\ j - 1 \in p + 1 .. n /\ j - 1 \in 1 .. n
        BY <1>0, <1>1, <2>3
      <3>2. longer[j] = list[j - 1]
        BY <1>2, <3>1
      <3>3. CASE i <= p
        <4>1. i \in 1 .. p /\ i \in 1 .. n /\ i < j - 1
          BY <1>0, <1>1, <2>3, <3>3
        <4>2. Before(list[i], list[j - 1])
          BY <1>0, <3>1, <4>1
        <4> QED BY <1>2, <3>2, <4>1, <4>2
      <3>4. CASE i = p + 1
        BY <1>2, <1>5, <3>1, <3>2, <3>4
      <3>5. CASE i > p + 1
        <4>1. i \in p + 2 .. n + 1 /\ i - 1 \in 1 .. n /\ i - 1 < j - 1
          BY <1>0, <1>1, <1>6, <3>5
        <4>2. Before(list[i - 1], list[j - 1])
          BY <1>0, <3>1, <4>1
        <4> QED BY <1>2, <3>2, <4>1, <4>2
      <3> QED BY <1>1, <3>3, <3>4, <3>5
    <2> QED BY <1>0, <1>1, <2>1, <2>2, <2>3
  <1>7. ASSUME NEW i \in 1 .. n + 1
        PROVE  longer[i] = v \/ longer[i] \in Elements(list)
    <2>1. CASE i <= p
      <3>1. i \in 1 .. p /\ i \in 1 .. n
        BY <1>0, <1>1, <2>1
      <3> QED BY <1>0, <1>2, <3>1 DEF Elements
    <2>2. CASE i = p + 1
      BY <1>2, <2>2
    <2>3. CASE i > p + 1
      <3>1. i \in p + 2 .. n + 1 /\ i - 1 \in 1 .. n
        BY <1>0, <1>1, <2>3
      <3> QED BY <1>0, <1>2, <3>1 DEF Elements
    <2> QED BY <1>0, <1>1, <2>1, <2>2, <2>3
  <1>8. DOMAIN longer = 1 .. n + 1
    BY <1>2
  <1>9. ASSUME NEW w \in Elements(list) PROVE w \in Elements(longer)
    <2>1. PICK i \in 1 .. n : w = list[i]
      BY <1>0 DEF Elements
    <2>2. CASE i <= p
      <3>1. i \in 1 .. p /\ i \in 1 .. n + 1
        BY <1>0, <1>1, <2>2
      <3> QED BY <1>2, <1>8, <2>1, <3>1 DEF Elements
    <2>3. CASE i > p
      <3>1. i + 1 \in p + 2 .. n + 1 /\ i + 1 \in 1 .. n + 1 /\ (i + 1) - 1 = i
        BY <1>0, <1>1, <2>3
      <3>2. longer[i + 1] = list[i]
        BY <1>2, <3>1
      <3> QED BY <1>8, <2>1, <3>1, <3>2 DEF Elements
    <2> QED BY <1>0, <1>1, <2>2, <2>3
  <1>10. v \in Elements(longer)
    <2>1. p + 1 \in 1 .. n + 1
      BY <1>0, <1>1
    <2> QED BY <1>2, <1>8, <2>1 DEF Elements
  <1>11. Elements(longer) = Elements(list) \cup {v}
    <2>1. Elements(longer) \subseteq Elements(list) \cup {v}
      BY <1>7, <1>8 DEF Elements
    <2> QED BY <1>9, <1>10, <2>1
  <1>12. \A w \in Elements(list) : w.start <= w.end /\ w.start % PageSize = 0
    BY <1>0 DEF Elements
  <1>13. Sorted(longer)
    <2>1. ASSUME NEW i \in 1 .. n + 1
          PROVE  longer[i].start <= longer[i].end /\ longer[i].start % PageSize = 0
      BY <1>7, <1>12
    <2> QED BY <1>6, <1>8, <2>1 DEF Sorted, Before
  <1> QED BY <1>2, <1>11, <1>13 DEF longer, p

(* vma_add with what it does to the boundaries.                            *)
Rounded(a, b, flags) == [start |-> AlignDown(a), end |-> AlignUp(b), flags |-> flags]

LEMMA AddedIs ==
  ASSUME NEW list \in Seq(Segment), Sorted(list), NEW v \in Segment, v.start <= v.end,
         HasRoom(list, Rounded(v.start, v.end, v.flags))
  PROVE  LET new == Rounded(v.start, v.end, v.flags)
             longer == Added(list, v.start, v.end, v.flags) IN
         /\ new \in Segment /\ new.start <= v.start /\ v.end <= new.end
         /\ new.start % PageSize = 0 /\ new.end % PageSize = 0
         /\ longer \in Seq(Segment) /\ Sorted(longer) /\ Elements(longer) = Elements(list) \cup {new}
  <1> DEFINE new == Rounded(v.start, v.end, v.flags)
  <1>1. v.start \in Nat /\ v.end \in Nat /\ v.start <= KernelStart /\ v.end <= KernelStart
        /\ v.flags \in Prot \cup {RW, {"R", "X"}}
    BY SegmentIs
  <1>2. new.start = AlignDown(v.start) /\ new.end = AlignUp(v.end) /\ new.flags = v.flags
        /\ new = [start |-> AlignDown(v.start), end |-> AlignUp(v.end), flags |-> v.flags]
    BY DEF Rounded
  <1>3. AlignDown(v.start) \in Nat /\ AlignDown(v.start) % PageSize = 0 /\ AlignDown(v.start) <= v.start
    BY <1>1, Rounding
  <1>4. AlignUp(v.end) \in Nat /\ AlignUp(v.end) % PageSize = 0 /\ AlignUp(v.end) >= v.end
    BY <1>1, Rounding
  <1>5. AlignUp(v.end) <= KernelStart
    BY <1>1, Layout, Rounding
  <1>6. AlignDown(v.start) \in 0 .. KernelStart /\ AlignUp(v.end) \in 0 .. KernelStart
    BY <1>1, <1>3, <1>4, <1>5, Layout
  <1>7. new \in Segment
    BY <1>1, <1>2, <1>6 DEF Segment
  <1>8. new.start <= new.end
    BY <1>1, <1>2, <1>3, <1>4
  <1>9. Added(list, v.start, v.end, v.flags) = InsertAt(list, Behind(list, new) + 1, new)
    BY <1>2 DEF Added
  <1> HIDE DEF new
  <1>10. LET longer == InsertAt(list, Behind(list, new) + 1, new) IN
         longer \in Seq(Segment) /\ Sorted(longer) /\ Elements(longer) = Elements(list) \cup {new}
    <2>1. HasRoom(list, new) /\ new.start % PageSize = 0
      BY <1>2, <1>3 DEF new
    <2> QED BY <1>7, <1>8, <2>1, InsertedIsSorted
  <1>11. new.start <= v.start /\ v.end <= new.end /\ new.start % PageSize = 0 /\ new.end % PageSize = 0
    BY <1>1, <1>2, <1>3, <1>4
  <1> QED BY <1>7, <1>9, <1>10, <1>11 DEF new

-----------------------------------------------------------------------------
(* Lists that are built area by area: exec and fork.                       *)
OnPages(v) == Rounded(v.start, v.end, v.flags)
Apart(v, w) == Before(v, w) \/ Before(w, v)

(* Areas that share no page, once they are rounded to pages.               *)
Separate(seq) ==
  /\ seq \in Seq(Segment)
  /\ \A i \in 1 .. Len(seq) : seq[i].start <= seq[i].end
  /\ \A i, j \in 1 .. Len(seq) : i # j => Apart(OnPages(seq[i]), OnPages(seq[j]))

Pages(seq, k) == {OnPages(seq[i]) : i \in 1 .. k}
Holds(list, areaSet) == list \in Seq(Segment) /\ Sorted(list) /\ Elements(list) = areaSet

LEMMA OneMore ==
  ASSUME NEW list, NEW areaSet, Holds(list, areaSet), NEW v \in Segment, v.start <= v.end,
         \A w \in areaSet : Apart(w, OnPages(v))
  PROVE  Holds(AddArea(list, v), areaSet \cup {OnPages(v)}) /\ OnPages(v) \in Segment
  <1>1. list \in Seq(Segment) /\ Sorted(list) /\ Elements(list) = areaSet
    BY DEF Holds
  <1>2. HasRoom(list, Rounded(v.start, v.end, v.flags))
    BY <1>1 DEF HasRoom, Apart, OnPages
  <1> QED BY <1>1, <1>2, AddedIs DEF Holds, AddArea, OnPages

LEMMA NothingHeld == Holds(<< >>, {})
  <1>1. << >> \in Seq(Segment) /\ DOMAIN << >> = {}
    OBVIOUS
  <1> QED BY <1>1 DEF Holds, Sorted, Elements

LEMMA AllAdded ==
  ASSUME NEW seq, Separate(seq)
  PROVE  Holds(EachAdded!Folded(<< >>, seq), Pages(seq, Len(seq)))
  <1> DEFINE n == Len(seq)
  <1>1. seq \in Seq(Segment) /\ n \in Nat
        /\ (\A i \in 1 .. n : seq[i] \in Segment /\ seq[i].start <= seq[i].end)
        /\ \A i, j \in 1 .. n : i # j => Apart(OnPages(seq[i]), OnPages(seq[j]))
    BY DEF Separate
  <1>2. PICK h : EachAdded!Passes(h, << >>, seq) /\ EachAdded!Folded(<< >>, seq) = h[n]
    BY <1>1, EachAdded!FoldedPasses
  <1>3. h[0] = << >> /\ \A j \in Nat : j < n => h[j + 1] = AddArea(h[j], seq[j + 1])
    BY <1>2 DEF EachAdded!Passes
  <1> HIDE DEF n
  <1> DEFINE bad == {k \in Nat : k <= n /\ ~Holds(h[k], Pages(seq, k))}
  <1>4. bad = {}
    <2>1. SUFFICES ASSUME bad # {} PROVE FALSE
      OBVIOUS
    <2>2. PICK m \in bad : \A k \in bad : ~(k < m)
      <3>1. bad \in SUBSET Nat
        OBVIOUS
      <3> HIDE DEF bad
      <3> QED BY <2>1, <3>1, EachAdded!LeastExists
    <2>3. m \in Nat /\ m <= n /\ ~Holds(h[m], Pages(seq, m)) /\ \A k \in bad : ~(k < m)
      BY <2>2
    <2>4. m # 0
      <3>1. Pages(seq, 0) = {}
        BY DEF Pages
      <3> QED BY <1>3, <2>3, <3>1, NothingHeld
    <2>5. PICK k \in Nat : k + 1 = m
      <3>1. m - 1 \in Nat /\ (m - 1) + 1 = m
        BY <2>3, <2>4
      <3> QED BY <3>1
    <2>6. k < n /\ k <= n /\ k + 1 \in 1 .. n /\ Holds(h[k], Pages(seq, k))
      BY <1>1, <2>3, <2>5
    <2>7. h[m] = AddArea(h[k], seq[k + 1])
      BY <1>3, <2>5, <2>6
    <2>8. Pages(seq, m) = Pages(seq, k) \cup {OnPages(seq[k + 1])}
      <3>1. 1 .. m = (1 .. k) \cup {k + 1}
        BY <2>5
      <3> QED BY <3>1 DEF Pages
    <2>9. \A w \in Pages(seq, k) : Apart(w, OnPages(seq[k + 1]))
      <3>1. \A i \in 1 .. k : i \in 1 .. n /\ i # k + 1
        BY <1>1, <2>6
      <3> QED BY <1>1, <2>6, <3>1 DEF Pages
    <2>10. PICK v \in Segment : v = seq[k + 1] /\ v.start <= v.end
      BY <1>1, <2>6
    <2>11. \A w \in Pages(seq, k) : Apart(w, OnPages(v))
      BY <2>9, <2>10
    <2>12. Holds(AddArea(h[k], v), Pages(seq, k) \cup {OnPages(v)})
      BY <2>6, <2>10, <2>11, OneMore
    <2> QED BY <2>3, <2>7, <2>8, <2>10, <2>12
  <1>5. n \in Nat /\ n <= n
    BY <1>1
  <1>6. Holds(h[n], Pages(seq, n))
    BY <1>4, <1>5
  <1> QED BY <1>2, <1>6 DEF n

LEMMA LoadedFolds ==
  ASSUME NEW program
  PROVE  Loaded(program) = EachAdded!Folded(<< >>, program) /\ Cloned(program) = EachAdded!Folded(<< >>, program)
  BY DEF Loaded, Cloned, EachAdded!Folded, FoldLeft, MapThenFoldSet, Max,
         EachAdded!FoldLeft, EachAdded!MapThenFoldSet, EachAdded!Max, AddArea

LEMMA SpaceIs ==
  ASSUME NEW list, NEW areaSet, Holds(list, areaSet), \A v \in areaSet : IsSound(v)
  PROVE  IsSpace(list)
  BY DEF Holds, IsSpace

LEMMA OnPagesIs ==
  ASSUME NEW v \in Segment, v.start <= v.end
  PROVE  /\ OnPages(v) \in Segment /\ OnPages(v).flags = v.flags
         /\ OnPages(v).start = AlignDown(v.start) /\ OnPages(v).end = AlignUp(v.end)
         /\ OnPages(v).start <= v.start /\ v.end <= OnPages(v).end
         /\ OnPages(v).start % PageSize = 0 /\ OnPages(v).end % PageSize = 0
         /\ v.start < v.end => IsSound(OnPages(v))
  <1>1. v.start \in Nat /\ v.end \in Nat /\ v.start <= KernelStart /\ v.end <= KernelStart
        /\ v.flags \in Prot \cup {RW, {"R", "X"}}
    BY SegmentIs
  <1>2. /\ OnPages(v) = [start |-> AlignDown(v.start), end |-> AlignUp(v.end), flags |-> v.flags]
        /\ OnPages(v).flags = v.flags
        /\ OnPages(v).start = AlignDown(v.start) /\ OnPages(v).end = AlignUp(v.end)
    BY DEF OnPages, Rounded
  <1>3. AlignDown(v.start) \in Nat /\ AlignDown(v.start) % PageSize = 0 /\ AlignDown(v.start) <= v.start
    BY <1>1, Rounding
  <1>4. AlignUp(v.end) \in Nat /\ AlignUp(v.end) % PageSize = 0 /\ AlignUp(v.end) >= v.end
    BY <1>1, Rounding
  <1>5. AlignUp(v.end) <= KernelStart
    BY <1>1, Layout, Rounding
  <1>6. AlignDown(v.start) \in 0 .. KernelStart /\ AlignUp(v.end) \in 0 .. KernelStart
    BY <1>1, <1>3, <1>4, <1>5, Layout
  <1>7. OnPages(v) \in Segment
    BY <1>1, <1>2, <1>6 DEF Segment
  <1>8. v.start < v.end => AlignDown(v.start) # AlignUp(v.end)
    BY <1>1, <1>3, <1>4
  <1> QED BY <1>1, <1>2, <1>3, <1>4, <1>7, <1>8 DEF IsSound

(* The segments of a program, the stack and the empty heap.                *)
LEMMA LoadedIs ==
  ASSUME NEW p \in Program
  PROVE  Separate(p) /\ Holds(Loaded(p), Pages(p, Len(p)))
  <1>1. /\ p \in Seq(Segment)
        /\ \A i \in DOMAIN p : /\ p[i].start < p[i].end
                               /\ \A j \in DOMAIN p : i # j => PagesApart(p[i], p[j])
    BY AreasAssumption DEF AreasAssumption
  <1>2. \A i \in 1 .. Len(p) : p[i] \in Segment /\ i \in DOMAIN p /\ p[i].start < p[i].end
    BY <1>1
  <1>3. \A i \in 1 .. Len(p) : p[i].start <= p[i].end
    BY <1>2, SegmentIs
  <1>4. ASSUME NEW i \in 1 .. Len(p), NEW j \in 1 .. Len(p), i # j
        PROVE  Apart(OnPages(p[i]), OnPages(p[j]))
    <2>1. PICK v \in Segment : v = p[i] /\ v.start < v.end /\ v.start <= v.end
      BY <1>2, <1>3
    <2>2. PICK w \in Segment : w = p[j] /\ w.start < w.end /\ w.start <= w.end
      BY <1>2, <1>3
    <2>3. PagesApart(v, w)
      BY <1>1, <1>2, <1>4, <2>1, <2>2
    <2>4. OnPages(v).start = AlignDown(v.start) /\ OnPages(v).end = AlignUp(v.end)
          /\ OnPages(v).start <= v.start /\ v.end <= OnPages(v).end /\ OnPages(v) \in Segment
      BY <2>1, OnPagesIs
    <2>5. OnPages(w).start = AlignDown(w.start) /\ OnPages(w).end = AlignUp(w.end)
          /\ OnPages(w).start <= w.start /\ w.end <= OnPages(w).end /\ OnPages(w) \in Segment
      BY <2>2, OnPagesIs
    <2>6. OnPages(v).end <= OnPages(w).start \/ OnPages(w).end <= OnPages(v).start
      BY <2>3, <2>4, <2>5 DEF PagesApart
    <2>7. /\ OnPages(v).start \in Nat /\ OnPages(v).end \in Nat /\ v.start \in Nat /\ v.end \in Nat
          /\ OnPages(w).start \in Nat /\ OnPages(w).end \in Nat /\ w.start \in Nat /\ w.end \in Nat
      BY <2>4, <2>5, SegmentIs
    <2> HIDE DEF OnPages
    <2>8. OnPages(v).start < OnPages(v).end /\ OnPages(w).start < OnPages(w).end
      BY <2>1, <2>2, <2>4, <2>5, <2>7
    <2>9. Apart(OnPages(v), OnPages(w))
      BY <2>6, <2>7, <2>8 DEF Apart, Before
    <2> QED BY <2>1, <2>2, <2>9
  <1>5. Separate(p)
    BY <1>1, <1>3, <1>4 DEF Separate
  <1> QED BY <1>5, AllAdded, LoadedFolds

(* An area of its own beside those of the program.                         *)
LEMMA ProgramPages ==
  ASSUME NEW p \in Program, NEW w \in Pages(p, Len(p))
  PROVE  /\ w \in Segment /\ w.start < w.end /\ IsSound(w)
         /\ w.end <= HeapStart \/ HeapStart < w.start
         /\ w.end <= StackBottom \/ StackTop <= w.start
  <1>1. PICK i \in 1 .. Len(p) : w = OnPages(p[i])
    BY DEF Pages
  <1>2. /\ p \in Seq(Segment) /\ i \in DOMAIN p /\ p[i].start < p[i].end
        /\ AwayFromHeap(p[i]) /\ PagesApart(p[i], StackArea)
    BY AreasAssumption DEF AreasAssumption
  <1>3. PICK v \in Segment : v = p[i]
    BY <1>2
  <1>4. v.start \in Nat /\ v.end \in Nat /\ v.start < v.end /\ v.start <= v.end
    BY <1>2, <1>3, SegmentIs
  <1>5. /\ w \in Segment /\ w.start = AlignDown(v.start) /\ w.end = AlignUp(v.end)
        /\ w.start <= v.start /\ v.end <= w.end /\ IsSound(w)
    BY <1>1, <1>3, <1>4, OnPagesIs
  <1>6. w.start \in Nat /\ w.end \in Nat /\ w.start < w.end
    BY <1>4, <1>5, SegmentIs
  <1>7. w.end <= HeapStart \/ HeapStart < w.start
    BY <1>2, <1>3, <1>5 DEF AwayFromHeap
  <1>8. AlignDown(StackBottom) = StackBottom /\ AlignUp(StackTop) = StackTop
    <2>1. StackBottom \in Nat /\ StackTop \in Nat
      BY Layout, SegmentIs DEF StackArea
    <2> QED BY <2>1, Layout, Rounding
  <1>9. w.end <= StackBottom \/ StackTop <= w.start
    BY <1>2, <1>3, <1>5, <1>8 DEF PagesApart, StackArea
  <1> QED BY <1>5, <1>6, <1>7, <1>9

LEMMA ImagesAreSpaces ==
  ASSUME NEW p \in Program
  PROVE  IsSpace(Loaded(p)) /\ IsSpace(WithStack(p)) /\ IsSpace(NewImage(p))
  <1> DEFINE pages == Pages(p, Len(p))
             heap == [start |-> HeapStart, end |-> HeapStart, flags |-> RW]
  <1>1. Holds(Loaded(p), pages)
    BY LoadedIs
  <1>2. \A w \in pages : IsSound(w)
    BY ProgramPages
  <1>3. StackArea \in Segment /\ StackBottom \in Nat /\ StackTop \in Nat /\ StackBottom < StackTop
        /\ StackArea.start = StackBottom /\ StackArea.end = StackTop /\ StackArea.flags = RW
    BY Layout, SegmentIs DEF StackArea
  <1>4. AlignDown(StackBottom) = StackBottom /\ AlignUp(StackTop) = StackTop
    BY <1>3, Layout, Rounding
  <1>5. OnPages(StackArea) = StackArea /\ IsSound(StackArea)
    BY <1>3, <1>4, Layout DEF OnPages, Rounded, StackArea, IsSound
  <1>6. \A w \in pages : Apart(w, StackArea)
    <2>1. ASSUME NEW w \in pages PROVE Apart(w, StackArea)
      <3>1. w \in Segment /\ w.start < w.end /\ (w.end <= StackBottom \/ StackTop <= w.start)
        BY ProgramPages
      <3>2. w.start \in Nat /\ w.end \in Nat
        BY <3>1, SegmentIs
      <3> QED BY <1>3, <3>1, <3>2 DEF Apart, Before
    <2> QED BY <2>1
  <1>7. Holds(WithStack(p), pages \cup {StackArea})
    <2>1. WithStack(p) = AddArea(Loaded(p), StackArea)
      BY <1>3 DEF WithStack, AddArea
    <2>2. StackArea.start <= StackArea.end
      BY <1>3
    <2> HIDE DEF pages
    <2>3. \A w \in pages : Apart(w, OnPages(StackArea))
      BY <1>5, <1>6
    <2>4. Holds(AddArea(Loaded(p), StackArea), pages \cup {OnPages(StackArea)})
      BY <1>1, <1>3, <2>2, <2>3, OneMore
    <2> QED BY <1>5, <2>1, <2>4
  <1>8. heap \in Segment /\ heap.start <= heap.end /\ OnPages(heap) = heap /\ IsSound(heap)
    <2>1. AlignDown(HeapStart) = HeapStart /\ AlignUp(HeapStart) = HeapStart
      BY Layout, Rounding
    <2>2. heap \in Segment
      BY Layout DEF Segment
    <2> QED BY <2>1, <2>2, Layout DEF OnPages, Rounded, IsSound
  <1>9. \A w \in pages \cup {StackArea} : Apart(w, heap)
    <2>1. ASSUME NEW w \in pages PROVE Apart(w, heap)
      <3>1. w \in Segment /\ w.start < w.end /\ (w.end <= HeapStart \/ HeapStart < w.start)
        BY ProgramPages
      <3>2. w.start \in Nat /\ w.end \in Nat
        BY <3>1, SegmentIs
      <3> QED BY <3>1, <3>2, Layout DEF Apart, Before
    <2>2. StackTop <= HeapStart \/ HeapStart < StackBottom
      BY <1>3, <1>4, AreasAssumption DEF AreasAssumption, AwayFromHeap
    <2>3. Apart(StackArea, heap)
      BY <1>3, <2>2, Layout DEF Apart, Before
    <2> QED BY <2>1, <2>3
  <1>10. Holds(NewImage(p), (pages \cup {StackArea}) \cup {heap})
    <2>1. NewImage(p) = AddArea(WithStack(p), heap)
      BY DEF NewImage, AddArea
    <2> DEFINE all == pages \cup {StackArea}
    <2>2. Holds(WithStack(p), all) /\ \A w \in all : Apart(w, OnPages(heap))
      BY <1>7, <1>8, <1>9
    <2> HIDE DEF all, heap
    <2>3. Holds(AddArea(WithStack(p), heap), all \cup {OnPages(heap)})
      BY <1>8, <2>2, OneMore
    <2> QED BY <1>8, <2>1, <2>3 DEF all
  <1>11. IsSpace(Loaded(p))
    BY <1>1, <1>2, SpaceIs
  <1>12. IsSpace(WithStack(p))
    BY <1>2, <1>5, <1>7, SpaceIs
  <1>13. IsSpace(NewImage(p))
    <2> HIDE DEF pages, heap
    <2>1. \A w \in (pages \cup {StackArea}) \cup {heap} : IsSound(w)
      BY <1>2, <1>5, <1>8
    <2> QED BY <1>10, <2>1, SpaceIs
  <1> QED BY <1>11, <1>12, <1>13

LEMMA SpaceFacts ==
  ASSUME NEW list, IsSpace(list)
  PROVE  /\ list \in Seq(Segment) /\ Len(list) \in Nat /\ DOMAIN list = 1 .. Len(list)
         /\ \A i \in 1 .. Len(list) :
              /\ list[i] \in Segment /\ IsSound(list[i])
              /\ list[i].start \in Nat /\ list[i].end \in Nat /\ list[i].start <= list[i].end
              /\ list[i].start % PageSize = 0
         /\ \A i, j \in 1 .. Len(list) :
              i < j => list[i].start < list[j].start /\ list[i].end <= list[j].start
  <1>1. list \in Seq(Segment) /\ Sorted(list) /\ \A v \in Elements(list) : IsSound(v)
    BY DEF IsSpace
  <1>2. DOMAIN list = 1 .. Len(list) /\ Len(list) \in Nat /\ \A i \in 1 .. Len(list) : list[i] \in Segment
    BY <1>1
  <1>3. \A i \in 1 .. Len(list) : list[i] \in Elements(list)
    BY <1>2 DEF Elements
  <1>4. \A i \in 1 .. Len(list) : list[i].start \in Nat /\ list[i].end \in Nat
    BY <1>2, SegmentIs
  <1> QED BY <1>1, <1>2, <1>3, <1>4 DEF Sorted

(* fork copies each area with its end rounded up to the page, which covers *)
(* no page more.                                                           *)
LEMMA ClonedIs ==
  ASSUME NEW list, IsSpace(list)
  PROVE  IsSpace(Cloned(list)) /\ Elements(Cloned(list)) = Pages(list, Len(list))
  <1>1. /\ list \in Seq(Segment) /\ Len(list) \in Nat
        /\ \A i \in 1 .. Len(list) :
             /\ list[i] \in Segment /\ IsSound(list[i])
             /\ list[i].start \in Nat /\ list[i].end \in Nat /\ list[i].start <= list[i].end
             /\ list[i].start % PageSize = 0
        /\ \A i, j \in 1 .. Len(list) :
             i < j => list[i].start < list[j].start /\ list[i].end <= list[j].start
    BY SpaceFacts
  <1>2. ASSUME NEW i \in 1 .. Len(list), NEW j \in 1 .. Len(list), i < j
        PROVE  Before(OnPages(list[i]), OnPages(list[j]))
    <2>1. PICK v \in Segment : v = list[i] /\ v.start \in Nat /\ v.end \in Nat /\ v.start <= v.end
                               /\ v.start % PageSize = 0
      BY <1>1
    <2>2. PICK w \in Segment : w = list[j] /\ w.start \in Nat /\ w.end \in Nat /\ w.start <= w.end
                               /\ w.start % PageSize = 0
      BY <1>1
    <2>3. v.start < w.start /\ v.end <= w.start
      BY <1>1, <1>2, <2>1, <2>2
    <2>4. AlignUp(v.end) <= w.start /\ AlignDown(w.start) = w.start /\ AlignDown(v.start) = v.start
      BY <2>1, <2>2, <2>3, Rounding
    <2>5. OnPages(v).start = v.start /\ OnPages(v).end <= w.start /\ OnPages(w).start = w.start
      BY <2>1, <2>2, <2>4, OnPagesIs
    <2> QED BY <2>1, <2>2, <2>3, <2>5 DEF Before
  <1>3. ASSUME NEW i \in 1 .. Len(list), NEW j \in 1 .. Len(list), i # j
        PROVE  Apart(OnPages(list[i]), OnPages(list[j]))
    <2>1. i < j \/ j < i
      BY <1>3
    <2> QED BY <1>2, <2>1 DEF Apart
  <1>4. Separate(list)
    BY <1>1, <1>3 DEF Separate
  <1>5. Holds(Cloned(list), Pages(list, Len(list)))
    BY <1>4, AllAdded, LoadedFolds
  <1>6. ASSUME NEW w \in Pages(list, Len(list)) PROVE IsSound(w)
    <2>1. PICK i \in 1 .. Len(list) : w = OnPages(list[i])
      BY DEF Pages
    <2>2. PICK v \in Segment : v = list[i] /\ v.start \in Nat /\ v.end \in Nat /\ v.start <= v.end
                               /\ v.start % PageSize = 0 /\ IsSound(v)
      BY <1>1
    <2>3. /\ w \in Segment /\ w.start = AlignDown(v.start) /\ w.end % PageSize = 0
          /\ v.start < v.end => IsSound(w)
      BY <2>1, <2>2, OnPagesIs
    <2>4. CASE v.start = v.end
      <3>1. v.start = HeapStart /\ w.start = HeapStart
        BY <2>2, <2>3, <2>4, Rounding DEF IsSound
      <3> QED BY <2>3, <3>1 DEF IsSound
    <2> QED BY <2>2, <2>3, <2>4
  <1>7. IsSpace(Cloned(list))
    BY <1>5, <1>6, SpaceIs
  <1> QED BY <1>5, <1>7 DEF Holds

-----------------------------------------------------------------------------
(* What the searches find.                                                 *)
LEMMA SearchReaches ==
  ASSUME NEW list, IsSpace(list), NEW i \in 1 .. Len(list), NEW a \in Int,
         list[i].start <= a, NEW ignored
  PROVE  i \in Searched(list, a, ignored)
  <1>1. /\ DOMAIN list = 1 .. Len(list) /\ Len(list) \in Nat
        /\ \A j \in 1 .. Len(list) : list[j].start \in Nat
        /\ \A j \in 1 .. Len(list) : j < i => list[j].start < list[i].start
    BY SpaceFacts
  <1>2. ASSUME NEW j \in 1 .. i - 1 PROVE ~StopsSearch(list[j], a)
    <2>1. j \in 1 .. Len(list) /\ j < i
      BY <1>1
    <2>2. list[j].start < list[i].start /\ list[j].start \in Nat /\ list[i].start \in Nat
      BY <1>1, <2>1
    <2> QED BY <2>2 DEF StopsSearch
  <1> QED BY <1>1, <1>2 DEF Searched

LEMMA IntersectsIs ==
  ASSUME NEW list, IsSpace(list), NEW a \in Nat, NEW b \in Nat, NEW ignored
  PROVE  vma_intersects(list, a, b, ignored)
           <=> \E i \in 1 .. Len(list) : i # ignored /\ Meets(list[i], a, b)
  <1>1. DOMAIN list = 1 .. Len(list) /\ \A i \in 1 .. Len(list) : list[i].start \in Nat
    BY SpaceFacts
  <1>2. ASSUME NEW i \in 1 .. Len(list), Meets(list[i], a, b)
        PROVE  i \in Searched(list, b - 1, ignored)
    <2>1. list[i].start \in Nat /\ list[i].start < b
      BY <1>1, <1>2 DEF Meets
    <2>2. list[i].start <= b - 1 /\ b - 1 \in Int
      BY <2>1
    <2> QED BY <2>2, SearchReaches
  <1>3. Searched(list, b - 1, ignored) \subseteq 1 .. Len(list)
    BY <1>1 DEF Searched
  <1> QED BY <1>2, <1>3 DEF vma_intersects

Covers(v, page) == v.start <= page /\ page < v.end

LEMMA RightsAre ==
  ASSUME NEW list, NEW page
  PROVE  RightsAt(list, page) = {v.flags : v \in {w \in Elements(list) : Covers(w, page)}}
  BY DEF RightsAt, Elements, Covers

LEMMA FindIs ==
  ASSUME NEW list, IsSpace(list), NEW page \in Nat
  PROVE  LET v == vma_find(list, page) IN
         RightsAt(list, page) = IF v = NoArea THEN {} ELSE {v.flags}
  <1> DEFINE hits == {i \in Searched(list, page, 0) : list[i].start <= page /\ page < list[i].end}
             v == vma_find(list, page)
  <1>1. /\ DOMAIN list = 1 .. Len(list) /\ Len(list) \in Nat
        /\ \A i \in 1 .. Len(list) : list[i].start \in Nat /\ list[i].end \in Nat
        /\ \A i, j \in 1 .. Len(list) : i < j => list[i].end <= list[j].start
    BY SpaceFacts
  <1>2. hits = {i \in 1 .. Len(list) : list[i].start <= page /\ page < list[i].end}
    <2>1. Searched(list, page, 0) \subseteq 1 .. Len(list)
      BY <1>1 DEF Searched
    <2>2. ASSUME NEW i \in 1 .. Len(list), list[i].start <= page
          PROVE  i \in Searched(list, page, 0)
      BY <2>2, SearchReaches
    <2> QED BY <2>1, <2>2
  <1>3. v = IF hits = {} THEN NoArea ELSE list[CHOOSE i \in hits : \A j \in hits : i <= j]
    BY DEF vma_find
  <1>4. RightsAt(list, page) = {list[i].flags : i \in hits}
    BY <1>1, <1>2 DEF RightsAt
  <1>5. CASE hits = {}
    BY <1>3, <1>4, <1>5
  <1>6. CASE hits # {}
    <2>1. PICK i \in hits : TRUE
      BY <1>6
    <2>2. i \in 1 .. Len(list) /\ list[i].start <= page /\ page < list[i].end
      BY <1>2, <2>1
    <2>3. ASSUME NEW j \in hits PROVE j = i
      <3>1. j \in 1 .. Len(list) /\ list[j].start <= page /\ page < list[j].end
        BY <1>2, <2>3
      <3>2. ~(i < j) /\ ~(j < i)
        BY <1>1, <2>2, <3>1
      <3> QED BY <2>2, <3>1, <3>2
    <2>4. hits = {i}
      BY <2>1, <2>3
    <2>5. (CHOOSE k \in hits : \A j \in hits : k <= j) = i
      <3>1. i <= i
        BY <2>2
      <3> QED BY <2>4, <3>1
    <2>6. v = list[i]
      BY <1>3, <1>6, <2>5
    <2>7. list[i] # NoArea
      <3>1. list[i].end > 0
        BY <1>1, <2>2
      <3> QED BY <3>1 DEF NoArea
    <2>8. RightsAt(list, page) = {v.flags}
      BY <1>4, <2>4, <2>6
    <2> QED BY <2>6, <2>7, <2>8
  <1> QED BY <1>5, <1>6

(* Every area before the gap ends at its start or below.                   *)
LEMMA GapIs ==
  ASSUME NEW list, IsSpace(list), NEW i \in 1 .. Len(list) + 1
  PROVE  \E g \in Nat :
           /\ g = GapFrom(list, i) /\ g >= MmapStart /\ g % PageSize = 0
           /\ \A j \in 1 .. i - 1 : list[j].end <= g
           /\ g = MmapStart \/ \E j \in 1 .. i - 1 : list[j].end = g
  <1> DEFINE above == {j \in 1 .. i - 1 : list[j].end > MmapStart}
             n == Len(list)
  <1>1. /\ n \in Nat
        /\ \A j \in 1 .. n : /\ list[j].start \in Nat /\ list[j].end \in Nat
                             /\ list[j].start <= list[j].end /\ IsSound(list[j])
        /\ \A j, k \in 1 .. n : j < k => list[j].end <= list[k].start
    BY SpaceFacts
  <1>2. \A j \in 1 .. i - 1 : j \in 1 .. n
    BY <1>1
  <1>3. GapFrom(list, i) = IF above = {} THEN MmapStart
                           ELSE list[CHOOSE j \in above : \A k \in above : k <= j].end
    BY DEF GapFrom
  <1>4. CASE above = {}
    <2>1. ASSUME NEW j \in 1 .. i - 1 PROVE list[j].end <= MmapStart
      <3>1. list[j].end \in Nat /\ ~(list[j].end > MmapStart)
        BY <1>1, <1>2, <1>4
      <3> QED BY <3>1, Layout
    <2> QED BY <1>3, <1>4, <2>1, Layout
  <1>5. CASE above # {}
    <2> DEFINE N == {k \in Nat : \E j \in above : k = n - j}
    <2>1. PICK least \in N : \A k \in N : ~(k < least)
      <3>1. N \in SUBSET Nat
        OBVIOUS
      <3>2. N # {}
        <4>1. PICK j \in above : TRUE
          BY <1>5
        <4>2. n - j \in Nat
          BY <1>1, <1>2
        <4> QED BY <4>1, <4>2
      <3> HIDE DEF N
      <3> QED BY <3>1, <3>2, EachAdded!LeastExists
    <2>2. PICK m \in above : least = n - m
      BY <2>1
    <2>3. m \in 1 .. i - 1 /\ m \in 1 .. n /\ list[m].end > MmapStart
      BY <1>2, <2>2
    <2>4. ASSUME NEW j \in above PROVE j <= m
      <3>1. j \in 1 .. n
        BY <1>2
      <3>2. n - j \in N
        <4>1. n - j \in Nat
          <5> HIDE DEF n
          <5> QED BY <1>1, <3>1
        <4> QED BY <2>4, <4>1
      <3>3. ~(n - j < n - m)
        BY <2>1, <2>2, <3>2
      <3> QED BY <1>1, <2>3, <3>1, <3>3
    <2>5. (CHOOSE j \in above : \A k \in above : k <= j) = m
      <3>1. \A x \in above : (\A k \in above : k <= x) => x = m
        <4>1. ASSUME NEW x \in above, \A k \in above : k <= x PROVE x = m
          <5>1. x <= m /\ m <= x /\ x \in 1 .. n
            BY <1>2, <2>2, <2>4, <4>1
          <5> QED BY <2>3, <5>1
        <4> QED BY <4>1
      <3> HIDE DEF above
      <3> QED BY <2>2, <2>4, <3>1
    <2>6. GapFrom(list, i) = list[m].end
      BY <1>3, <1>5, <2>5
    <2>7. ASSUME NEW j \in 1 .. i - 1 PROVE list[j].end <= list[m].end
      <3>1. j \in 1 .. n /\ list[j].end \in Nat /\ list[m].end \in Nat /\ list[m].start <= list[m].end
            /\ list[m].start \in Nat
        BY <1>1, <1>2, <2>3
      <3> HIDE DEF n, above
      <3>2. CASE j < m
        <4>1. list[j].end <= list[m].start
          BY <1>1, <2>3, <3>1, <3>2
        <4>2. \A x, y, z \in Nat : x <= y /\ y <= z => x <= z
          OBVIOUS
        <4> QED BY <3>1, <4>1, <4>2
      <3>3. CASE j = m
        BY <3>1, <3>3
      <3>4. CASE j > m
        <4>1. j \notin above
          BY <2>3, <2>4, <3>1, <3>4
        <4>2. ~(list[j].end > MmapStart)
          BY <4>1 DEF above
        <4>3. \A x, y, z \in Nat : ~(x > y) /\ z > y => x <= z
          OBVIOUS
        <4>4. MmapStart \in Nat
          BY Layout
        <4> QED BY <2>3, <3>1, <4>2, <4>3, <4>4
      <3> QED BY <2>3, <3>1, <3>2, <3>3, <3>4
    <2>8. list[m].end \in Nat /\ list[m].end >= MmapStart /\ list[m].end % PageSize = 0
      <3>1. list[m].end \in Nat /\ IsSound(list[m])
        BY <1>1, <2>3
      <3> QED BY <2>3, <3>1, Layout DEF IsSound
    <2> QED BY <2>3, <2>6, <2>7, <2>8
  <1> QED BY <1>4, <1>5

Free(list, a, b) == \A i \in 1 .. Len(list) : ~Meets(list[i], a, b)

LEMMA FreeAreaIs ==
  ASSUME NEW list, IsSpace(list), NEW size \in Nat, size > 0
  PROVE  \E at \in Nat :
           /\ at = vma_find_free_area(list, size)
           /\ at # 0 => at >= MmapStart /\ at % PageSize = 0 /\ Free(list, at, at + size)
           /\ at = 0 => \A a \in Nat : MmapStart <= a /\ a + size <= MmapStart + MmapMax
                                         => ~Free(list, a, a + size)
  <1> DEFINE n == Len(list)
             gaps == {i \in 1 .. n : RoomBefore(list, i, size)}
  <1>1. /\ n \in Nat /\ DOMAIN list = 1 .. n
        /\ \A j \in 1 .. n : list[j].start \in Nat /\ list[j].end \in Nat /\ list[j].start <= list[j].end
        /\ \A j, k \in 1 .. n : j < k => list[j].start < list[k].start /\ list[j].end <= list[k].start
    BY SpaceFacts
  <1>2. vma_find_free_area(list, size) =
          IF gaps # {} THEN GapFrom(list, CHOOSE i \in gaps : \A j \in gaps : i <= j)
          ELSE IF GapFrom(list, n + 1) + size <= MmapStart + MmapMax THEN GapFrom(list, n + 1) ELSE 0
    BY <1>1 DEF vma_find_free_area
  <1>3. CASE gaps # {}
    <2>1. PICK m \in gaps : \A k \in gaps : ~(k < m)
      <3>1. gaps \in SUBSET Nat
        OBVIOUS
      <3> HIDE DEF gaps
      <3> QED BY <1>3, <3>1, EachAdded!LeastExists
    <2>2. m \in 1 .. n /\ RoomBefore(list, m, size)
      BY <2>1
    <2>3. (CHOOSE i \in gaps : \A j \in gaps : i <= j) = m
      <3>1. \A k \in gaps : k \in Nat /\ m <= k
        BY <2>1
      <3>2. \A x \in gaps : (\A j \in gaps : x <= j) => x = m
        BY <2>1, <3>1
      <3> HIDE DEF gaps
      <3> QED BY <2>1, <3>1, <3>2
    <2>4. m \in 1 .. n + 1
      BY <1>1, <2>2
    <2>5. PICK g \in Nat :
            /\ g = GapFrom(list, m) /\ g >= MmapStart /\ g % PageSize = 0
            /\ \A j \in 1 .. m - 1 : list[j].end <= g
      BY <2>4, GapIs
    <2>6. list[m].start > g /\ list[m].start - g >= size
      BY <2>2, <2>5 DEF RoomBefore
    <2>7. ASSUME NEW j \in 1 .. n PROVE ~Meets(list[j], g, g + size)
      <3>1. list[j].start \in Nat /\ list[j].end \in Nat /\ list[m].start \in Nat
        BY <1>1, <2>2
      <3>2. CASE j < m
        <4>1. list[j].end <= g
          BY <2>2, <2>5, <3>2
        <4> QED BY <3>1, <4>1 DEF Meets
      <3>3. CASE j >= m
        <4>1. list[m].start <= list[j].start
          BY <1>1, <2>2, <3>1, <3>3
        <4> QED BY <2>6, <3>1, <4>1 DEF Meets
      <3> QED BY <2>2, <3>2, <3>3
    <2>8. g = vma_find_free_area(list, size)
      BY <1>2, <1>3, <2>3, <2>5
    <2> QED BY <2>5, <2>7, <2>8, Layout DEF Free
  <1>4. CASE gaps = {}
    <2>1. n + 1 \in 1 .. n + 1 /\ (n + 1) - 1 = n
      BY <1>1
    <2>2. PICK g \in Nat :
            /\ g = GapFrom(list, n + 1) /\ g >= MmapStart /\ g % PageSize = 0
            /\ \A j \in 1 .. n : list[j].end <= g
            /\ g = MmapStart \/ \E j \in 1 .. n : list[j].end = g
      BY <2>1, GapIs
    <2>3. CASE g + size <= MmapStart + MmapMax
      <3>1. ASSUME NEW j \in 1 .. n PROVE ~Meets(list[j], g, g + size)
        <4>1. list[j].end \in Nat /\ list[j].end <= g
          BY <1>1, <2>2
        <4> QED BY <4>1 DEF Meets
      <3>2. g = vma_find_free_area(list, size)
        BY <1>2, <1>4, <2>2, <2>3
      <3> QED BY <2>2, <3>1, <3>2, Layout DEF Free
    <2>4. CASE ~(g + size <= MmapStart + MmapMax)
      <3>1. 0 = vma_find_free_area(list, size)
        BY <1>2, <1>4, <2>2, <2>4
      <3>2. ASSUME NEW a \in Nat, MmapStart <= a, a + size <= MmapStart + MmapMax,
                   Free(list, a, a + size)
            PROVE  FALSE
        <4> DEFINE later == {j \in 1 .. n : list[j].end > a}
        <4>1. later # {}
          <5>1. a < g /\ g # MmapStart
            BY <2>2, <2>4, <3>2, Layout
          <5>2. PICK j \in 1 .. n : list[j].end = g
            BY <2>2, <5>1
          <5> QED BY <5>1, <5>2
        <4>2. PICK m \in later : \A k \in later : ~(k < m)
          <5>1. later \in SUBSET Nat
            OBVIOUS
          <5> HIDE DEF later
          <5> QED BY <4>1, <5>1, EachAdded!LeastExists
        <4>3. m \in 1 .. n /\ m \in 1 .. n + 1 /\ list[m].end > a
          BY <1>1, <4>2
        <4>4. PICK f \in Nat :
                /\ f = GapFrom(list, m) /\ f >= MmapStart
                /\ f = MmapStart \/ \E j \in 1 .. m - 1 : list[j].end = f
          BY <4>3, GapIs
        <4>5. f <= a
          <5>1. CASE f = MmapStart
            BY <3>2, <5>1
          <5>2. CASE f # MmapStart
            <6>1. PICK j \in 1 .. m - 1 : list[j].end = f
              BY <4>4, <5>2
            <6>2. j \in 1 .. n /\ j < m
              BY <1>1, <4>3
            <6>3. ~(list[j].end > a)
              BY <4>2, <6>2
            <6> QED BY <3>2, <4>4, <6>1, <6>3
          <5> QED BY <5>1, <5>2
        <4>6. list[m].start \in Nat /\ list[m].end \in Nat /\ list[m].start >= a + size
          <5>1. list[m].start \in Nat /\ list[m].end \in Nat /\ ~Meets(list[m], a, a + size)
            BY <1>1, <3>2, <4>3 DEF Free
          <5> QED BY <3>2, <4>3, <5>1 DEF Meets
        <4>7. /\ list[m].end > MmapStart /\ list[m].start > f /\ list[m].start - f >= size
          <5>1. PICK s \in Nat : s = list[m].start /\ s >= a + size
            BY <4>6
          <5>2. PICK e \in Nat : e = list[m].end /\ e > a
            BY <4>3, <4>6
          <5>3. s > f /\ s - f >= size
            BY <4>5, <5>1
          <5>4. e > MmapStart
            BY <3>2, <5>2, Layout
          <5> QED BY <5>1, <5>2, <5>3, <5>4
        <4>8. m \in gaps
          BY <4>3, <4>4, <4>7 DEF RoomBefore
        <4> QED BY <1>4, <4>8
      <3>3. \A a \in Nat : MmapStart <= a /\ a + size <= MmapStart + MmapMax => ~Free(list, a, a + size)
        BY <3>2
      <3> QED BY <3>1, <3>3
    <2> QED BY <2>3, <2>4
  <1> QED BY <1>3, <1>4

LEMMA InvIsExact == AreasInv => LookupsAreExact /\ VTypeOK /\ AreasInOrder
  <1> SUFFICES ASSUME AreasInv PROVE LookupsAreExact /\ VTypeOK /\ AreasInOrder
    OBVIOUS
  <1>1. IsSpace(areas)
    BY DEF AreasInv
  <1>2. /\ areas \in Seq(Segment) /\ DOMAIN areas = 1 .. Len(areas)
        /\ \A i \in 1 .. Len(areas) :
             /\ areas[i].start \in Nat /\ areas[i].end \in Nat /\ areas[i].start <= areas[i].end
             /\ areas[i].start % PageSize = 0
        /\ \A i, j \in 1 .. Len(areas) :
             i < j => areas[i].start < areas[j].start /\ areas[i].end <= areas[j].start
    BY <1>1, SpaceFacts
  <1>3. AreasInOrder
    <2>1. \A i, j \in 1 .. Len(areas) : i < j => areas[i].start <= areas[j].start
      BY <1>2
    <2> QED BY <1>2, <2>1 DEF AreasInOrder, InOrder
  <1>4. \A page \in UserPage : page \in Nat /\ page > 0
    BY Layout DEF UserPage, PageSize
  <1>5. \A b \in Bound : b \in Nat /\ b > 0
    BY <1>4, Layout DEF Bound
  <1>6. ASSUME NEW page \in UserPage
        PROVE  LET v == vma_find(areas, page) IN
               RightsAt(areas, page) = IF v = NoArea THEN {} ELSE {v.flags}
    BY <1>1, <1>4, FindIs
  <1>7. \A a, b : Occupied(a, b) <=> ~Free(areas, a, b)
    BY <1>2 DEF Occupied, Free
  <1>8. ASSUME NEW r \in Ranges
        PROVE  vma_intersects(areas, r[1], r[2], 0) <=> Occupied(r[1], r[2])
    <2>1. PICK a \in Nat : a = r[1]
      BY <1>4 DEF Ranges
    <2>2. PICK b \in Nat : b = r[2]
      BY <1>5 DEF Ranges
    <2>3. vma_intersects(areas, a, b, 0) <=> \E i \in 1 .. Len(areas) : i # 0 /\ Meets(areas[i], a, b)
      BY <1>1, IntersectsIs
    <2> QED BY <1>2, <2>1, <2>2, <2>3 DEF Occupied
  <1>9. ASSUME NEW size \in UserPage
        PROVE  LET at == vma_find_free_area(areas, size) IN
               IF at = 0 THEN \A a \in Bound : MmapStart <= a /\ a + size <= MmapStart + MmapMax
                                                 => Occupied(a, a + size)
               ELSE at >= MmapStart /\ ~Occupied(at, at + size)
    <2>1. size \in Nat /\ size > 0
      BY <1>4
    <2>2. PICK at \in Nat :
            /\ at = vma_find_free_area(areas, size)
            /\ at # 0 => at >= MmapStart /\ at % PageSize = 0 /\ Free(areas, at, at + size)
            /\ at = 0 => \A a \in Nat : MmapStart <= a /\ a + size <= MmapStart + MmapMax
                                          => ~Free(areas, a, a + size)
      BY <1>1, <2>1, FreeAreaIs
    <2>3. at = 0 => \A a \in Bound : MmapStart <= a /\ a + size <= MmapStart + MmapMax
                                       => Occupied(a, a + size)
      BY <1>5, <1>7, <2>2
    <2>4. at # 0 => at >= MmapStart /\ ~Occupied(at, at + size)
      BY <1>7, <2>2
    <2> QED BY <2>2, <2>3, <2>4
  <1>10. LookupsAreExact
    BY <1>6, <1>8, <1>9 DEF LookupsAreExact
  <1> QED BY <1>2, <1>3, <1>10 DEF VTypeOK

-----------------------------------------------------------------------------
(* The calls.                                                              *)
LEMMA AddKeeps ==
  ASSUME NEW list, IsSpace(list), NEW v \in Segment, v.start <= v.end, IsSound(OnPages(v)),
         \A w \in Elements(list) : Apart(w, OnPages(v))
  PROVE  IsSpace(AddArea(list, v))
  <1>1. Holds(list, Elements(list)) /\ \A w \in Elements(list) : IsSound(w)
    BY DEF IsSpace, Holds
  <1>2. Holds(AddArea(list, v), Elements(list) \cup {OnPages(v)})
    BY <1>1, OneMore
  <1> HIDE DEF OnPages
  <1>3. \A w \in Elements(list) \cup {OnPages(v)} : IsSound(w)
    BY <1>1
  <1> QED BY <1>2, <1>3, SpaceIs

(* Nothing in the range, and no area that starts where it does: room.      *)
LEMMA FreeIsRoom ==
  ASSUME NEW list, IsSpace(list), NEW v \in Segment, v.start <= v.end,
         Free(list, v.start, v.end), \A i \in 1 .. Len(list) : list[i].start # v.start
  PROVE  \A w \in Elements(list) : Apart(w, v)
  <1>1. DOMAIN list = 1 .. Len(list) /\ v.start \in Nat /\ v.end \in Nat
    BY SpaceFacts, SegmentIs
  <1>2. ASSUME NEW i \in 1 .. Len(list) PROVE Apart(list[i], v)
    <2>1. PICK w \in Segment : w = list[i] /\ w.start \in Nat /\ w.end \in Nat /\ w.start <= w.end
      BY SpaceFacts
    <2>2. ~Meets(w, v.start, v.end) /\ w.start # v.start
      BY <2>1 DEF Free
    <2>3. Apart(w, v)
      BY <1>1, <2>1, <2>2 DEF Meets, Apart, Before
    <2> QED BY <2>1, <2>3
  <1> QED BY <1>1, <1>2 DEF Elements

LEMMA MapKeeps ==
  ASSUME LeavesHeapAlone = TRUE, AreasInv,
         NEW flags \in Prot, NEW size \in UserPage, NEW addr \in UserPage \cup {0},
         MapArea(addr, size, flags)
  PROVE  AreasInv'
  <1>1. IsSpace(areas)
    BY DEF AreasInv
  <1>2. size \in Nat /\ size > 0 /\ size % PageSize = 0 /\ addr \in Nat /\ addr % PageSize = 0
    BY Layout DEF UserPage, PageSize
  <1>3. PICK at \in Nat : /\ at = (IF addr = 0 THEN vma_find_free_area(areas, size) ELSE addr)
                          /\ at % PageSize = 0 /\ at # 0 /\ at # HeapStart
                          /\ Free(areas, at, at + size) /\ at + size <= KernelStart
                          /\ areas' = Added(areas, at, at + size, flags)
    <2>1. CASE addr = 0
      <3>1. PICK at \in Nat :
            /\ at = vma_find_free_area(areas, size)
            /\ at # 0 => at >= MmapStart /\ at % PageSize = 0 /\ Free(areas, at, at + size)
        BY <1>1, <1>2, FreeAreaIs
      <3> QED BY <2>1, <3>1 DEF MapArea, UserRange
    <2>2. CASE addr # 0
      <3>1. ~vma_intersects(areas, addr, addr + size, 0)
            /\ addr + size <= KernelStart /\ addr # HeapStart
            /\ areas' = Added(areas, addr, addr + size, flags)
        BY <2>2 DEF MapArea, UserRange
      <3>2. PICK b \in Nat : b = addr + size
        BY <1>2
      <3>3. vma_intersects(areas, addr, b, 0) <=> \E i \in 1 .. Len(areas) : i # 0 /\ Meets(areas[i], addr, b)
        BY <1>1, <1>2, IntersectsIs
      <3>4. Free(areas, addr, b)
        BY <3>1, <3>2, <3>3 DEF Free
      <3> QED BY <1>2, <2>2, <3>1, <3>2, <3>4
    <2> QED BY <2>1, <2>2
  <1>4. PICK end \in Nat : end = at + size /\ at < end /\ end <= KernelStart /\ end % PageSize = 0
    <2>1. at + size \in Nat /\ at < at + size /\ (at + size) % 2 = 0
      BY <1>2, <1>3 DEF PageSize
    <2> QED BY <1>3, <2>1 DEF PageSize
  <1> DEFINE v == [start |-> at, end |-> end, flags |-> flags]
  <1>5. v \in Segment /\ v.start <= v.end /\ v.start = at /\ v.end = end /\ v.flags = flags /\ v.start < v.end
    BY <1>4, Layout DEF Segment
  <1>6. OnPages(v) = v
    BY <1>3, <1>4, <1>5, Rounding DEF OnPages, Rounded
  <1>7. Free(areas, v.start, v.end)
    BY <1>3, <1>4, <1>5
  <1>8. \A i \in 1 .. Len(areas) : areas[i].start # v.start
    <2>1. ASSUME NEW i \in 1 .. Len(areas), areas[i].start = at PROVE FALSE
      <3>1. PICK w \in Segment : w = areas[i] /\ w.start \in Nat /\ w.end \in Nat /\ w.start <= w.end
                                 /\ IsSound(w)
        BY <1>1, SpaceFacts
      <3>2. w.start # w.end
        BY <1>3, <2>1, <3>1 DEF IsSound
      <3>3. ~Meets(w, at, end)
        BY <1>3, <1>4, <3>1 DEF Free
      <3> QED BY <1>3, <1>4, <2>1, <3>1, <3>2, <3>3 DEF Meets
    <2> QED BY <1>5, <2>1
  <1>9. areas' = AddArea(areas, v)
    BY <1>3, <1>4, <1>5 DEF AddArea
  <1> HIDE DEF v
  <1>10. IsSound(OnPages(v))
    BY <1>5, OnPagesIs
  <1>11. \A w \in Elements(areas) : Apart(w, OnPages(v))
    BY <1>1, <1>5, <1>6, <1>7, <1>8, FreeIsRoom
  <1>12. IsSpace(AddArea(areas, v))
    BY <1>1, <1>5, <1>10, <1>11, AddKeeps
  <1> QED BY <1>9, <1>12 DEF AreasInv

LEMMA CreateKeeps ==
  ASSUME LeavesHeapAlone = TRUE, AreasInv, NEW new \in Nat,
         HeapStart <= new, new <= HeapStart + HeapMax, BrkCreate(new)
  PROVE  AreasInv'
  <1>1. IsSpace(areas) /\ DOMAIN areas = 1 .. Len(areas)
    BY SpaceFacts DEF AreasInv
  <1>2. /\ \A i \in 1 .. Len(areas) : areas[i].start # HeapStart
        /\ ~vma_intersects(areas, HeapStart, AlignUp(new), 0)
        /\ areas' = Added(areas, HeapStart, new, RW)
    BY <1>1 DEF BrkCreate, Heaps
  <1>3. PICK end \in Nat : end = AlignUp(new) /\ end % PageSize = 0 /\ HeapStart <= end
                           /\ end <= KernelStart
    <2>1. AlignUp(new) \in Nat /\ AlignUp(new) % PageSize = 0 /\ AlignUp(new) >= new
      BY Rounding
    <2>2. new <= KernelStart
      BY Layout
    <2>3. AlignUp(new) <= KernelStart
      BY <2>2, Layout, Rounding
    <2> QED BY <2>1, <2>3, Layout
  <1> DEFINE v == [start |-> HeapStart, end |-> end, flags |-> RW]
             old == [start |-> HeapStart, end |-> new, flags |-> RW]
  <1>4. v \in Segment /\ v.start <= v.end /\ v.start = HeapStart /\ v.end = end
    BY <1>3, Layout DEF Segment
  <1>5. old \in Segment /\ old.start <= old.end
    BY Layout DEF Segment
  <1>6. OnPages(old) = v
    BY <1>3, Layout, Rounding DEF OnPages, Rounded
  <1>7. IsSound(v)
    BY <1>3, <1>4 DEF IsSound
  <1>8. Free(areas, v.start, v.end)
    <2>1. vma_intersects(areas, HeapStart, end, 0)
            <=> \E i \in 1 .. Len(areas) : i # 0 /\ Meets(areas[i], HeapStart, end)
      BY <1>1, Layout, IntersectsIs
    <2> QED BY <1>2, <1>3, <1>4, <2>1 DEF Free
  <1>9. areas' = AddArea(areas, old)
    BY <1>2 DEF AddArea
  <1> HIDE DEF v, old
  <1>10. \A w \in Elements(areas) : Apart(w, v)
    BY <1>1, <1>2, <1>4, <1>8, FreeIsRoom
  <1>11. IsSpace(AddArea(areas, old))
    BY <1>1, <1>5, <1>6, <1>7, <1>10, AddKeeps
  <1> QED BY <1>9, <1>11 DEF AreasInv

(* The break moves within the page that the heap ends in, or over others   *)
(* that nothing else is in.                                                *)
LEMMA MoveKeeps ==
  ASSUME AreasInv, NEW new \in Nat, HeapStart <= new, new <= HeapStart + HeapMax, BrkMove(new)
  PROVE  AreasInv'
  <1> DEFINE n == Len(areas)
             h == HeapArea
  <1>1. /\ IsSpace(areas) /\ areas \in Seq(Segment) /\ n \in Nat /\ DOMAIN areas = 1 .. n
        /\ \A i \in 1 .. n :
             /\ areas[i] \in Segment /\ IsSound(areas[i])
             /\ areas[i].start \in Nat /\ areas[i].end \in Nat /\ areas[i].start <= areas[i].end
             /\ areas[i].start % PageSize = 0
        /\ \A i, j \in 1 .. n :
             i < j => areas[i].start < areas[j].start /\ areas[i].end <= areas[j].start
    BY SpaceFacts DEF AreasInv
  <1>2. Heaps # {} /\ (new > areas[h].end => ~GrowthCollides(new))
        /\ areas' = [areas EXCEPT ![h].end = new]
    BY DEF BrkMove
  <1>3. h \in 1 .. n /\ areas[h].start = HeapStart
    <2>1. PICK m \in Heaps : \A k \in Heaps : ~(k < m)
      <3>1. Heaps \in SUBSET Nat
        BY <1>1 DEF Heaps
      <3> QED BY <1>2, <3>1, EachAdded!LeastExists
    <2>2. \A j \in Heaps : m <= j
      <3>1. Heaps \subseteq Nat
        BY <1>1 DEF Heaps
      <3> QED BY <2>1, <3>1
    <2>3. HeapArea \in Heaps
      BY <2>2 DEF HeapArea
    <2> QED BY <1>1, <2>3 DEF Heaps
  <1> HIDE DEF h
  <1> DEFINE v == [start |-> HeapStart, end |-> new, flags |-> areas[h].flags]
  <1>4. PICK old \in Segment : old = areas[h] /\ old.start = HeapStart /\ old.end \in Nat
    BY <1>1, <1>3
  <1>5. [areas[h] EXCEPT !.end = new] = v /\ v \in Segment /\ v.start = HeapStart /\ v.end = new
    <2>1. old.flags \in Prot \cup {RW, {"R", "X"}} /\ old = [start |-> old.start, end |-> old.end, flags |-> old.flags]
      BY <1>4, SegmentIs
    <2>2. new \in 0 .. KernelStart /\ HeapStart \in 0 .. KernelStart
      BY Layout
    <2> QED BY <1>4, <2>1, <2>2 DEF Segment
  <1>6. areas' = [areas EXCEPT ![h] = v]
    BY <1>2, <1>5
  <1> HIDE DEF v
  <1>7. areas' \in Seq(Segment) /\ Len(areas') = n /\ DOMAIN areas' = 1 .. n /\ areas'[h] = v
        /\ \A i \in 1 .. n : i # h => areas'[i] = areas[i]
    BY <1>1, <1>3, <1>5, <1>6
  <1>8. ASSUME NEW i \in 1 .. n, i < h PROVE areas[i].start < HeapStart /\ areas[i].end <= HeapStart
    BY <1>1, <1>3, <1>8
  <1>9. ASSUME NEW i \in 1 .. n, h < i PROVE HeapStart < areas[i].start /\ new <= areas[i].start
    <2>1. PICK w \in Segment : w = areas[i] /\ w.start \in Nat /\ w.end \in Nat /\ w.start <= w.end
                               /\ IsSound(w)
      BY <1>1
    <2>2. HeapStart < w.start /\ old.end <= w.start
      BY <1>1, <1>3, <1>4, <1>9, <2>1
    <2>3. w.start # w.end
      BY <2>1, <2>2, Layout DEF IsSound
    <2>4. CASE new > old.end
      <3>1. ~vma_intersects(areas, old.end, new, h)
        BY <1>2, <1>4, <2>4 DEF GrowthCollides, h
      <3>2. vma_intersects(areas, old.end, new, h)
              <=> \E k \in 1 .. Len(areas) : k # h /\ Meets(areas[k], old.end, new)
        BY <1>1, <1>4, IntersectsIs
      <3>3. ~Meets(w, old.end, new)
        BY <1>3, <1>9, <2>1, <3>1, <3>2
      <3> QED BY <1>4, <2>1, <2>2, <2>3, <3>3 DEF Meets
    <2>5. CASE ~(new > old.end)
      BY <1>4, <2>1, <2>2, <2>5
    <2> QED BY <2>4, <2>5
  <1>10. Sorted(areas')
    <2>1. ASSUME NEW i \in 1 .. n, NEW j \in 1 .. n, i < j
          PROVE  areas'[i].start < areas'[j].start /\ areas'[i].end <= areas'[j].start
      <3>1. CASE j = h
        BY <1>5, <1>7, <1>8, <2>1, <3>1
      <3>2. CASE i = h
        BY <1>5, <1>7, <1>9, <2>1, <3>2
      <3>3. CASE i # h /\ j # h
        BY <1>1, <1>7, <2>1, <3>3
      <3> QED BY <3>1, <3>2, <3>3
    <2>2. ASSUME NEW i \in 1 .. n PROVE areas'[i].start <= areas'[i].end /\ areas'[i].start % PageSize = 0
      <3>1. CASE i = h
        BY <1>5, <1>7, <3>1, Layout
      <3>2. CASE i # h
        BY <1>1, <1>7, <3>2
      <3> QED BY <3>1, <3>2
    <2> QED BY <1>7, <2>1, <2>2 DEF Sorted
  <1>11. ASSUME NEW i \in 1 .. n PROVE IsSound(areas'[i])
    <2>1. CASE i = h
      BY <1>5, <1>7, <2>1 DEF IsSound
    <2>2. CASE i # h
      BY <1>1, <1>7, <2>2
    <2> QED BY <2>1, <2>2
  <1>12. IsSpace(areas')
    <2> DEFINE next == areas'
    <2>1. next \in Seq(Segment) /\ Sorted(next) /\ DOMAIN next = 1 .. n
          /\ \A i \in 1 .. n : IsSound(next[i])
      BY <1>7, <1>10, <1>11
    <2> HIDE DEF next
    <2>2. IsSpace(next)
      BY <2>1 DEF IsSpace, Elements
    <2> QED BY <2>2 DEF next
  <1> QED BY <1>12 DEF AreasInv

-----------------------------------------------------------------------------
(* The walks of munmap and mprotect replace each area by the pieces that   *)
(* are left of it.                                                         *)
Join(s, t) == s \o t
Joins == INSTANCE FoldProofs WITH Op <- Join, Good <- IsSpace

LEMMA FlattenIs ==
  ASSUME NEW S, NEW seqs \in Seq(Seq(S))
  PROVE  \E h : /\ h[0] = << >> /\ FlattenSeq(seqs) = h[Len(seqs)]
                /\ \A j \in Nat : j < Len(seqs) => h[j + 1] = h[j] \o seqs[j + 1]
  <1> DEFINE n == Len(seqs)
             Flattens(g) == g = [i \in 1 .. n |-> IF i = 1 THEN seqs[i] ELSE g[i - 1] \o seqs[i]]
  <1>1. n \in Nat /\ \A i \in 1 .. n : seqs[i] \in Seq(S)
    OBVIOUS
  <1>2. CASE n = 0
    <2> DEFINE h == [j \in {0} |-> << >>]
    <2>1. FlattenSeq(seqs) = seqs /\ seqs = << >>
      BY <1>2 DEF FlattenSeq
    <2>2. h[0] = << >>
      OBVIOUS
    <2>3. FlattenSeq(seqs) = h[Len(seqs)]
      BY <1>2, <2>1, <2>2
    <2>4. \A j \in Nat : ~(j < Len(seqs))
      BY <1>2
    <2> HIDE DEF h
    <2> QED BY <2>2, <2>3, <2>4
  <1>3. CASE n # 0
    <2>1. FlattenSeq(seqs) = (CHOOSE g : Flattens(g))[n]
      BY <1>3 DEF FlattenSeq
    <2>2. \E g : Flattens(g)
      <3>1. PICK h : Joins!Passes(h, << >>, seqs)
        BY Joins!FoldedPasses
      <3>2. h[0] = << >> /\ \A j \in Nat : j < n => h[j + 1] = h[j] \o seqs[j + 1]
        BY <3>1 DEF Joins!Passes, Join
      <3> DEFINE g == [i \in 1 .. n |-> h[i]]
      <3>3. ASSUME NEW i \in 1 .. n
            PROVE  g[i] = IF i = 1 THEN seqs[i] ELSE g[i - 1] \o seqs[i]
        <4>1. CASE i = 1
          <5>1. 0 \in Nat /\ 0 < n /\ 0 + 1 = 1
            BY <1>1, <1>3
          <5>2. h[1] = << >> \o seqs[1]
            BY <3>2, <5>1
          <5>3. seqs[1] \in Seq(S)
            BY <1>1, <4>1
          <5> HIDE DEF n
          <5>4. << >> \o seqs[1] = seqs[1]
            BY <5>3
          <5> QED BY <4>1, <5>2, <5>4
        <4>2. CASE i # 1
          <5>1. i - 1 \in Nat /\ i - 1 < n /\ (i - 1) + 1 = i /\ i - 1 \in 1 .. n
            BY <1>1, <4>2
          <5>2. h[i] = h[i - 1] \o seqs[i]
            BY <3>2, <5>1
          <5> QED BY <4>2, <5>1, <5>2
        <4> QED BY <4>1, <4>2
      <3>4. g = [i \in 1 .. n |-> g[i]]
        OBVIOUS
      <3> HIDE DEF g
      <3>5. Flattens(g)
        BY <3>3, <3>4
      <3> QED BY <3>5
    <2> DEFINE f == CHOOSE g : Flattens(g)
    <2>3. Flattens(f)
      BY <2>2
    <2> HIDE DEF f
    <2> DEFINE h == [j \in 0 .. n |-> IF j = 0 THEN << >> ELSE f[j]]
    <2>4. h[0] = << >> /\ FlattenSeq(seqs) = h[n]
      BY <1>1, <1>3, <2>1 DEF f
    <2>5. ASSUME NEW j \in Nat, j < n PROVE h[j + 1] = h[j] \o seqs[j + 1]
      <3>1. j + 1 \in 1 .. n /\ j + 1 \in 0 .. n /\ j \in 0 .. n /\ j + 1 # 0 /\ (j + 1) - 1 = j
        BY <1>1, <2>5
      <3>2. f[j + 1] = IF j + 1 = 1 THEN seqs[j + 1] ELSE f[j] \o seqs[j + 1]
        BY <2>3, <3>1
      <3>3. CASE j = 0
        <4>1. h[1] = seqs[1] /\ h[0] = << >> /\ seqs[1] \in Seq(S)
          BY <1>1, <3>1, <3>2, <3>3
        <4>2. << >> \o seqs[1] = seqs[1]
          BY <4>1
        <4>3. j + 1 = 1
          BY <3>3
        <4> HIDE DEF h
        <4> QED BY <3>3, <4>1, <4>2, <4>3
      <3>4. CASE j # 0
        <4>1. j + 1 # 1
          BY <3>4
        <4> QED BY <3>1, <3>2, <3>4, <4>1
      <3> QED BY <3>3, <3>4
    <2> HIDE DEF h
    <2> QED BY <2>4, <2>5
  <1> QED BY <1>2, <1>3

LEMMA JoinIs ==
  ASSUME NEW s \in Seq(Segment), NEW t \in Seq(Segment)
  PROVE  /\ s \o t \in Seq(Segment) /\ Len(s \o t) = Len(s) + Len(t)
         /\ \A i \in 1 .. Len(s) : (s \o t)[i] = s[i]
         /\ \A i \in 1 .. Len(t) : (s \o t)[Len(s) + i] = t[i]
         /\ Elements(s \o t) = Elements(s) \cup Elements(t)
  <1> DEFINE m == Len(s)
             n == Len(t)
             u == s \o t
  <1>1. u \in Seq(Segment) /\ Len(u) = m + n /\ m \in Nat /\ n \in Nat
        /\ DOMAIN s = 1 .. m /\ DOMAIN t = 1 .. n /\ DOMAIN u = 1 .. m + n
    OBVIOUS
  <1>2. (\A i \in 1 .. m : u[i] = s[i]) /\ (\A i \in 1 .. n : u[m + i] = t[i])
    OBVIOUS
  <1> HIDE DEF m, n, u
  <1>3. ASSUME NEW i \in 1 .. m + n PROVE u[i] \in Elements(s) \cup Elements(t)
    <2>1. CASE i <= m
      <3>1. i \in 1 .. m
        BY <1>1, <2>1
      <3> QED BY <1>1, <1>2, <3>1 DEF Elements
    <2>2. CASE i > m
      <3>1. i - m \in 1 .. n /\ m + (i - m) = i
        BY <1>1, <2>2
      <3>2. u[i] = t[i - m]
        BY <1>2, <3>1
      <3> QED BY <1>1, <3>1, <3>2 DEF Elements
    <2> QED BY <1>1, <2>1, <2>2
  <1>4. ASSUME NEW i \in 1 .. m PROVE s[i] \in Elements(u)
    <2>1. i \in 1 .. m + n
      BY <1>1
    <2> QED BY <1>1, <1>2, <2>1 DEF Elements
  <1>5. ASSUME NEW i \in 1 .. n PROVE t[i] \in Elements(u)
    <2>1. m + i \in 1 .. m + n
      BY <1>1
    <2> QED BY <1>1, <1>2, <2>1 DEF Elements
  <1>6. Elements(u) = Elements(s) \cup Elements(t)
    <2>1. Elements(u) \subseteq Elements(s) \cup Elements(t)
      BY <1>1, <1>3 DEF Elements
    <2>2. Elements(s) \subseteq Elements(u) /\ Elements(t) \subseteq Elements(u)
      BY <1>1, <1>4, <1>5 DEF Elements
    <2> QED BY <2>1, <2>2
  <1> QED BY <1>1, <1>2, <1>6 DEF m, n, u

LEMMA JoinedSpaces ==
  ASSUME NEW s, NEW t, IsSpace(s), IsSpace(t),
         \A v \in Elements(s), w \in Elements(t) : Before(v, w)
  PROVE  IsSpace(s \o t) /\ Elements(s \o t) = Elements(s) \cup Elements(t)
  <1> DEFINE m == Len(s)
             n == Len(t)
             u == s \o t
  <1>1. s \in Seq(Segment) /\ t \in Seq(Segment)
    BY DEF IsSpace
  <1>2. /\ u \in Seq(Segment) /\ Len(u) = m + n
        /\ \A i \in 1 .. m : u[i] = s[i]
        /\ \A i \in 1 .. n : u[m + i] = t[i]
        /\ Elements(u) = Elements(s) \cup Elements(t)
    BY <1>1, JoinIs
  <1>3. m \in Nat /\ DOMAIN s = 1 .. m /\ \A i, j \in 1 .. m : i < j => Before(s[i], s[j])
    BY SpaceFacts DEF Before
  <1>4. n \in Nat /\ DOMAIN t = 1 .. n /\ \A i, j \in 1 .. n : i < j => Before(t[i], t[j])
    BY SpaceFacts DEF Before
  <1>5. DOMAIN u = 1 .. m + n
    BY <1>2
  <1>6. \A w \in Elements(u) : IsSound(w) /\ w.start <= w.end /\ w.start % PageSize = 0
    <2>1. \A w \in Elements(s) : IsSound(w) /\ w.start <= w.end /\ w.start % PageSize = 0
      BY DEF IsSpace, Sorted, Elements
    <2>2. \A w \in Elements(t) : IsSound(w) /\ w.start <= w.end /\ w.start % PageSize = 0
      BY DEF IsSpace, Sorted, Elements
    <2> QED BY <1>2, <2>1, <2>2
  <1> HIDE DEF m, n, u
  <1>7. ASSUME NEW i \in 1 .. m + n, NEW j \in 1 .. m + n, i < j PROVE Before(u[i], u[j])
    <2>1. CASE j <= m
      <3>1. i \in 1 .. m /\ j \in 1 .. m
        BY <1>3, <1>4, <1>7, <2>1
      <3> QED BY <1>2, <1>3, <1>7, <3>1
    <2>2. CASE i <= m /\ j > m
      <3>1. i \in 1 .. m /\ j - m \in 1 .. n /\ m + (j - m) = j
        BY <1>3, <1>4, <2>2
      <3>2. u[i] = s[i] /\ u[j] = t[j - m]
        BY <1>2, <3>1
      <3>3. s[i] \in Elements(s) /\ t[j - m] \in Elements(t)
        BY <1>3, <1>4, <3>1 DEF Elements
      <3> QED BY <3>2, <3>3
    <2>3. CASE i > m
      <3>1. i - m \in 1 .. n /\ j - m \in 1 .. n /\ m + (j - m) = j /\ m + (i - m) = i /\ i - m < j - m
        BY <1>3, <1>4, <1>7, <2>3
      <3>2. u[i] = t[i - m] /\ u[j] = t[j - m]
        BY <1>2, <3>1
      <3> QED BY <1>4, <3>1, <3>2
    <2> QED BY <1>3, <1>4, <2>1, <2>2, <2>3
  <1>8. Sorted(u)
    BY <1>5, <1>6, <1>7 DEF Sorted, Before, Elements
  <1>9. IsSpace(u)
    BY <1>2, <1>6, <1>8 DEF IsSpace
  <1> QED BY <1>2, <1>9 DEF u

(* What is left of an area lies in it.                                     *)
Inside(w, v) == v.start <= w.start /\ w.end <= v.end /\ (w.start = v.start \/ w.start < v.end)
LeftOf(v, piece) == IsSpace(piece) /\ \A w \in Elements(piece) : Inside(w, v)
Pieces(seqs, k) == UNION {Elements(seqs[i]) : i \in 1 .. k}

(* Pieces of two areas of a list are apart as the areas are.               *)
LEMMA InsideIsBefore ==
  ASSUME NEW v \in Segment, NEW w \in Segment, NEW x \in Segment, NEW y \in Segment,
         Inside(x, v), Inside(y, w), v.start < w.start, v.end <= w.start
  PROVE  Before(x, y)
  <1>1. /\ v.start \in Nat /\ v.end \in Nat /\ w.start \in Nat
        /\ x.start \in Nat /\ x.end \in Nat /\ y.start \in Nat
    BY SegmentIs
  <1> QED BY <1>1 DEF Inside, Before

LEMMA PiecesAre ==
  ASSUME NEW list, IsSpace(list), NEW seqs \in Seq(Seq(Segment)), Len(seqs) = Len(list),
         \A i \in 1 .. Len(list) : LeftOf(list[i], seqs[i])
  PROVE  IsSpace(FlattenSeq(seqs)) /\ Elements(FlattenSeq(seqs)) = Pieces(seqs, Len(list))
  <1> DEFINE n == Len(list)
  <1>1. /\ n \in Nat
        /\ \A i \in 1 .. n : list[i] \in Segment
        /\ \A i, j \in 1 .. n : i < j => list[i].start < list[j].start /\ list[i].end <= list[j].start
    BY SpaceFacts
  <1>2. PICK h : /\ h[0] = << >> /\ FlattenSeq(seqs) = h[n]
                 /\ \A j \in Nat : j < n => h[j + 1] = h[j] \o seqs[j + 1]
    BY FlattenIs
  <1> DEFINE Fine(k) == IsSpace(h[k]) /\ Elements(h[k]) = Pieces(seqs, k)
             bad == {k \in Nat : k <= n /\ ~Fine(k)}
  <1> HIDE DEF n
  <1>3. bad = {}
    <2>1. SUFFICES ASSUME bad # {} PROVE FALSE
      OBVIOUS
    <2>2. PICK m \in bad : \A k \in bad : ~(k < m)
      <3>1. bad \in SUBSET Nat
        OBVIOUS
      <3> HIDE DEF bad
      <3> QED BY <2>1, <3>1, EachAdded!LeastExists
    <2>3. m \in Nat /\ m <= n /\ ~Fine(m) /\ \A k \in bad : ~(k < m)
      BY <2>2
    <2>4. m # 0
      <3>1. Pieces(seqs, 0) = {}
        BY DEF Pieces
      <3>2. IsSpace(<< >>) /\ Elements(<< >>) = {}
        <4>1. Holds(<< >>, {}) /\ \A w \in {} : IsSound(w)
          BY NothingHeld
        <4> QED BY <4>1, SpaceIs DEF Holds
      <3> QED BY <1>2, <2>3, <3>1, <3>2
    <2>5. PICK k \in Nat : k + 1 = m
      <3>1. m - 1 \in Nat /\ (m - 1) + 1 = m
        BY <2>3, <2>4
      <3> QED BY <3>1
    <2>6. k < n /\ k <= n /\ k + 1 \in 1 .. n
      BY <1>1, <2>3, <2>5
    <2>7. IsSpace(h[k]) /\ Elements(h[k]) = Pieces(seqs, k)
      BY <2>3, <2>5, <2>6
    <2>8. h[m] = h[k] \o seqs[k + 1]
      BY <1>2, <2>5, <2>6
    <2>9. Pieces(seqs, m) = Pieces(seqs, k) \cup Elements(seqs[k + 1])
      <3>1. 1 .. m = (1 .. k) \cup {k + 1}
        BY <2>5
      <3> QED BY <3>1 DEF Pieces
    <2>10. LeftOf(list[k + 1], seqs[k + 1])
      BY <2>6 DEF n
    <2>11. ASSUME NEW x \in Elements(h[k]), NEW y \in Elements(seqs[k + 1])
           PROVE  Before(x, y)
      <3>1. PICK i \in 1 .. k : x \in Elements(seqs[i])
        BY <2>7, <2>11 DEF Pieces
      <3>2. i \in 1 .. n /\ i < k + 1
        BY <1>1, <2>6
      <3>3. LeftOf(list[i], seqs[i])
        BY <3>2 DEF n
      <3>4. x \in Segment /\ y \in Segment /\ Inside(x, list[i]) /\ Inside(y, list[k + 1])
        BY <2>10, <2>11, <3>1, <3>3 DEF LeftOf, IsSpace, IsSound
      <3>5. /\ list[i] \in Segment /\ list[k + 1] \in Segment
            /\ list[i].start < list[k + 1].start /\ list[i].end <= list[k + 1].start
        BY <1>1, <2>6, <3>2
      <3> QED BY <3>4, <3>5, InsideIsBefore
    <2>12. IsSpace(h[k] \o seqs[k + 1])
           /\ Elements(h[k] \o seqs[k + 1]) = Elements(h[k]) \cup Elements(seqs[k + 1])
      BY <2>7, <2>10, <2>11, JoinedSpaces DEF LeftOf
    <2> QED BY <2>3, <2>7, <2>8, <2>9, <2>12
  <1>4. n \in Nat /\ n <= n
    BY <1>1
  <1>5. Fine(n)
    BY <1>3, <1>4
  <1> QED BY <1>2, <1>5 DEF n

(* A page has the rights that the pieces of the area that covers it have.  *)
AreRights(list, seqs, page) ==
  \/ RightsAt(list, page) = {} /\ RightsAt(FlattenSeq(seqs), page) = {}
  \/ \E i \in 1 .. Len(list) :
       /\ Covers(list[i], page)
       /\ RightsAt(list, page) = {list[i].flags}
       /\ RightsAt(FlattenSeq(seqs), page) = RightsAt(seqs[i], page)

LEMMA PieceRights ==
  ASSUME NEW list, IsSpace(list), NEW seqs \in Seq(Seq(Segment)), Len(seqs) = Len(list),
         \A i \in 1 .. Len(list) : LeftOf(list[i], seqs[i]), NEW page \in Nat
  PROVE  AreRights(list, seqs, page)
  <1> DEFINE flat == FlattenSeq(seqs)
             n == Len(list)
  <1>1. /\ n \in Nat /\ DOMAIN list = 1 .. n
        /\ \A i \in 1 .. n : list[i].start \in Nat /\ list[i].end \in Nat /\ list[i] \in Segment
        /\ \A i, j \in 1 .. n : i < j => list[i].start < list[j].start /\ list[i].end <= list[j].start
    BY SpaceFacts
  <1>2. Elements(flat) = Pieces(seqs, n)
    BY PiecesAre
  <1>3. ASSUME NEW i \in 1 .. n, NEW w \in Elements(seqs[i]), Covers(w, page)
        PROVE  Covers(list[i], page)
    <2>1. w \in Segment /\ Inside(w, list[i])
      BY DEF LeftOf, IsSpace, IsSound
    <2>2. w.start \in Nat /\ w.end \in Nat
      BY <2>1, SegmentIs
    <2> QED BY <1>1, <1>3, <2>1, <2>2 DEF Inside, Covers
  <1> HIDE DEF flat, n
  <1>4. CASE \A i \in 1 .. n : ~Covers(list[i], page)
    <2>1. RightsAt(list, page) = {}
      BY <1>1, <1>4 DEF RightsAt, Covers
    <2>2. \A w \in Elements(flat) : ~Covers(w, page)
      BY <1>2, <1>3, <1>4 DEF Pieces
    <2>3. RightsAt(flat, page) = {}
      BY <2>2, RightsAre
    <2> QED BY <2>1, <2>3 DEF flat, AreRights
  <1>5. CASE \E i \in 1 .. n : Covers(list[i], page)
    <2>1. PICK i \in 1 .. n : Covers(list[i], page)
      BY <1>5
    <2>2. ASSUME NEW j \in 1 .. n, Covers(list[j], page) PROVE j = i
      <3>1. /\ list[i].start <= page /\ page < list[i].end /\ list[i].start \in Nat /\ list[i].end \in Nat
            /\ list[j].start <= page /\ page < list[j].end /\ list[j].start \in Nat /\ list[j].end \in Nat
        BY <1>1, <2>1, <2>2 DEF Covers
      <3>2. ~(list[i].end <= list[j].start) /\ ~(list[j].end <= list[i].start)
        <4>1. \A x, y, p \in Nat : x <= p /\ p < y => ~(y <= x)
          OBVIOUS
        <4> QED BY <3>1, <4>1
      <3>3. ~(i < j) /\ ~(j < i)
        BY <1>1, <2>1, <2>2, <3>2
      <3> QED BY <2>1, <3>3
    <2>3. RightsAt(list, page) = {list[i].flags}
      BY <1>1, <2>1, <2>2 DEF RightsAt, Covers
    <2>4. {w \in Elements(flat) : Covers(w, page)} = {w \in Elements(seqs[i]) : Covers(w, page)}
      <3>1. ASSUME NEW w \in Elements(flat), Covers(w, page) PROVE w \in Elements(seqs[i])
        <4>1. PICK j \in 1 .. n : w \in Elements(seqs[j])
          BY <1>2, <3>1 DEF Pieces
        <4> QED BY <1>3, <2>2, <3>1, <4>1
      <3>2. Elements(seqs[i]) \subseteq Elements(flat)
        BY <1>2, <2>1 DEF Pieces
      <3> QED BY <3>1, <3>2
    <2>5. RightsAt(flat, page) = RightsAt(seqs[i], page)
      BY <2>4, RightsAre
    <2> QED BY <2>1, <2>3, <2>5 DEF flat, n, AreRights
  <1> QED BY <1>4, <1>5

-----------------------------------------------------------------------------
(* The pieces of one area.                                                 *)
IsArea(v) == v \in Segment /\ IsSound(v) /\ v.start <= v.end /\ v.start % PageSize = 0

LEMMA OneArea ==
  ASSUME NEW v, IsArea(v)
  PROVE  IsSpace(<<v>>) /\ <<v>> \in Seq(Segment) /\ Elements(<<v>>) = {v}
  <1> DEFINE s == <<v>>
  <1>1. s \in Seq(Segment) /\ DOMAIN s = {1} /\ s[1] = v
    BY DEF IsArea
  <1> HIDE DEF s
  <1>2. Elements(s) = {v}
    BY <1>1 DEF Elements
  <1>3. Sorted(s)
    BY <1>1 DEF Sorted, IsArea
  <1>4. IsSpace(s)
    BY <1>1, <1>2, <1>3 DEF IsSpace, IsArea
  <1> QED BY <1>1, <1>2, <1>4 DEF s

Bounds(a, b, flags) ==
  /\ a \in Nat /\ a % PageSize = 0 /\ b \in Nat /\ b <= KernelStart
  /\ b % PageSize = 0 \/ b <= HeapStart + HeapMax
  /\ flags \in Prot \cup {RW, {"R", "X"}}

IsPiece(s, a, b, flags) ==
  /\ IsSpace(s) /\ s \in Seq(Segment)
  /\ \A w \in Elements(s) : w \in Segment /\ w.start = a /\ w.end = b /\ w.start < w.end
  /\ \A page \in Nat : RightsAt(s, page) = IF a <= page /\ page < b THEN {flags} ELSE {}

LEMMA PieceIs ==
  ASSUME NEW a, NEW b, NEW flags, Bounds(a, b, flags)
  PROVE  IsPiece(Piece(a, b, flags), a, b, flags)
  <1> DEFINE v == [start |-> a, end |-> b, flags |-> flags]
  <1>1. /\ a \in Nat /\ a % PageSize = 0 /\ b \in Nat /\ b <= KernelStart
        /\ b % PageSize = 0 \/ b <= HeapStart + HeapMax
        /\ flags \in Prot \cup {RW, {"R", "X"}}
    BY DEF Bounds
  <1>2. CASE a < b
    <2>1. v \in Segment /\ v.start = a /\ v.end = b /\ v.flags = flags
      BY <1>1, <1>2, Layout DEF Segment
    <2>2. IsArea(v) /\ v.start < v.end
      BY <1>1, <1>2, <2>1 DEF IsArea, IsSound
    <2>3. Piece(a, b, flags) = <<v>>
      BY <1>2 DEF Piece
    <2> HIDE DEF v
    <2>4. IsSpace(<<v>>) /\ <<v>> \in Seq(Segment) /\ Elements(<<v>>) = {v}
      BY <2>2, OneArea
    <2>5. ASSUME NEW page \in Nat PROVE RightsAt(<<v>>, page) = IF a <= page /\ page < b THEN {flags} ELSE {}
      <3>1. RightsAt(<<v>>, page) = {w.flags : w \in {x \in {v} : Covers(x, page)}}
        BY <2>4, RightsAre
      <3>2. Covers(v, page) <=> a <= page /\ page < b
        BY <2>1 DEF Covers
      <3>3. CASE a <= page /\ page < b
        <4>1. {x \in {v} : Covers(x, page)} = {v}
          BY <3>2, <3>3
        <4> QED BY <2>1, <3>1, <3>3, <4>1
      <3>4. CASE ~(a <= page /\ page < b)
        <4>1. {x \in {v} : Covers(x, page)} = {}
          BY <3>2, <3>4
        <4> QED BY <3>1, <3>4, <4>1
      <3> QED BY <3>3, <3>4
    <2> QED BY <2>1, <2>2, <2>3, <2>4, <2>5 DEF IsPiece
  <1>3. CASE ~(a < b)
    <2>1. Piece(a, b, flags) = << >>
      BY <1>3 DEF Piece
    <2>2. IsSpace(<< >>) /\ Elements(<< >>) = {} /\ << >> \in Seq(Segment)
      <3>1. Holds(<< >>, {}) /\ \A w \in {} : IsSound(w)
        BY NothingHeld
      <3> QED BY <3>1, SpaceIs DEF Holds
    <2>3. \A page : RightsAt(<< >>, page) = {}
      BY <2>2, RightsAre
    <2>4. ASSUME NEW page \in Nat, a <= page, page < b PROVE FALSE
      BY <1>1, <1>3, <2>4
    <2> QED BY <2>1, <2>2, <2>3, <2>4 DEF IsPiece
  <1> QED BY <1>2, <1>3

LEMMA AreaIs ==
  ASSUME NEW v, IsArea(v)
  PROVE  /\ v.start \in Nat /\ v.end \in Nat /\ v.start <= v.end /\ v.start % PageSize = 0
         /\ v.end <= KernelStart /\ v.flags \in Prot \cup {RW, {"R", "X"}}
         /\ v.end % PageSize = 0 \/ v.end <= HeapStart + HeapMax
         /\ v.start = v.end => v.start = HeapStart
         /\ LeftOf(v, <<v>>) /\ <<v>> \in Seq(Segment)
         /\ \A page \in Nat : Covers(v, page) => RightsAt(<<v>>, page) = {v.flags}
  <1>1. v.start \in Nat /\ v.end \in Nat
    BY SegmentIs DEF IsArea
  <1>2. IsSpace(<<v>>) /\ <<v>> \in Seq(Segment) /\ Elements(<<v>>) = {v}
    BY OneArea
  <1>3. LeftOf(v, <<v>>)
    BY <1>1, <1>2 DEF LeftOf, Inside, IsArea
  <1>4. ASSUME NEW page \in Nat, Covers(v, page) PROVE RightsAt(<<v>>, page) = {v.flags}
    <2>1. {x \in {v} : Covers(x, page)} = {v}
      BY <1>4
    <2> QED BY <1>2, <2>1, RightsAre
  <1> QED BY <1>1, <1>2, <1>3, <1>4, SegmentIs DEF IsArea, IsSound

LEMMA JoinRights ==
  ASSUME NEW s \in Seq(Segment), NEW t \in Seq(Segment), NEW page
  PROVE  RightsAt(s \o t, page) = RightsAt(s, page) \cup RightsAt(t, page)
  <1>1. Elements(s \o t) = Elements(s) \cup Elements(t)
    BY JoinIs
  <1>2. /\ RightsAt(s \o t, page) = {v.flags : v \in {w \in Elements(s) \cup Elements(t) : Covers(w, page)}}
        /\ RightsAt(s, page) = {v.flags : v \in {w \in Elements(s) : Covers(w, page)}}
        /\ RightsAt(t, page) = {v.flags : v \in {w \in Elements(t) : Covers(w, page)}}
    BY <1>1, RightsAre
  <1> QED BY <1>2

(* munmap leaves of an area what is outside its range.                     *)
LEMMA RestIs ==
  ASSUME NEW v, IsArea(v), NEW a \in Nat, NEW b \in Nat, a < b,
         a % PageSize = 0, b % PageSize = 0
  PROVE  /\ LeftOf(v, Rest(v, a, b)) /\ Rest(v, a, b) \in Seq(Segment)
         /\ \A page \in Nat : Covers(v, page) =>
              RightsAt(Rest(v, a, b), page) = IF a <= page /\ page < b THEN {} ELSE {v.flags}
  <1>1. /\ v.start \in Nat /\ v.end \in Nat /\ v.start <= v.end /\ v.start % PageSize = 0
        /\ v.end <= KernelStart /\ v.flags \in Prot \cup {RW, {"R", "X"}}
        /\ v.end % PageSize = 0 \/ v.end <= HeapStart + HeapMax
    BY AreaIs
  <1>2. CASE ~Meets(v, a, b)
    <2>1. Rest(v, a, b) = <<v>>
      BY <1>2 DEF Rest
    <2>2. ASSUME NEW page \in Nat, Covers(v, page) PROVE ~(a <= page /\ page < b)
      BY <1>1, <1>2, <2>2 DEF Meets, Covers
    <2> QED BY <2>1, <2>2, AreaIs
  <1>3. CASE Meets(v, a, b)
    <2> DEFINE s == Piece(v.start, a, v.flags)
               t == Piece(b, v.end, v.flags)
    <2>1. a < v.end /\ b > v.start /\ Rest(v, a, b) = s \o t
      BY <1>3 DEF Meets, Rest
    <2>2. Bounds(v.start, a, v.flags) /\ Bounds(b, v.end, v.flags)
      <3>1. a <= KernelStart
        BY <1>1, <2>1, Layout
      <3> QED BY <1>1, <3>1 DEF Bounds
    <2>3. /\ IsSpace(s) /\ s \in Seq(Segment)
          /\ \A w \in Elements(s) : w \in Segment /\ w.start = v.start /\ w.end = a /\ w.start < w.end
          /\ \A page \in Nat : RightsAt(s, page) = IF v.start <= page /\ page < a THEN {v.flags} ELSE {}
      BY <2>2, PieceIs DEF IsPiece
    <2>4. /\ IsSpace(t) /\ t \in Seq(Segment)
          /\ \A w \in Elements(t) : w \in Segment /\ w.start = b /\ w.end = v.end /\ w.start < w.end
          /\ \A page \in Nat : RightsAt(t, page) = IF b <= page /\ page < v.end THEN {v.flags} ELSE {}
      BY <2>2, PieceIs DEF IsPiece
    <2> HIDE DEF s, t
    <2>5. IsSpace(s \o t) /\ Elements(s \o t) = Elements(s) \cup Elements(t)
      <3>1. \A x \in Elements(s), y \in Elements(t) : Before(x, y)
        BY <1>1, <2>3, <2>4 DEF Before
      <3> QED BY <2>3, <2>4, <3>1, JoinedSpaces
    <2>6. \A w \in Elements(s \o t) : Inside(w, v)
      <3>1. \A w \in Elements(s) : Inside(w, v)
        BY <1>1, <2>1, <2>3 DEF Inside
      <3>2. \A w \in Elements(t) : Inside(w, v)
        BY <1>1, <2>1, <2>4 DEF Inside
      <3> QED BY <2>5, <3>1, <3>2
    <2>7. ASSUME NEW page \in Nat, Covers(v, page)
          PROVE  RightsAt(s \o t, page) = IF a <= page /\ page < b THEN {} ELSE {v.flags}
      <3>1. RightsAt(s \o t, page) = RightsAt(s, page) \cup RightsAt(t, page)
        BY <2>3, <2>4, JoinRights
      <3>2. v.start <= page /\ page < v.end
        BY <2>7 DEF Covers
      <3>3. CASE page < a
        <4>1. ~(b <= page)
          BY <3>3
        <4> QED BY <2>3, <2>4, <3>1, <3>2, <3>3, <4>1
      <3>4. CASE a <= page /\ page < b
        <4>1. ~(page < a) /\ ~(b <= page)
          BY <3>4
        <4> QED BY <2>3, <2>4, <3>1, <3>4, <4>1
      <3>5. CASE b <= page
        <4>1. ~(page < a) /\ ~(page < b)
          BY <3>5
        <4> QED BY <2>3, <2>4, <3>1, <3>2, <3>5, <4>1
      <3> QED BY <3>3, <3>4, <3>5
    <2>8. s \o t \in Seq(Segment)
      BY <2>3, <2>4, JoinIs
    <2> QED BY <2>1, <2>5, <2>6, <2>7, <2>8 DEF LeftOf
  <1> QED BY <1>2, <1>3

(* mprotect gives the new rights to what is inside its range.              *)
SplitRights(s, v, a, b, flags) ==
  \A page \in Nat : Covers(v, page) =>
    RightsAt(s, page) = IF a <= page /\ page < b THEN {flags} ELSE {v.flags}

LEMMA SplitIs ==
  ASSUME NEW v, IsArea(v), NEW a \in Nat, NEW b \in Nat, a < b,
         a % PageSize = 0, b % PageSize = 0, NEW flags \in Prot
  PROVE  /\ LeftOf(v, Split(v, a, b, flags)) /\ Split(v, a, b, flags) \in Seq(Segment)
         /\ SplitRights(Split(v, a, b, flags), v, a, b, flags)
  <1>1. /\ v.start \in Nat /\ v.end \in Nat /\ v.start <= v.end /\ v.start % PageSize = 0
        /\ v.end <= KernelStart /\ v.flags \in Prot \cup {RW, {"R", "X"}}
        /\ v.end % PageSize = 0 \/ v.end <= HeapStart + HeapMax
    BY AreaIs
  <1>2. CASE ~Meets(v, a, b)
    <2>1. Split(v, a, b, flags) = <<v>>
      BY <1>2 DEF Split
    <2>2. ASSUME NEW page \in Nat, Covers(v, page) PROVE ~(a <= page /\ page < b)
      BY <1>1, <1>2, <2>2 DEF Meets, Covers
    <2> QED BY <2>1, <2>2, AreaIs DEF SplitRights
  <1>3. CASE Meets(v, a, b) /\ a <= v.start /\ v.end <= b
    <2> DEFINE w == [v EXCEPT !.flags = flags]
    <2>1. Split(v, a, b, flags) = <<w>>
      BY <1>3 DEF Split
    <2>2. v \in Segment
      BY DEF IsArea
    <2>3. w \in Segment /\ w.start = v.start /\ w.end = v.end /\ w.flags = flags
      BY <2>2 DEF Segment
    <2> HIDE DEF w
    <2>4. IsArea(w)
      BY <2>3 DEF IsArea, IsSound
    <2>5. LeftOf(w, <<w>>) /\ <<w>> \in Seq(Segment)
          /\ \A page \in Nat : Covers(w, page) => RightsAt(<<w>>, page) = {w.flags}
      BY <2>4, AreaIs
    <2>6. LeftOf(v, <<w>>)
      BY <2>3, <2>5 DEF LeftOf, Inside
    <2>7. ASSUME NEW page \in Nat, Covers(v, page) PROVE a <= page /\ page < b /\ Covers(w, page)
      BY <1>1, <1>3, <2>3, <2>7 DEF Covers
    <2> QED BY <2>1, <2>3, <2>5, <2>6, <2>7 DEF SplitRights
  <1>4. CASE Meets(v, a, b) /\ ~(a <= v.start /\ v.end <= b)
    <2>1. PICK lo \in Nat : /\ lo = (IF a > v.start THEN a ELSE v.start)
                            /\ lo % PageSize = 0 /\ a <= lo /\ v.start <= lo /\ lo < v.end
      <3>1. CASE a > v.start
        BY <1>1, <1>4, <3>1 DEF Meets
      <3>2. CASE ~(a > v.start)
        BY <1>1, <1>4, <3>2 DEF Meets
      <3> QED BY <3>1, <3>2
    <2>2. PICK hi \in Nat : /\ hi = (IF b < v.end THEN b ELSE v.end)
                            /\ hi % PageSize = 0 \/ hi <= HeapStart + HeapMax
                            /\ hi <= b /\ hi <= v.end /\ v.start < hi
      <3>1. v.start < v.end
        BY <1>1, <2>1
      <3>2. CASE b < v.end
        BY <1>1, <1>4, <3>2 DEF Meets
      <3>3. CASE ~(b < v.end)
        BY <1>1, <3>1, <3>3
      <3> QED BY <3>2, <3>3
    <2>3. lo < hi
      <3>1. lo = a \/ lo = v.start
        BY <2>1
      <3>2. hi = b \/ hi = v.end
        BY <2>2
      <3>3. a < v.end /\ v.start < b
        BY <1>4 DEF Meets
      <3> QED BY <1>1, <2>1, <2>2, <3>1, <3>2, <3>3
    <2> DEFINE s == Piece(v.start, a, v.flags)
               m == Piece(lo, hi, flags)
               t == Piece(b, v.end, v.flags)
    <2>4. a < v.end /\ b > v.start /\ Split(v, a, b, flags) = (s \o m) \o t
      BY <1>4, <2>1, <2>2 DEF Meets, Split
    <2>5. Bounds(v.start, a, v.flags) /\ Bounds(lo, hi, flags) /\ Bounds(b, v.end, v.flags)
      <3>1. a <= KernelStart /\ hi <= KernelStart
        BY <1>1, <2>2, <2>4, Layout
      <3> QED BY <1>1, <2>1, <2>2, <3>1 DEF Bounds
    <2>6. /\ IsSpace(s) /\ s \in Seq(Segment)
          /\ \A w \in Elements(s) : w \in Segment /\ w.start = v.start /\ w.end = a /\ w.start < w.end
          /\ \A page \in Nat : RightsAt(s, page) = IF v.start <= page /\ page < a THEN {v.flags} ELSE {}
      BY <2>5, PieceIs DEF IsPiece
    <2>7. /\ IsSpace(m) /\ m \in Seq(Segment)
          /\ \A w \in Elements(m) : w \in Segment /\ w.start = lo /\ w.end = hi /\ w.start < w.end
          /\ \A page \in Nat : RightsAt(m, page) = IF lo <= page /\ page < hi THEN {flags} ELSE {}
      BY <2>5, PieceIs DEF IsPiece
    <2>8. /\ IsSpace(t) /\ t \in Seq(Segment)
          /\ \A w \in Elements(t) : w \in Segment /\ w.start = b /\ w.end = v.end /\ w.start < w.end
          /\ \A page \in Nat : RightsAt(t, page) = IF b <= page /\ page < v.end THEN {v.flags} ELSE {}
      BY <2>5, PieceIs DEF IsPiece
    <2> HIDE DEF s, m, t
    <2>9. IsSpace(s \o m) /\ Elements(s \o m) = Elements(s) \cup Elements(m) /\ s \o m \in Seq(Segment)
      <3>1. ASSUME NEW x \in Elements(s), NEW y \in Elements(m) PROVE Before(x, y)
        <4>1. x.start = v.start /\ x.end = a /\ v.start < a /\ y.start = lo
          BY <2>6, <2>7
        <4> QED BY <1>1, <2>1, <4>1 DEF Before
      <3> QED BY <2>6, <2>7, <3>1, JoinedSpaces, JoinIs
    <2> DEFINE u == s \o m
    <2>10. IsSpace(u) /\ u \in Seq(Segment) /\ Elements(u) = Elements(s) \cup Elements(m)
           /\ \A page : RightsAt(u, page) = RightsAt(s, page) \cup RightsAt(m, page)
      BY <2>6, <2>7, <2>9, JoinRights
    <2> HIDE DEF u
    <2>11. IsSpace(u \o t) /\ Elements(u \o t) = Elements(u) \cup Elements(t) /\ u \o t \in Seq(Segment)
      <3>1. ASSUME NEW x \in Elements(u), NEW y \in Elements(t) PROVE Before(x, y)
        <4>1. y.start = b /\ y.end = v.end /\ b < v.end
          BY <2>8
        <4>2. CASE x \in Elements(s)
          <5>1. x.start = v.start /\ x.end = a
            BY <2>6, <4>2
          <5> QED BY <1>1, <2>4, <4>1, <5>1 DEF Before
        <4>3. CASE x \in Elements(m)
          <5>1. x.start = lo /\ x.end = hi
            BY <2>7, <4>3
          <5> QED BY <2>2, <2>3, <4>1, <5>1 DEF Before
        <4> QED BY <2>10, <4>2, <4>3
      <3> QED BY <2>8, <2>10, <3>1, JoinedSpaces, JoinIs
    <2>12. ASSUME NEW w \in Elements(u \o t) PROVE Inside(w, v)
      <3>1. CASE w \in Elements(s)
        <4>1. w.start = v.start /\ w.end = a
          BY <2>6, <3>1
        <4> QED BY <1>1, <2>4, <4>1 DEF Inside
      <3>2. CASE w \in Elements(m)
        <4>1. w.start = lo /\ w.end = hi
          BY <2>7, <3>2
        <4> QED BY <1>1, <2>1, <2>2, <4>1 DEF Inside
      <3>3. CASE w \in Elements(t)
        <4>1. w.start = b /\ w.end = v.end /\ b < v.end
          BY <2>8, <3>3
        <4> QED BY <1>1, <2>4, <4>1 DEF Inside
      <3> QED BY <2>10, <2>11, <3>1, <3>2, <3>3
    <2>13. ASSUME NEW page \in Nat, Covers(v, page)
           PROVE  RightsAt(u \o t, page) = IF a <= page /\ page < b THEN {flags} ELSE {v.flags}
      <3>1. RightsAt(u \o t, page) = (RightsAt(s, page) \cup RightsAt(m, page)) \cup RightsAt(t, page)
        BY <2>8, <2>10, JoinRights
      <3>2. v.start <= page /\ page < v.end
        BY <2>13 DEF Covers
      <3>3. CASE page < a
        <4>1. ~(b <= page) /\ ~(lo <= page) /\ ~(a <= page)
          BY <2>1, <3>3
        <4> QED BY <2>6, <2>7, <2>8, <3>1, <3>2, <3>3, <4>1
      <3>4. CASE a <= page /\ page < b
        <4>1. ~(page < a) /\ ~(b <= page)
          BY <3>4
        <4>2. lo <= page /\ page < hi
          BY <2>1, <2>2, <3>2, <3>4
        <4> QED BY <2>6, <2>7, <2>8, <3>1, <3>4, <4>1, <4>2
      <3>5. CASE b <= page
        <4>1. ~(page < a) /\ ~(page < b) /\ ~(page < hi)
          BY <2>2, <3>5
        <4> QED BY <2>6, <2>7, <2>8, <3>1, <3>2, <3>5, <4>1
      <3> QED BY <3>3, <3>4, <3>5
    <2> QED BY <2>4, <2>11, <2>12, <2>13 DEF LeftOf, u, SplitRights
  <1> QED BY <1>2, <1>3, <1>4

-----------------------------------------------------------------------------
(* The whole walks.                                                        *)
PageRange(a, b) == a \in Nat /\ b \in Nat /\ a < b /\ a % PageSize = 0 /\ b % PageSize = 0
UnmapPieces(list, a, b, stop) ==
  [i \in DOMAIN list |-> IF i < stop THEN Rest(list[i], a, b) ELSE <<list[i]>>]
ProtectPieces(list, a, b, flags, stop) ==
  [i \in DOMAIN list |-> IF i < stop THEN Split(list[i], a, b, flags) ELSE <<list[i]>>]
AreLeft(list, seqs) ==
  /\ seqs \in Seq(Seq(Segment)) /\ Len(seqs) = Len(list)
  /\ \A i \in 1 .. Len(list) : LeftOf(list[i], seqs[i])

LEMMA RangesAre ==
  ASSUME NEW r \in Ranges
  PROVE  PageRange(r[1], r[2])
  <1>1. r[1] \in UserPage /\ r[2] \in Bound /\ r[1] < r[2]
    BY DEF Ranges
  <1>2. r[1] \in Nat /\ r[1] % PageSize = 0
    BY <1>1, Layout DEF UserPage, PageSize
  <1>3. r[2] \in Nat /\ r[2] % PageSize = 0
    BY <1>1, Layout DEF Bound, UserPage, PageSize
  <1> QED BY <1>1, <1>2, <1>3 DEF PageRange

LEMMA AreasAre ==
  ASSUME NEW list, IsSpace(list)
  PROVE  /\ DOMAIN list = 1 .. Len(list) /\ Len(list) \in Nat
         /\ \A i \in 1 .. Len(list) : IsArea(list[i])
  BY SpaceFacts DEF IsArea

LEMMA UnmapPiecesAre ==
  ASSUME NEW list, IsSpace(list), NEW a, NEW b, PageRange(a, b), NEW stop
  PROVE  AreLeft(list, UnmapPieces(list, a, b, stop))
  <1> DEFINE seqs == UnmapPieces(list, a, b, stop)
  <1>1. DOMAIN list = 1 .. Len(list) /\ Len(list) \in Nat /\ \A i \in 1 .. Len(list) : IsArea(list[i])
    BY AreasAre
  <1>2. ASSUME NEW i \in 1 .. Len(list) PROVE LeftOf(list[i], seqs[i]) /\ seqs[i] \in Seq(Segment)
    <2>1. PICK v : v = list[i] /\ IsArea(v)
      BY <1>1
    <2>2. LeftOf(v, Rest(v, a, b)) /\ Rest(v, a, b) \in Seq(Segment)
      BY <2>1, RestIs DEF PageRange
    <2>3. LeftOf(v, <<v>>) /\ <<v>> \in Seq(Segment)
      BY <2>1, AreaIs
    <2>4. seqs[i] = IF i < stop THEN Rest(v, a, b) ELSE <<v>>
      BY <1>1, <2>1 DEF UnmapPieces
    <2> QED BY <2>1, <2>2, <2>3, <2>4
  <1>3. seqs \in Seq(Seq(Segment)) /\ Len(seqs) = Len(list)
    <2>1. seqs = [i \in 1 .. Len(list) |-> seqs[i]]
      BY <1>1 DEF UnmapPieces
    <2> HIDE DEF seqs
    <2> QED BY <1>1, <1>2, <2>1
  <1> QED BY <1>2, <1>3 DEF AreLeft

LEMMA ProtectPiecesAre ==
  ASSUME NEW list, IsSpace(list), NEW a, NEW b, PageRange(a, b), NEW flags \in Prot, NEW stop
  PROVE  AreLeft(list, ProtectPieces(list, a, b, flags, stop))
  <1> DEFINE seqs == ProtectPieces(list, a, b, flags, stop)
  <1>1. DOMAIN list = 1 .. Len(list) /\ Len(list) \in Nat /\ \A i \in 1 .. Len(list) : IsArea(list[i])
    BY AreasAre
  <1>2. ASSUME NEW i \in 1 .. Len(list) PROVE LeftOf(list[i], seqs[i]) /\ seqs[i] \in Seq(Segment)
    <2>1. PICK v : v = list[i] /\ IsArea(v)
      BY <1>1
    <2>2. LeftOf(v, Split(v, a, b, flags)) /\ Split(v, a, b, flags) \in Seq(Segment)
      BY <2>1, SplitIs DEF PageRange
    <2>3. LeftOf(v, <<v>>) /\ <<v>> \in Seq(Segment)
      BY <2>1, AreaIs
    <2>4. seqs[i] = IF i < stop THEN Split(v, a, b, flags) ELSE <<v>>
      BY <1>1, <2>1 DEF ProtectPieces
    <2> QED BY <2>1, <2>2, <2>3, <2>4
  <1>3. seqs \in Seq(Seq(Segment)) /\ Len(seqs) = Len(list)
    <2>1. seqs = [i \in 1 .. Len(list) |-> seqs[i]]
      BY <1>1 DEF ProtectPieces
    <2> HIDE DEF seqs
    <2> QED BY <1>1, <1>2, <2>1
  <1> QED BY <1>2, <1>3 DEF AreLeft

LEMMA WalksAre ==
  ASSUME NEW list, NEW a, NEW b, NEW flags, NEW stop
  PROVE  /\ Unmapped(list, a, b, stop) = FlattenSeq(UnmapPieces(list, a, b, stop))
         /\ WithRights(list, a, b, flags, stop) = FlattenSeq(ProtectPieces(list, a, b, flags, stop))
  BY DEF Unmapped, WithRights, Walk, UnmapPieces, ProtectPieces

(* A walk that replaces every area by itself changes nothing.              *)
LEMMA SinglesAre ==
  ASSUME NEW list \in Seq(Segment), NEW seqs \in Seq(Seq(Segment)), Len(seqs) = Len(list),
         \A i \in 1 .. Len(list) : seqs[i] = <<list[i]>>
  PROVE  FlattenSeq(seqs) = list
  <1> DEFINE n == Len(list)
  <1>1. n \in Nat /\ DOMAIN list = 1 .. n /\ \A i \in 1 .. n : list[i] \in Segment
    OBVIOUS
  <1>2. PICK h : /\ h[0] = << >> /\ FlattenSeq(seqs) = h[n]
                 /\ \A j \in Nat : j < n => h[j + 1] = h[j] \o seqs[j + 1]
    BY FlattenIs
  <1> DEFINE Fine(k) == h[k] = [i \in 1 .. k |-> list[i]]
             bad == {k \in Nat : k <= n /\ ~Fine(k)}
  <1> HIDE DEF n
  <1>3. bad = {}
    <2>1. SUFFICES ASSUME bad # {} PROVE FALSE
      OBVIOUS
    <2>2. PICK m \in bad : \A k \in bad : ~(k < m)
      <3>1. bad \in SUBSET Nat
        OBVIOUS
      <3> HIDE DEF bad
      <3> QED BY <2>1, <3>1, EachAdded!LeastExists
    <2>3. m \in Nat /\ m <= n /\ ~Fine(m) /\ \A k \in bad : ~(k < m)
      BY <2>2
    <2>4. m # 0
      <3>1. << >> = [i \in 1 .. 0 |-> list[i]]
        OBVIOUS
      <3> QED BY <1>2, <2>3, <3>1
    <2>5. PICK k \in Nat : k + 1 = m
      <3>1. m - 1 \in Nat /\ (m - 1) + 1 = m
        BY <2>3, <2>4
      <3> QED BY <3>1
    <2>6. k < n /\ k <= n /\ k + 1 \in 1 .. n
      BY <1>1, <2>3, <2>5
    <2>7. Fine(k)
      BY <2>3, <2>5, <2>6
    <2>8. h[m] = h[k] \o <<list[k + 1]>>
      <3>1. seqs[k + 1] = <<list[k + 1]>>
        BY <2>6 DEF n
      <3> QED BY <1>2, <2>5, <2>6, <3>1
    <2>9. PICK s \in Seq(Segment) : s = h[k] /\ Len(s) = k /\ \A i \in 1 .. k : s[i] = list[i]
      <3>1. \A i \in 1 .. k : list[i] \in Segment
        BY <1>1, <2>6
      <3> DEFINE s == [i \in 1 .. k |-> list[i]]
      <3>2. s \in Seq(Segment) /\ Len(s) = k
        BY <3>1
      <3> QED BY <2>7, <3>2
    <2>10. PICK v \in Segment : v = list[k + 1]
      BY <1>1, <2>6
    <2>11. <<v>> \in Seq(Segment) /\ Len(<<v>>) = 1 /\ <<v>>[1] = v
      OBVIOUS
    <2> DEFINE t == <<v>>
    <2>12. t \in Seq(Segment) /\ Len(t) = 1 /\ t[1] = v
      BY <2>11
    <2> HIDE DEF t
    <2>13. /\ s \o t \in Seq(Segment) /\ Len(s \o t) = k + 1
           /\ (\A i \in 1 .. k : (s \o t)[i] = s[i]) /\ (s \o t)[k + 1] = v
      <3>1. /\ s \o t \in Seq(Segment) /\ Len(s \o t) = Len(s) + Len(t)
            /\ \A i \in 1 .. Len(s) : (s \o t)[i] = s[i]
            /\ \A i \in 1 .. Len(t) : (s \o t)[Len(s) + i] = t[i]
        BY <2>12, JoinIs
      <3>2. 1 \in 1 .. Len(t)
        BY <2>12
      <3>3. (s \o t)[Len(s) + 1] = t[1]
        BY <3>1, <3>2
      <3> QED BY <2>9, <2>12, <3>1, <3>3
    <2> DEFINE u == s \o t
    <2>14. u \in Seq(Segment) /\ DOMAIN u = 1 .. k + 1 /\ \A i \in 1 .. k + 1 : u[i] = list[i]
      <3>1. \A i \in 1 .. k + 1 : i \in 1 .. k \/ i = k + 1
        OBVIOUS
      <3>2. u \in Seq(Segment) /\ Len(u) = k + 1 /\ (\A i \in 1 .. k : u[i] = s[i]) /\ u[k + 1] = v
        BY <2>13
      <3> HIDE DEF u
      <3>3. \A i \in 1 .. k + 1 : u[i] = list[i]
        BY <2>9, <2>10, <3>1, <3>2
      <3>4. DOMAIN u = 1 .. k + 1
        BY <3>2
      <3> QED BY <3>2, <3>3, <3>4
    <2>15. h[m] = u
      BY <2>8, <2>9, <2>10 DEF t
    <2> HIDE DEF u
    <2>16. u = [i \in 1 .. k + 1 |-> list[i]]
      BY <2>14
    <2> QED BY <2>3, <2>5, <2>15, <2>16
  <1>4. n \in Nat /\ n <= n
    BY <1>1
  <1>5. Fine(n)
    BY <1>3, <1>4
  <1>6. list = [i \in 1 .. n |-> list[i]]
    BY <1>1
  <1> QED BY <1>2, <1>5, <1>6

LEMMA SpaceInOrder ==
  ASSUME NEW list, IsSpace(list)
  PROVE  InOrder(list)
  <1>1. /\ DOMAIN list = 1 .. Len(list)
        /\ \A i \in 1 .. Len(list) : /\ list[i].start \in Nat /\ list[i].start <= list[i].end
                                     /\ list[i].start % PageSize = 0
        /\ \A i, j \in 1 .. Len(list) :
             i < j => list[i].start < list[j].start /\ list[i].end <= list[j].start
    BY SpaceFacts
  <1>2. \A i, j \in 1 .. Len(list) : i < j => list[i].start <= list[j].start
    BY <1>1
  <1> QED BY <1>1, <1>2 DEF InOrder

LEMMA LeftIsSpace ==
  ASSUME NEW list, IsSpace(list), NEW seqs, AreLeft(list, seqs)
  PROVE  IsSpace(FlattenSeq(seqs))
  BY PiecesAre DEF AreLeft

LEMMA UnmapExact ==
  ASSUME AreasInv
  PROVE  UnmapIsExact
  <1> DEFINE n == Len(areas)
  <1>1. IsSpace(areas) /\ DOMAIN areas = 1 .. n /\ n \in Nat /\ \A i \in 1 .. n : IsArea(areas[i])
    BY AreasAre DEF AreasInv
  <1> SUFFICES ASSUME NEW r \in Ranges
               PROVE  LET done == Unmapped(areas, r[1], r[2], n + 1)
                      IN /\ InOrder(done)
                         /\ \A page \in UserPage :
                              RightsAt(done, page) =
                                IF r[1] <= page /\ page < r[2] THEN {} ELSE RightsAt(areas, page)
                         /\ \A stop \in UnmapStops(areas, r[1], r[2]) :
                              Unmapped(areas, r[1], r[2], stop) = areas
    BY DEF UnmapIsExact
  <1>2. PICK a : a = r[1]
    OBVIOUS
  <1>3. PICK b : b = r[2]
    OBVIOUS
  <1>4. PageRange(a, b)
    BY <1>2, <1>3, RangesAre
  <1> DEFINE seqs == UnmapPieces(areas, a, b, n + 1)
  <1>5. /\ seqs \in Seq(Seq(Segment)) /\ Len(seqs) = n
        /\ \A i \in 1 .. n : LeftOf(areas[i], seqs[i])
    BY <1>1, <1>4, UnmapPiecesAre DEF AreLeft
  <1>6. Unmapped(areas, a, b, n + 1) = FlattenSeq(seqs)
    BY WalksAre
  <1>7. \A i \in 1 .. n : seqs[i] = Rest(areas[i], a, b)
    <2>1. \A i \in 1 .. n : i < n + 1
      BY <1>1
    <2> QED BY <1>1, <2>1 DEF UnmapPieces
  <1> HIDE DEF seqs
  <1>8. InOrder(FlattenSeq(seqs))
    <2>1. IsSpace(FlattenSeq(seqs))
      BY <1>1, <1>5, PiecesAre
    <2> QED BY <2>1, SpaceInOrder
  <1>9. ASSUME NEW page \in UserPage
        PROVE  RightsAt(FlattenSeq(seqs), page) = IF a <= page /\ page < b THEN {} ELSE RightsAt(areas, page)
    <2>1. page \in Nat
      BY Layout DEF UserPage, PageSize
    <2>2. CASE RightsAt(areas, page) = {} /\ RightsAt(FlattenSeq(seqs), page) = {}
      BY <2>2
    <2>3. CASE \E i \in 1 .. n :
                 /\ Covers(areas[i], page)
                 /\ RightsAt(areas, page) = {areas[i].flags}
                 /\ RightsAt(FlattenSeq(seqs), page) = RightsAt(seqs[i], page)
      <3>1. PICK i \in 1 .. n :
                 /\ Covers(areas[i], page)
                 /\ RightsAt(areas, page) = {areas[i].flags}
                 /\ RightsAt(FlattenSeq(seqs), page) = RightsAt(seqs[i], page)
        BY <2>3
      <3>2. PICK v : v = areas[i] /\ IsArea(v)
        BY <1>1
      <3>3. RightsAt(Rest(v, a, b), page) = IF a <= page /\ page < b THEN {} ELSE {v.flags}
        <4>1. a \in Nat /\ b \in Nat /\ a < b /\ a % PageSize = 0 /\ b % PageSize = 0
          BY <1>4 DEF PageRange
        <4>2. IsArea(v) /\ Covers(v, page)
          BY <3>1, <3>2
        <4> QED BY <2>1, <4>1, <4>2, RestIs
      <3> QED BY <1>7, <3>1, <3>2, <3>3
    <2> QED BY <1>1, <1>5, <2>1, <2>2, <2>3, PieceRights DEF AreRights
  <1>10. ASSUME NEW stop \in UnmapStops(areas, a, b)
         PROVE  Unmapped(areas, a, b, stop) = areas
    <2>1. stop \in 1 .. n /\ Len(Rest(areas[stop], a, b)) > 1
      BY <1>1 DEF UnmapStops, Stops
    <2>2. PICK v : v = areas[stop] /\ IsArea(v) /\ Len(Rest(v, a, b)) > 1
      BY <1>1, <2>1
    <2>3. v.start < a
      <3>1. CASE ~Meets(v, a, b)
        <4>1. Rest(v, a, b) = <<v>> /\ Len(<<v>>) = 1
          BY <3>1 DEF Rest
        <4> QED BY <2>1, <2>2, <4>1
      <3>2. CASE Meets(v, a, b) /\ ~(v.start < a)
        <4>1. Rest(v, a, b) = << >> \o Piece(b, v.end, v.flags)
          BY <3>2 DEF Rest, Piece
        <4>2. Rest(v, a, b) = << >> \/ Rest(v, a, b) = <<[start |-> b, end |-> v.end, flags |-> v.flags]>>
          BY <4>1 DEF Piece
        <4>3. Len(<< >>) = 0 /\ \A x : Len(<<x>>) = 1
          OBVIOUS
        <4>4. Len(Rest(v, a, b)) = 0 \/ Len(Rest(v, a, b)) = 1
          BY <4>2, <4>3
        <4>5. Len(Rest(v, a, b)) > 1
          BY <2>2
        <4>6. PICK k : k = Len(Rest(v, a, b))
          OBVIOUS
        <4>7. k \in {0, 1} /\ k > 1
          BY <4>4, <4>5, <4>6
        <4>8. FALSE
          BY <4>7
        <4> QED BY <4>8
      <3> QED BY <3>1, <3>2
    <2> DEFINE same == UnmapPieces(areas, a, b, stop)
    <2>4. same \in Seq(Seq(Segment)) /\ Len(same) = n
      BY <1>1, <1>4, UnmapPiecesAre DEF AreLeft
    <2>5. ASSUME NEW i \in 1 .. n PROVE same[i] = <<areas[i]>>
      <3>1. CASE i < stop
        <4>1. areas[i].end <= v.start /\ areas[i].end \in Nat /\ v.start \in Nat
          BY <1>1, <2>1, <2>2, <3>1, SpaceFacts
        <4>2. ~Meets(areas[i], a, b)
          BY <1>4, <2>3, <4>1 DEF Meets, PageRange
        <4> QED BY <1>1, <3>1, <4>2 DEF UnmapPieces, Rest
      <3>2. CASE ~(i < stop)
        BY <1>1, <3>2 DEF UnmapPieces
      <3> QED BY <3>1, <3>2
    <2>6. Unmapped(areas, a, b, stop) = FlattenSeq(same)
      BY WalksAre
    <2>7. areas \in Seq(Segment)
      BY <1>1 DEF IsSpace
    <2> HIDE DEF same
    <2>8. FlattenSeq(same) = areas
      BY <2>4, <2>5, <2>7, SinglesAre
    <2> QED BY <2>6, <2>8
  <1> QED BY <1>2, <1>3, <1>6, <1>8, <1>9, <1>10

LEMMA ProtectExact ==
  ASSUME AreasInv
  PROVE  ProtectIsExact
  <1> DEFINE n == Len(areas)
  <1>1. IsSpace(areas) /\ DOMAIN areas = 1 .. n /\ n \in Nat /\ \A i \in 1 .. n : IsArea(areas[i])
    BY AreasAre DEF AreasInv
  <1> DEFINE Expected(r, flags, page, upto) ==
               IF r[1] <= page /\ page < upto /\ RightsAt(areas, page) # {}
               THEN {flags} ELSE RightsAt(areas, page)
  <1> SUFFICES ASSUME NEW r \in Ranges, NEW flags \in Prot
               PROVE  /\ InOrder(WithRights(areas, r[1], r[2], flags, n + 1))
                      /\ \A page \in UserPage :
                           RightsAt(WithRights(areas, r[1], r[2], flags, n + 1), page)
                             = Expected(r, flags, page, r[2])
                      /\ \A stop \in ProtectStops(areas, r[1], r[2], flags), page \in UserPage :
                           RightsAt(WithRights(areas, r[1], r[2], flags, stop), page)
                             = Expected(r, flags, page, areas[stop].start)
    BY DEF ProtectIsExact
  <1>2. PICK a : a = r[1]
    OBVIOUS
  <1>3. PICK b : b = r[2]
    OBVIOUS
  <1>4. PageRange(a, b)
    BY <1>2, <1>3, RangesAre
  <1> DEFINE Done(stop) == WithRights(areas, a, b, flags, stop)
  <1>5. ASSUME NEW stop \in Nat
        PROVE  /\ IsSpace(Done(stop))
               /\ \A page \in Nat :
                    \/ RightsAt(areas, page) = {} /\ RightsAt(Done(stop), page) = {}
                    \/ \E i \in 1 .. n :
                         /\ Covers(areas[i], page)
                         /\ RightsAt(areas, page) = {areas[i].flags}
                         /\ RightsAt(Done(stop), page) =
                              IF i < stop /\ a <= page /\ page < b THEN {flags} ELSE {areas[i].flags}
    <2> DEFINE seqs == ProtectPieces(areas, a, b, flags, stop)
    <2>1. /\ seqs \in Seq(Seq(Segment)) /\ Len(seqs) = n
          /\ \A i \in 1 .. n : LeftOf(areas[i], seqs[i])
      BY <1>1, <1>4, ProtectPiecesAre DEF AreLeft
    <2>2. Done(stop) = FlattenSeq(seqs)
      BY WalksAre
    <2>3. \A i \in 1 .. n : seqs[i] = IF i < stop THEN Split(areas[i], a, b, flags) ELSE <<areas[i]>>
      BY <1>1 DEF ProtectPieces
    <2> HIDE DEF seqs
    <2>4. IsSpace(FlattenSeq(seqs))
      BY <1>1, <2>1, PiecesAre
    <2>5. ASSUME NEW page \in Nat, NEW i \in 1 .. n, Covers(areas[i], page)
          PROVE  RightsAt(seqs[i], page) =
                   IF i < stop /\ a <= page /\ page < b THEN {flags} ELSE {areas[i].flags}
      <3>1. PICK v : v = areas[i] /\ IsArea(v)
        BY <1>1
      <3>2. SplitRights(Split(v, a, b, flags), v, a, b, flags)
        <4>1. a \in Nat /\ b \in Nat /\ a < b /\ a % PageSize = 0 /\ b % PageSize = 0
          BY <1>4 DEF PageRange
        <4> QED BY <3>1, <4>1, SplitIs
      <3>3. RightsAt(<<v>>, page) = {v.flags}
        BY <2>5, <3>1, AreaIs
      <3>4. seqs[i] = IF i < stop THEN Split(v, a, b, flags) ELSE <<v>>
        BY <2>3, <3>1
      <3> QED BY <2>5, <3>1, <3>2, <3>3, <3>4 DEF SplitRights
    <2>6. ASSUME NEW page \in Nat
          PROVE  \/ RightsAt(areas, page) = {} /\ RightsAt(FlattenSeq(seqs), page) = {}
                 \/ \E i \in 1 .. n :
                      /\ Covers(areas[i], page)
                      /\ RightsAt(areas, page) = {areas[i].flags}
                      /\ RightsAt(FlattenSeq(seqs), page) = RightsAt(seqs[i], page)
      <3>1. AreRights(areas, seqs, page)
        BY <1>1, <2>1, PieceRights
      <3> QED BY <3>1 DEF AreRights
    <2> HIDE DEF n
    <2> QED BY <2>2, <2>4, <2>5, <2>6
  <1>6. \A page \in UserPage : page \in Nat
    BY Layout DEF UserPage, PageSize
  <1> HIDE DEF n
  <1>7. InOrder(Done(n + 1))
    <2>1. n + 1 \in Nat
      BY <1>1
    <2>2. IsSpace(Done(n + 1))
      BY <1>5, <2>1
    <2> HIDE DEF Done
    <2> QED BY <2>2, SpaceInOrder
  <1>8. ASSUME NEW page \in UserPage
        PROVE  RightsAt(Done(n + 1), page) = Expected(r, flags, page, b)
    <2>1. n + 1 \in Nat /\ page \in Nat /\ \A i \in 1 .. n : i < n + 1
      BY <1>1, <1>6
    <2> HIDE DEF Done
    <2>2. CASE RightsAt(areas, page) = {} /\ RightsAt(Done(n + 1), page) = {}
      BY <2>2
    <2>3. CASE ~(RightsAt(areas, page) = {} /\ RightsAt(Done(n + 1), page) = {})
      <3>1. PICK i \in 1 .. n :
              /\ RightsAt(areas, page) = {areas[i].flags}
              /\ RightsAt(Done(n + 1), page) =
                   IF i < n + 1 /\ a <= page /\ page < b THEN {flags} ELSE {areas[i].flags}
        BY <1>5, <2>1, <2>3
      <3> QED BY <1>2, <2>1, <3>1
    <2> QED BY <2>2, <2>3
  <1>9. ASSUME NEW stop \in ProtectStops(areas, a, b, flags), NEW page \in UserPage
        PROVE  RightsAt(Done(stop), page) = Expected(r, flags, page, areas[stop].start)
    <2>1. stop \in 1 .. n /\ stop \in Nat /\ Len(Split(areas[stop], a, b, flags)) > 1
      BY <1>1 DEF ProtectStops, Stops
    <2>2. PICK v : v = areas[stop] /\ IsArea(v) /\ v.start \in Nat
      BY <1>1, <2>1, AreaIs
    <2>3. v.start < b
      <3>1. CASE ~Meets(v, a, b)
        <4>1. Split(v, a, b, flags) = <<v>> /\ Len(<<v>>) = 1
          BY <3>1 DEF Split
        <4> QED BY <2>1, <2>2, <4>1
      <3>2. CASE Meets(v, a, b)
        BY <1>4, <2>2, <3>2 DEF Meets, PageRange
      <3> QED BY <3>1, <3>2
    <2>4. page \in Nat
      BY <1>6
    <2> HIDE DEF Done
    <2>5. CASE RightsAt(areas, page) = {} /\ RightsAt(Done(stop), page) = {}
      BY <2>5
    <2>6. CASE ~(RightsAt(areas, page) = {} /\ RightsAt(Done(stop), page) = {})
      <3>1. PICK i \in 1 .. n :
              /\ Covers(areas[i], page)
              /\ RightsAt(areas, page) = {areas[i].flags}
              /\ RightsAt(Done(stop), page) =
                   IF i < stop /\ a <= page /\ page < b THEN {flags} ELSE {areas[i].flags}
        BY <1>5, <2>1, <2>4, <2>6
      <3>2. areas[i].start \in Nat /\ areas[i].end \in Nat /\ areas[i].start <= page /\ page < areas[i].end
        BY <1>1, <3>1, AreaIs DEF Covers
      <3>3. i < stop <=> page < v.start
        <4>1. CASE i < stop
          <5>1. areas[i].end <= v.start
            BY <1>1, <2>1, <2>2, <4>1, SpaceFacts DEF n
          <5> QED BY <2>2, <2>4, <3>2, <4>1, <5>1
        <4>2. CASE ~(i < stop)
          <5>1. v.start <= areas[i].start
            <6>1. i = stop \/ stop < i
              BY <2>1, <3>1, <4>2
            <6>2. CASE i = stop
              BY <2>2, <6>2
            <6>3. CASE stop < i
              <7>1. v.start < areas[i].start
                BY <1>1, <2>1, <2>2, <6>3, SpaceFacts DEF n
              <7> QED BY <2>2, <3>2, <7>1
            <6> QED BY <6>1, <6>2, <6>3
          <5> QED BY <2>2, <2>4, <3>2, <4>2, <5>1
        <4> QED BY <4>1, <4>2
      <3>4. page < v.start => page < b
        BY <1>4, <2>2, <2>3, <2>4 DEF PageRange
      <3> QED BY <1>2, <2>2, <3>1, <3>3, <3>4
    <2> QED BY <2>5, <2>6
  <1> QED BY <1>2, <1>3, <1>7, <1>8, <1>9 DEF n

(* Ends that are rounded up cover no page more.                            *)
LEMMA CloneExact ==
  ASSUME AreasInv
  PROVE  CloneIsExact
  <1> DEFINE n == Len(areas)
             pages == Pages(areas, n)
  <1>1. IsSpace(areas) /\ DOMAIN areas = 1 .. n /\ n \in Nat /\ \A i \in 1 .. n : IsArea(areas[i])
    BY AreasAre DEF AreasInv
  <1>2. IsSpace(Cloned(areas)) /\ Elements(Cloned(areas)) = pages
    BY <1>1, ClonedIs
  <1>3. ASSUME NEW page \in UserPage
        PROVE  RightsAt(Cloned(areas), page) = RightsAt(areas, page)
    <2>1. page \in Nat /\ page % PageSize = 0
      BY Layout DEF UserPage, PageSize
    <2>2. ASSUME NEW i \in 1 .. n
          PROVE  /\ Covers(OnPages(areas[i]), page) <=> Covers(areas[i], page)
                 /\ OnPages(areas[i]).flags = areas[i].flags
      <3>1. PICK v : v = areas[i] /\ IsArea(v)
        BY <1>1
      <3>2. v \in Segment /\ v.start <= v.end /\ v.start % PageSize = 0 /\ v.start \in Nat /\ v.end \in Nat
        BY <3>1, SegmentIs DEF IsArea
      <3>3. OnPages(v).start = AlignDown(v.start) /\ OnPages(v).end = AlignUp(v.end)
            /\ OnPages(v).flags = v.flags
        BY <3>2, OnPagesIs
      <3>4. AlignDown(v.start) = v.start
        BY <3>2, Rounding
      <3>5. AlignUp(v.end) \in Nat /\ v.end <= AlignUp(v.end) /\ (v.end <= page => AlignUp(v.end) <= page)
        BY <2>1, <3>2, Rounding
      <3>6. page < AlignUp(v.end) <=> page < v.end
        BY <2>1, <3>2, <3>5
      <3>7. Covers(OnPages(v), page) <=> Covers(v, page)
        BY <3>3, <3>4, <3>6 DEF Covers
      <3> QED BY <3>1, <3>3, <3>7
    <2>3. RightsAt(Cloned(areas), page) = {w.flags : w \in {x \in pages : Covers(x, page)}}
      BY <1>2, RightsAre
    <2> HIDE DEF n
    <2>4. RightsAt(areas, page) = {areas[i].flags : i \in {j \in 1 .. n : Covers(areas[j], page)}}
      BY <1>1 DEF RightsAt, Covers
    <2>5. {w.flags : w \in {x \in pages : Covers(x, page)}}
            = {OnPages(areas[i]).flags : i \in {j \in 1 .. n : Covers(OnPages(areas[j]), page)}}
      BY DEF Pages
    <2> QED BY <2>2, <2>3, <2>4, <2>5
  <1>4. InOrder(Cloned(areas))
    BY <1>2, SpaceInOrder
  <1> QED BY <1>3, <1>4 DEF CloneIsExact

-----------------------------------------------------------------------------
LEMMA UnmapKeeps ==
  ASSUME AreasInv, NEW r \in Ranges, UnmapArea(r[1], r[2])
  PROVE  AreasInv'
  <1>1. IsSpace(areas) /\ PageRange(r[1], r[2])
    BY RangesAre DEF AreasInv
  <1>2. PICK stop : areas' = Unmapped(areas, r[1], r[2], stop)
    BY DEF UnmapArea
  <1>3. AreLeft(areas, UnmapPieces(areas, r[1], r[2], stop))
    BY <1>1, UnmapPiecesAre
  <1>4. IsSpace(FlattenSeq(UnmapPieces(areas, r[1], r[2], stop)))
    BY <1>1, <1>3, LeftIsSpace
  <1> QED BY <1>2, <1>4, WalksAre DEF AreasInv

LEMMA ProtectKeeps ==
  ASSUME AreasInv, NEW r \in Ranges, NEW flags \in Prot, ProtectArea(r[1], r[2], flags)
  PROVE  AreasInv'
  <1>1. IsSpace(areas) /\ PageRange(r[1], r[2])
    BY RangesAre DEF AreasInv
  <1>2. PICK stop : areas' = WithRights(areas, r[1], r[2], flags, stop)
    BY DEF ProtectArea
  <1>3. AreLeft(areas, ProtectPieces(areas, r[1], r[2], flags, stop))
    BY <1>1, ProtectPiecesAre
  <1>4. IsSpace(FlattenSeq(ProtectPieces(areas, r[1], r[2], flags, stop)))
    BY <1>1, <1>3, LeftIsSpace
  <1> QED BY <1>2, <1>4, WalksAre DEF AreasInv

LEMMA InitIsSpace == AreasInit => AreasInv
  BY ImagesAreSpaces DEF AreasInit, AreasInv

LEMMA StepKeeps ==
  ASSUME LeavesHeapAlone = TRUE, AreasInv, [AreasNext]_areas
  PROVE  AreasInv'
  <1>1. ASSUME NEW flags \in Prot, NEW size \in UserPage, NEW addr \in UserPage \cup {0},
               MapArea(addr, size, flags)
        PROVE  AreasInv'
    BY <1>1, MapKeeps
  <1>2. ASSUME NEW flags \in Prot, NEW r \in Ranges, ProtectArea(r[1], r[2], flags)
        PROVE  AreasInv'
    BY <1>2, ProtectKeeps
  <1>3. ASSUME NEW r \in Ranges, UnmapArea(r[1], r[2]) PROVE AreasInv'
    BY <1>3, UnmapKeeps
  <1>4. ASSUME NEW new \in Break, Brk(new) PROVE AreasInv'
    <2>1. new \in Nat /\ HeapStart <= new
      BY <1>4, AreasAssumption DEF AreasAssumption, Brk
    <2>2. new <= HeapStart + HeapMax /\ (BrkCreate(new) \/ BrkMove(new))
      BY <1>4 DEF Brk
    <2> QED BY <2>1, <2>2, CreateKeeps, MoveKeeps
  <1>5. CASE CloneAreas
    <2>1. areas' = Cloned(areas)
      BY <1>5 DEF CloneAreas
    <2> QED BY <2>1, ClonedIs DEF AreasInv
  <1>6. ASSUME NEW p \in Program, Exec(p) PROVE AreasInv'
    BY <1>6, ImagesAreSpaces DEF Exec, AreasInv
  <1>7. CASE UNCHANGED areas
    BY <1>7 DEF AreasInv, IsSpace, Sorted, Elements
  <1> QED BY <1>1, <1>2, <1>3, <1>4, <1>5, <1>6, <1>7 DEF AreasNext

(* Whatever a process maps, cuts, splits, grows, copies or runs, the areas *)
(* of vma.c stay in order, and vma_find, vma_intersects and                *)
(* vma_find_free_area, which stop early because of that, find what a       *)
(* search of the whole list would, in every layout of the address space.   *)
THEOREM AreasAreAlwaysFound ==
  ASSUME LeavesHeapAlone = TRUE
  PROVE  AreasSpec => []AreasAreFound
  <1>1. AreasInv /\ [AreasNext]_areas => AreasInv'
    BY StepKeeps
  <1>2. AreasInv => AreasAreFound
    BY InvIsExact DEF AreasAreFound
  <1> QED BY InitIsSpace, <1>1, <1>2, PTL DEF AreasSpec

(* vma_unmap, vma_protect and vma_clone change the rights of exactly the   *)
(* pages they are asked to, whichever of their allocations fails.          *)
THEOREM EditsAreAlwaysExact ==
  ASSUME LeavesHeapAlone = TRUE
  PROVE  AreasSpec => []EditsAreExact
  <1>1. AreasInv /\ [AreasNext]_areas => AreasInv'
    BY StepKeeps
  <1>2. AreasInv => EditsAreExact
    BY UnmapExact, ProtectExact, CloneExact DEF EditsAreExact
  <1> QED BY InitIsSpace, <1>1, <1>2, PTL DEF AreasSpec
=============================================================================
