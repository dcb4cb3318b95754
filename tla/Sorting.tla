------------------------------ MODULE Sorting ------------------------------
(***************************************************************************)
(* qsort and bsearch of user_libc.c: a heapsort in place, one comparison   *)
(* and exchange of sift_down per step, and a search of what it sorted.     *)
(* Its one user in the system is ls of shell_user.c, whose comparison puts *)
(* directories first and orders by name within each group.                 *)
(*                                                                         *)
(* Positions count from 0, as in the code.                                 *)
(***************************************************************************)
EXTENDS Integers, Sequences, FiniteSets

CONSTANTS MaxElements,    \* longest array
          LsName        \* names, numbers ordered as strcmp orders them

SortingAssumption == MaxElements \in Nat /\ LsName \subseteq Int
ASSUME SortingAssumption

VARIABLES input,        \* the array as the caller passed it
          array,        \* the array now: a function on 0..nmemb-1
          phase,        \* "build", "sort", "search" or "done"
          start, end,   \* the loop variables of qsort; end before its first turn is nmemb
          root,         \* sift_down's; NoRoot when it has returned
          key,          \* what bsearch looks for
          low, high,
          found         \* its answer, a position or NotFound

sortVars == <<input, array, phase, start, end, root, key, low, high, found>>

NoRoot == -1
NotFound == -1

Entry == [dir : BOOLEAN, name : LsName]
nmemb == Cardinality(DOMAIN input)

\* ls_entry_cmp: negative, zero or positive
Compare(a, b) ==
  IF a.dir # b.dir THEN (IF a.dir THEN -1 ELSE 1) ELSE a.name - b.name

SortInit ==
  /\ \E k \in 0..MaxElements : input \in [0..(k - 1) -> Entry]
  /\ array = input
  /\ start = (nmemb - 2) \div 2 /\ end = nmemb
  /\ IF nmemb < 2 THEN phase = "search" /\ root = NoRoot
              ELSE phase = "build" /\ root = start
  /\ key \in Entry /\ low = 0 /\ high = nmemb /\ found = NotFound

\* sift_down: the larger child goes up while it is larger than the root; last
\* is the last position of the heap
LastElement == IF phase = "build" THEN nmemb - 1 ELSE end - 1
Larger(i, c) == IF c <= LastElement /\ Compare(array[i], array[c]) < 0 THEN c ELSE i
\* fault: the right child is not compared with the left one
OneChild(r) == IF r * 2 + 1 > LastElement THEN r ELSE Larger(r, r * 2 + 1)
Above(r) == IF r * 2 + 1 > LastElement THEN r
            ELSE Larger(Larger(r, r * 2 + 1), r * 2 + 2)
Exchanged(f, i, j) == [f EXCEPT ![i] = f[j], ![j] = f[i]]

SiftDown ==
  /\ phase \in {"build", "sort"} /\ root # NoRoot
  /\ IF Above(root) = root
     THEN root' = NoRoot /\ UNCHANGED array
     ELSE array' = Exchanged(array, root, Above(root)) /\ root' = Above(root)
  /\ UNCHANGED <<input, phase, start, end, key, low, high, found>>

\* the first loop of qsort, from the last parent down to the root
BuildNext ==
  /\ phase = "build" /\ root = NoRoot
  /\ IF start > 0
     THEN start' = start - 1 /\ root' = start - 1 /\ UNCHANGED phase
     ELSE phase' = "sort" /\ UNCHANGED <<start, root>>
  /\ UNCHANGED <<input, array, end, key, low, high, found>>

\* the second loop: the largest goes behind the heap, which shrinks
SortNext ==
  /\ phase = "sort" /\ root = NoRoot
  /\ end' = end - 1
  /\ IF end' > 0
     THEN array' = Exchanged(array, 0, end') /\ root' = 0 /\ UNCHANGED phase
     ELSE phase' = "search" /\ UNCHANGED <<array, root>>
  /\ UNCHANGED <<input, start, key, low, high, found>>

\* one turn of bsearch
Middle == low + ((high - low) \div 2)
bsearch ==
  /\ phase = "search" /\ low < high
  /\ LET r == Compare(key, array[Middle])
     IN  IF r = 0 THEN found' = Middle /\ phase' = "done" /\ UNCHANGED <<low, high>>
         ELSE /\ IF r > 0 THEN low' = Middle + 1 /\ UNCHANGED high
                          ELSE high' = Middle /\ UNCHANGED low
              /\ UNCHANGED <<found, phase>>
  /\ UNCHANGED <<input, array, start, end, root, key>>

bsearchFails ==
  /\ phase = "search" /\ low >= high
  /\ phase' = "done"
  /\ UNCHANGED <<input, array, start, end, root, key, low, high, found>>

SortingNext == SiftDown \/ BuildNext \/ SortNext \/ bsearch \/ bsearchFails

SortSpec == SortInit /\ [][SortingNext]_sortVars

-----------------------------------------------------------------------------
Count(f, e) == Cardinality({i \in DOMAIN f : f[i] = e})

\* When qsort has returned, the array holds what the caller passed, each entry
\* as often, in the order of the comparison; and bsearch then finds a key just
\* when the array holds it, at a position that holds it.
SortIsOrdered ==
  /\ \A e \in Entry : Count(array, e) = Count(input, e)
  /\ phase \in {"search", "done"} =>
       \A i, j \in DOMAIN array : i < j => Compare(array[i], array[j]) <= 0
  /\ phase = "done" => IF found = NotFound THEN Count(input, key) = 0
                       ELSE array[found] = key
=============================================================================
