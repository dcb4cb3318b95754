------------------------------ MODULE TmpFile ------------------------------
(***************************************************************************)
(* One regular file of tmpfs (tmpfs.c) with the descriptions it is open    *)
(* under: the heap buffer and how it grows, truncation, reads, writes and  *)
(* seeks.  Each system call runs with interrupts off, so it is one step.   *)
(* Offsets and counts are small enough that offset + count stays below     *)
(* 2^32 (MaxSeek, MaxCount).                                               *)
(***************************************************************************)
EXTENDS Integers

CONSTANTS
  Description,   \* open_file_t's of the file
  Byte, Junk,    \* values written; what kmalloc leaves in a new buffer
  SmallFile,     \* files below it grow to a power of two (1 MiB in tmpfs.c)
  MaxFile,       \* TMPFS_MAX_FILE_SIZE (25 MiB)
  MaxCount, MaxSeek  \* bounds: the largest transfer, the largest seek

ASSUME TmpFileAssumption ==
  /\ SmallFile \in Nat /\ MaxFile \in Nat /\ MaxCount \in Nat
  /\ MaxSeek \in Nat /\ MaxFile <= MaxSeek
  /\ 0 \in Byte

VARIABLES
  data, capacity,     \* fdata->data as a function on 0..capacity - 1
  fsize, node_size,   \* fdata->size and node->size
  offset,             \* of->offset
  result              \* the bytes the last read returned

tvars == <<data, capacity, fsize, node_size, offset, result>>

Empty == [i \in 0..-1 |-> 0]

TmpInit ==
  /\ data = Empty /\ capacity = 0 /\ fsize = 0 /\ node_size = 0
  /\ offset = [d \in Description |-> 0] /\ result = Empty

-----------------------------------------------------------------------------
(* tmpfs_open: the buffer is kept, with what is in it.                     *)
NodeSizeKept == node_size                     \* fault: node->size not synchronised
NodeSizeReset == 0

Truncate ==                                   \* open(O_TRUNC)
  /\ fsize' = 0 /\ node_size' = NodeSizeReset
  /\ UNCHANGED <<data, capacity, offset, result>>

(* The capacity chosen for a file of n bytes, before the limit is applied. *)
Grows(n, c) ==
  IF n < SmallFile
    THEN /\ n <= c /\ (c = 1 \/ c < 2 * n)
         /\ \E k \in 0..n : c = 2^k
    ELSE c = n + n \div 4

Capped(c) == IF c > MaxFile THEN MaxFile ELSE c

(* k_memset of the gap between the old end and the place of the write.     *)
GapKept(i, p) == FALSE                        \* fault: the gap is not cleared
InGap(i, p) == fsize <= i /\ i < p

(* The buffer after the write of n times b at p, given the buffer before.  *)
Filled(p, n, b, buffer, c) ==
  [i \in 0..c - 1 |-> IF i \in p..p + n - 1 THEN b
                      ELSE IF InGap(i, p) THEN 0 ELSE buffer[i]]

(* The old content moves to the new buffer; the rest of it is heap junk.   *)
Copied(i) == i < fsize
Moved(c) == [i \in 0..c - 1 |-> IF Copied(i) THEN data[i] ELSE Junk]

(* tmpfs_write up to the copy of m of the n bytes.  Without memory for a   *)
(* larger buffer, and beyond the limit, nothing changes.                   *)
Store(d, n, m, b) ==
  LET p == offset[d]
      new_size == p + n
  IN /\ new_size <= MaxFile
     /\ \/ /\ new_size <= capacity
           /\ data' = Filled(p, m, b, data, capacity)
           /\ UNCHANGED capacity
        \/ /\ new_size > capacity
           /\ \E c \in 0..2 * MaxFile + 1 :
                /\ Grows(new_size, c)
                /\ data' = Filled(p, m, b, Moved(Capped(c)), Capped(c))
                /\ capacity' = Capped(c)

(* tmpfs_write through sys_write.                                          *)
Write(d, n, b) ==
  LET new_size == offset[d] + n
  IN /\ Store(d, n, n, b)
     /\ fsize' = IF new_size > fsize THEN new_size ELSE fsize
     /\ node_size' = IF new_size > fsize THEN new_size ELSE node_size
     /\ offset' = [offset EXCEPT ![d] = new_size]
     /\ UNCHANGED result

(* The copy from user memory faults and the fault kills the task: the      *)
(* buffer has changed, the sizes and the offset have not.                  *)
WriteFaults(d, n, b) ==
  /\ \E m \in 0..n - 1 : Store(d, n, m, b)
  /\ UNCHANGED <<fsize, node_size, offset, result>>

(* tmpfs_read through sys_read: a read at or behind the end returns 0.     *)
Read(d, n) ==
  LET p == offset[d]
      got == IF p >= fsize THEN 0 ELSE IF p + n > fsize THEN fsize - p ELSE n
  IN /\ result' = [i \in 0..got - 1 |-> data[p + i]]
     /\ offset' = [offset EXCEPT ![d] = p + got]
     /\ UNCHANGED <<data, capacity, fsize, node_size>>

(* sys_lseek: SEEK_SET, SEEK_CUR, SEEK_END; the end is node->size.         *)
Lseek(d) ==
  /\ \E k \in -MaxSeek..MaxSeek, from \in {0, offset[d], node_size} :
       /\ from + k \in 0..MaxSeek
       /\ offset' = [offset EXCEPT ![d] = from + k]
  /\ UNCHANGED <<data, capacity, fsize, node_size, result>>

-----------------------------------------------------------------------------
TmpNext ==
  \/ Truncate
  \/ \E d \in Description :
       \/ \E n \in 0..MaxCount : Read(d, n) \/ \E b \in Byte : Write(d, n, b) \/ WriteFaults(d, n, b)
       \/ Lseek(d)

TmpSpec == TmpInit /\ [][TmpNext]_tvars

-----------------------------------------------------------------------------
TTypeOK ==
  /\ capacity \in 0..MaxFile /\ data \in [0..capacity - 1 -> Byte \cup {Junk}]
  /\ fsize \in Nat /\ node_size \in Nat
  /\ offset \in [Description -> 0..MaxSeek]

(* The size that sys_lseek(SEEK_END) and sys_fstat see is the size that    *)
(* reads and writes go by, and the buffer has room for it.                 *)
SizesAgree == node_size = fsize /\ fsize <= capacity

(* No byte of the file is what the heap left in the buffer, or what stood  *)
(* there before a truncation: through growth, holes and O_TRUNC a read     *)
(* returns what was written last, or 0.                                    *)
File == INSTANCE SparseFile
          WITH size <- fsize, position <- offset,
               content <- [i \in 0..fsize - 1 |-> data[i]]

ReadsWhatWasWritten == File!FSpec
=============================================================================
