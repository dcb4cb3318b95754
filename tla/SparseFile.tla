---------------------------- MODULE SparseFile ----------------------------
(***************************************************************************)
(* What a file of tmpfs promises: a sequence of bytes that reads as what    *)
(* was written last, and as 0 where nothing was written.  The descriptions *)
(* of an open file move along it each for itself.  TmpFile implements this *)
(* module: see TmpFile!ReadsWhatWasWritten.                                *)
(***************************************************************************)
EXTENDS Integers

CONSTANTS Description, Byte, MaxFile, MaxCount, MaxSeek

VARIABLES size, content,   \* content is a function on 0..size - 1
          position,        \* of each description
          result           \* the bytes the last read returned

fvars == <<size, content, position, result>>

Larger(a, b) == IF a > b THEN a ELSE b
Nothing == [i \in 0..-1 |-> 0]

FInit ==
  /\ size = 0 /\ content = Nothing
  /\ position = [d \in Description |-> 0] /\ result = Nothing

Truncate ==
  /\ size' = 0 /\ content' = Nothing
  /\ UNCHANGED <<position, result>>

Write(d, n, b) ==
  LET p == position[d]
  IN /\ p + n <= MaxFile
     /\ size' = Larger(size, p + n)
     /\ content' = [i \in 0..Larger(size, p + n) - 1 |->
          IF i \in p..p + n - 1 THEN b ELSE IF i < size THEN content[i] ELSE 0]
     /\ position' = [position EXCEPT ![d] = p + n]
     /\ UNCHANGED result

(* A task that dies in a write leaves some of its bytes, and no more bytes. *)
TornWrite(d, n, b) ==
  LET p == position[d]
  IN /\ p + n <= MaxFile
     /\ \E m \in 0..n - 1 :
          content' = [i \in 0..size - 1 |->
                        IF i \in p..p + m - 1 THEN b ELSE content[i]]
     /\ UNCHANGED <<size, position, result>>

Read(d, n) ==
  LET p == position[d]
      got == IF p >= size THEN 0 ELSE IF p + n > size THEN size - p ELSE n
  IN /\ result' = [i \in 0..got - 1 |-> content[p + i]]
     /\ position' = [position EXCEPT ![d] = p + got]
     /\ UNCHANGED <<size, content>>

(* To any place, also behind the end.                                      *)
Seek(d) ==
  /\ \E p \in 0..MaxSeek : position' = [position EXCEPT ![d] = p]
  /\ UNCHANGED <<size, content, result>>

FNext ==
  \/ Truncate
  \/ \E d \in Description :
       \/ \E n \in 0..MaxCount : Read(d, n) \/ \E b \in Byte : Write(d, n, b) \/ TornWrite(d, n, b)
       \/ Seek(d)

FSpec == FInit /\ [][FNext]_fvars
===========================================================================
