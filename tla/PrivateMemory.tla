--------------------------- MODULE PrivateMemory ---------------------------
(***************************************************************************)
(* What the address spaces of Enclave promise: each task has its own        *)
(* memory.  A fork copies it, and after that no task sees what another      *)
(* writes.  CowMemory implements this module: see CowMemory!Isolation.      *)
(***************************************************************************)
CONSTANTS Task, Page, Value, Zero, None

VARIABLES owner,    \* the tasks that live
          memory    \* memory[t][p]; None where t has no area

pvars == <<owner, memory>>

Unmapped == [p \in Page |-> None]

PInit ==
  \E r \in Task : owner = {r} /\ memory = [t \in Task |-> Unmapped]

Map(t, p) ==
  /\ memory[t][p] = None
  /\ memory' = [memory EXCEPT ![t][p] = Zero]
  /\ UNCHANGED owner

Unmap(t, p) ==
  /\ memory' = [memory EXCEPT ![t][p] = None]
  /\ UNCHANGED owner

Store(t, p, v) ==
  /\ memory[t][p] # None
  /\ memory' = [memory EXCEPT ![t][p] = v]
  /\ UNCHANGED owner

Copy(t, c) ==
  /\ c \notin owner /\ owner' = owner \cup {c}
  /\ memory' = [memory EXCEPT ![c] = memory[t]]

End(D) ==
  /\ owner' = owner \ D
  /\ memory' = [t \in Task |-> IF t \in D THEN Unmapped ELSE memory[t]]

PNext ==
  \/ \E D \in SUBSET owner : End(D)
  \/ \E t \in owner :
       \/ \E c \in Task : Copy(t, c)
       \/ \E p \in Page : Map(t, p) \/ Unmap(t, p) \/ \E v \in Value : Store(t, p, v)

PSpec == PInit /\ [][PNext]_pvars
=============================================================================
