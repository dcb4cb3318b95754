----------------------------- MODULE Allocator -----------------------------
(***************************************************************************)
(* What a heap of 2^MaxOrder pages promises: it hands out runs of 2^o      *)
(* pages at multiples of their size that share no page, and refuses only   *)
(* if there is no such run.                                                *)
(***************************************************************************)
EXTENDS Integers

CONSTANTS MaxOrder, NULL

VARIABLES
  blocks,        \* <<first page, order>> of each block handed out
  refused        \* the order the last request was refused, or NULL

Page == 0 .. 2^MaxOrder - 1
Run(p, o) == p .. p + 2^o - 1
Runs(o) == {p \in Page : p % 2^o = 0 /\ p + 2^o - 1 \in Page}
IsFree(p, o) == \A b \in blocks : Run(b[1], b[2]) \cap Run(p, o) = {}

Init == blocks = {} /\ refused = NULL

Alloc(o) ==
  /\ \E p \in Runs(o) : IsFree(p, o) /\ blocks' = blocks \cup {<<p, o>>}
  /\ refused' = NULL

Refuse(o) ==
  /\ refused' = o
  /\ \A p \in Runs(o) : ~IsFree(p, o)
  /\ UNCHANGED blocks

Free(b) == blocks' = blocks \ {b} /\ UNCHANGED refused

Next ==
  \/ blocks' # blocks /\ \E o \in 0 .. MaxOrder : Alloc(o)
  \/ \E o \in 0 .. MaxOrder + 1 : Refuse(o)
  \/ \E b \in blocks : Free(b)

Spec == Init /\ [][Next]_<<blocks, refused>>
============================================================================
