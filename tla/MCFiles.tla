------------------------------ MODULE MCFiles ------------------------------
(* Small instances of Files for TLC.                                       *)
EXTENDS Files, TLC

(* Heap blocks are alike, and so are the tasks that are forked.            *)
HeapBlocks == Permutations(OpenFile) \cup Permutations(Inode)
            \cup Permutations(Task \ {Root}) \cup Permutations(Name)
============================================================================
