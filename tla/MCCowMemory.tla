---------------------------- MODULE MCCowMemory ----------------------------
(* Small instances of CowMemory for TLC.                                   *)
EXTENDS CowMemory, TLC

(* Frames are alike, and so are the tasks that are forked.                 *)
Alike == Permutations(Frame) \cup Permutations(Task \ {Root})
============================================================================
