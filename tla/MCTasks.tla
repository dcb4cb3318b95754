------------------------------ MODULE MCTasks ------------------------------
(* Small instances of Tasks for TLC.                                       *)
EXTENDS Tasks, TLC

(* The pages that only forked tasks use are alike.                         *)
ForkedTasks == Permutations(Task \ {MainTask, FirstInit})
============================================================================
