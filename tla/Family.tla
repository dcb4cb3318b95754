------------------------------- MODULE Family -------------------------------
(* The tasks that die with t: task_cleanup_children_on_exit of task.c kills *)
(* the children of a dying task first, and theirs before them.              *)

(* The least set of live tasks that holds t and the children of its members *)
Subtree(t, live, parent) ==
  {u \in live : \A S \in SUBSET live :
     (t \in S /\ \A c \in live : parent[c] \in S => c \in S) => u \in S}
=============================================================================
