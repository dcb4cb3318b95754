----------------------------- MODULE MCPrograms -----------------------------
(* What programs live in, in one run: the scheduler and the process tree   *)
(* (Tasks), the console (Console) and the library they are linked with:    *)
(* malloc (UserHeap), buffered files (Stdio), numbers as text, also the    *)
(* kernel's (Numbers), and sorting (Sorting).  They share no state: a      *)
(* behaviour moves one of them and leaves the others at rest.              *)
EXTENDS MCTasks, MCConsole, UserHeap, Stdio, MCNumbers, Sorting

VARIABLE part

ConsoleAtRest ==
  KeyboardInit /\ inputs = 0 /\ user = "program" /\ editor = NewEditor /\ term = Fresh(FALSE)
NumbersAtRest == call = [name |-> "none"] /\ reply = <<>>
SortAtRest ==
  /\ input = <<>> /\ array = <<>> /\ phase = "idle" /\ start = 0 /\ end = 0 /\ root = NoRoot
  /\ key = NotFound /\ low = 0 /\ high = 0 /\ found = NotFound

ProgramsInit ==
  /\ part \in {"tasks", "console", "malloc", "stdio", "numbers", "qsort"}
  /\ Init /\ HeapInit /\ StdioInit
  /\ IF part = "console" THEN ConsoleInit ELSE ConsoleAtRest
  /\ IF part = "numbers" THEN NumbersInit ELSE NumbersAtRest
  /\ IF part = "qsort" THEN SortInit ELSE SortAtRest

library == <<uvars, svars, numberVars, sortVars>>

(* Tasks never stops, and deadlock is checked.  The other parts end: a     *)
(* bound is reached, a call has returned.                                  *)
AtEnd == part # "tasks" /\ UNCHANGED <<vars, cvars, library>>

ProgramsNext ==
  /\ UNCHANGED part
  /\ \/ part = "tasks"   /\ Next        /\ UNCHANGED <<cvars, library>>
     \/ part = "console" /\ ConsoleNext /\ UNCHANGED <<vars, library>>
     \/ part = "malloc"  /\ HeapNext    /\ UNCHANGED <<vars, cvars, svars, numberVars, sortVars>>
     \/ part = "stdio"   /\ StdioNext   /\ UNCHANGED <<vars, cvars, uvars, numberVars, sortVars>>
     \/ part = "numbers" /\ NumbersNext /\ UNCHANGED <<vars, cvars, uvars, svars, sortVars>>
     \/ part = "qsort"   /\ SortingNext /\ UNCHANGED <<vars, cvars, uvars, svars, numberVars>>
     \/ AtEnd

ProgramsSpec == ProgramsInit /\ [][ProgramsNext]_<<part, vars, cvars, library>>
=============================================================================
