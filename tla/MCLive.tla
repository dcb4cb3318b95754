------------------------------- MODULE MCLive -------------------------------
(* Liveness of the two schedulers: task.c (Tasks) and that of the ARM port *)
(* (ArmTasks).  A behaviour is of one of them; the other has stopped from  *)
(* the beginning, so that its fairness asks for nothing.                   *)
EXTENDS Tasks, ArmTasks

TasksStopped ==
  /\ state = [t \in Task |-> "FREE"] /\ waiting = [t \in Task |-> NULL]
  /\ next = [t \in Task |-> NULL] /\ prev = next
  /\ parent = next /\ children = [t \in Task |-> {}]
  /\ sleep_until = [t \in Task |-> 0] /\ pdir = {}
  /\ current_task = MainTask /\ init_task = FirstInit
  /\ dead_tasks = <<>> /\ task_count = 0 /\ fpu_owner = NULL /\ cr3 = NULL
  /\ ticks = 0 /\ cpu = "halted" /\ killing = <<>>

ArmStopped ==
  /\ tstate = [i \in Pid |-> "FREE"] /\ left = [i \in Pid |-> 0]
  /\ saved = [i \in Pid |-> NoContext]
  /\ current = 0 /\ bank = 0 /\ lr = 0 /\ ttbr0 = 0
  /\ quantum_counter = 0 /\ armed = FALSE /\ halted = TRUE

LiveInit == (Init /\ ArmStopped) \/ (ArmInit /\ TasksStopped)

LiveNext == (Next /\ UNCHANGED avars) \/ (ArmNext /\ UNCHANGED vars)

LiveSpec ==
  LiveInit /\ [][LiveNext]_<<vars, avars>> /\ Fairness /\ ArmFairness
=============================================================================
