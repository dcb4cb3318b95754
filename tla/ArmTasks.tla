------------------------------ MODULE ArmTasks ------------------------------
(***************************************************************************)
(* The ARM port's scheduler (arch/arm/arm_main.c), driven by exceptions:   *)
(* system calls, user faults and the timer (arm_vectors.S, arm_syscall.c,  *)
(* arm_irq.c, arm_timer.c).  Every handler runs with IRQ disabled, from    *)
(* its entry stub to the return of whichever task schedule chose, so a     *)
(* handler is one step.  Task 0 is idle, on the stack and the translation  *)
(* table of the boot.                                                      *)
(*                                                                         *)
(* What a task must find again when it runs is in three places: the user   *)
(* frame on its kernel stack, SP_usr and LR_usr, of which the CPU has one  *)
(* pair for all tasks, and TTBR0.  bank names the task whose stack is in   *)
(* SP_usr, lr the one whose return address is in LR_usr, ttbr0 the one     *)
(* whose table is active.  The user spaces are taken to exist:             *)
(* arm_kernel_main does not look whether loading failed.                   *)
(***************************************************************************)
EXTENDS Integers

CONSTANTS Users,           \* number of user tasks: num_tasks - 1
          ArmQuantum,         \* QUANTUM_TICKS, 10
          ArmMaxSleep         \* (bound) the longest sleep, in ticks

ArmAssumption == Users \in Nat /\ ArmQuantum \in Nat \ {0} /\ ArmMaxSleep \in Nat
ASSUME ArmAssumption

NumTasks == Users + 1
Pid == 0 .. Users
NoContext == NumTasks                          \* sp = 0
Fresh == NumTasks + 1                          \* the forged stack of a new task
StackAddress == NumTasks                       \* in LR_usr: not a return address

VARIABLES
  tstate,                  \* tasks[i].state: "FREE", "READY", "RUNNING" or "SLEEPING"
  left,                    \* tasks[i].wakeup_tick - tick_count, while it sleeps
  saved,                   \* tasks[i].sp: NoContext, Fresh, or whose SP_usr its frame holds
  current,                 \* current_task
  bank, lr, ttbr0,
  quantum_counter,
  armed,                   \* the timer's compare register lies ahead
  halted                   \* for (;;) hal_halt()

avars == <<tstate, left, saved, current, bank, lr, ttbr0, quantum_counter, armed, halted>>

(* arm_kernel_main: idle runs, the user tasks have forged stacks.          *)
ArmInit ==
  /\ tstate = [i \in Pid |-> IF i = 0 THEN "RUNNING" ELSE "READY"]
  /\ left = [i \in Pid |-> 0]
  /\ saved = [i \in Pid |-> IF i = 0 THEN NoContext ELSE Fresh]
  /\ current = 0 /\ bank = 0 /\ lr = 0 /\ ttbr0 = 0
  /\ quantum_counter = 0 /\ armed = TRUE /\ halted = FALSE

(* The round robin: the first READY task behind the current one, which is  *)
(* the last candidate; NumTasks if there is none.                          *)
FromZero(s) ==                                 \* fault: the search starts at task 0
  IF \E i \in Pid : s[i] = "READY"
  THEN CHOOSE i \in Pid : s[i] = "READY" /\ \A j \in 0 .. i - 1 : s[j] # "READY"
  ELSE NumTasks
Candidate(s) ==
  LET distance(i) == (i - current - 1) % NumTasks
  IN IF \E i \in Pid : s[i] = "READY"
     THEN CHOOSE i \in Pid : /\ s[i] = "READY"
                             /\ \A j \in Pid : s[j] = "READY" => distance(i) <= distance(j)
     ELSE NumTasks

(* What schedule turns the states s into, and the task it returns to.      *)
PutBack(s) == IF s[current] = "RUNNING" THEN [s EXCEPT ![current] = "READY"] ELSE s
Chosen(s) ==
  LET next == Candidate(PutBack(s))
  IN IF next # NumTasks THEN next
     ELSE IF current # 0 /\ s[0] \notin {"FREE", "SLEEPING"} THEN 0
     ELSE current

(* The return to user mode.  A frame holds the SP_usr it was saved with; a *)
(* task that never ran gets its own in arm_enter_user_first; idle returns  *)
(* to kernel mode and leaves the pair alone.                               *)
NotRestored(context, i) == bank                \* fault: SP_usr stays as it is
Restored(context, i) ==
  IF i = 0 THEN bank ELSE IF context = Fresh THEN i ELSE context

(* LR_usr: the closing ldmia of the stubs loads it from the word behind    *)
(* r12, where the frame holds SP_usr; the first entry leaves it alone.     *)
LinkAfter(context, i) ==
  IF i = 0 \/ context = Fresh THEN lr ELSE StackAddress

(* schedule and arm_context_switch.  frame is the SP_usr in the frame of   *)
(* the current task; a FREE task leaves one too, for nobody.               *)
schedule(s) ==
  LET next == Chosen(s)
  IN IF next = current
     THEN /\ tstate' = [PutBack(s) EXCEPT
                         ![next] = IF @ = "READY" THEN "RUNNING" ELSE @]
          /\ lr' = LinkAfter(bank, current)
          /\ UNCHANGED <<saved, current, bank, ttbr0, halted>>
     ELSE IF saved[next] = NoContext
     THEN /\ halted' = TRUE                    \* "target sp == 0"
          /\ tstate' = PutBack(s) /\ UNCHANGED <<saved, current, bank, lr, ttbr0>>
     ELSE /\ tstate' = [PutBack(s) EXCEPT ![next] = "RUNNING"]
          /\ saved' = [saved EXCEPT ![current] = IF current = 0 THEN 0 ELSE bank]
          /\ current' = next /\ ttbr0' = next
          /\ bank' = Restored(saved[next], next) /\ lr' = LinkAfter(saved[next], next)
          /\ UNCHANGED halted

InUser == ~halted /\ current # 0 /\ tstate[current] = "RUNNING"
TimerStill == UNCHANGED <<quantum_counter, armed>>

-----------------------------------------------------------------------------
(* The program calls a function of its own (bl).                           *)
UserCall ==
  /\ InUser
  /\ lr' = current
  /\ UNCHANGED <<tstate, left, saved, current, bank, ttbr0, halted>> /\ TimerStill

(* System calls (svc #0).                                                  *)
arm_yield == InUser /\ schedule(tstate) /\ UNCHANGED left /\ TimerStill

arm_sleep(ms) ==
  /\ InUser
  /\ IF ms = 0
     THEN /\ lr' = LinkAfter(bank, current)
          /\ UNCHANGED <<tstate, left, saved, current, bank, ttbr0, halted>> /\ TimerStill
     ELSE /\ left' = [left EXCEPT ![current] = ms]
          /\ schedule([tstate EXCEPT ![current] = "SLEEPING"]) /\ TimerStill

(* The current task dies; idle is made READY, in case nobody else is.      *)
Dies ==
  schedule([tstate EXCEPT ![current] = "FREE", ![0] = IF @ = "RUNNING" THEN @ ELSE "READY"])

TaskExit == InUser /\ Dies /\ UNCHANGED left /\ TimerStill

(* sys_write copies from the buffer of the user, in kernel mode: a fault   *)
(* there is one of the kernel, which halts.                                *)
Outcome == {"printed", "refused", "faults"}
WriteOut(outcome) ==
  /\ InUser /\ halted' = (outcome = "faults")
  /\ lr' = LinkAfter(bank, current)
  /\ UNCHANGED <<tstate, left, saved, current, bank, ttbr0>> /\ TimerStill

(* UNDEF, PABT or DABT in user mode: the task is killed.                   *)
UserFault == InUser /\ Dies /\ UNCHANGED left /\ TimerStill

-----------------------------------------------------------------------------
(* The timer: the interrupt comes in user mode or in the idle loop, the    *)
(* only code that runs with IRQ enabled.  The handler sets the next        *)
(* compare value, wakes the sleepers and, when the quantum is over, calls  *)
(* schedule.                                                               *)
Rearmed == TRUE

Woken ==                                       \* arm_task_check_wakeup
  [i \in Pid |-> IF tstate[i] = "SLEEPING" /\ left[i] <= 1 THEN "READY" ELSE tstate[i]]

Interrupted == armed /\ ~halted

arm_timer_tick ==
  /\ Interrupted
  /\ armed' = Rearmed
  /\ left' = [i \in Pid |-> IF left[i] > 0 THEN left[i] - 1 ELSE 0]
  /\ IF quantum_counter + 1 >= ArmQuantum
     THEN quantum_counter' = 0 /\ schedule(Woken)
     ELSE /\ quantum_counter' = quantum_counter + 1 /\ tstate' = Woken
          /\ lr' = LinkAfter(bank, current)
          /\ UNCHANGED <<saved, current, bank, ttbr0, halted>>

ArmNext ==
  \/ UserCall \/ arm_yield \/ TaskExit \/ UserFault \/ arm_timer_tick
  \/ \E ms \in 0 .. ArmMaxSleep : arm_sleep(ms)
  \/ \E o \in Outcome : WriteOut(o)

ArmFairness == WF_avars(arm_timer_tick)
ArmSpec == ArmInit /\ [][ArmNext]_avars /\ ArmFairness

-----------------------------------------------------------------------------
(* One task runs, the current one, and idle can always take over: no call, *)
(* fault or tick leaves the CPU to nobody or to two (arm_main.c:160).      *)
OneTaskRuns ==
  ~halted => /\ \A i \in Pid : tstate[i] = "RUNNING" <=> i = current
             /\ tstate[0] \in {"READY", "RUNNING"}

(* The running task has its own stack pointer and address space, and a task*)
(* that waits will: what is saved for it is its own, never that of the     *)
(* task that ran when it lost the CPU (arm_vectors.S:380).                 *)
OwnContext ==
  /\ ttbr0 = current
  /\ current # 0 => bank = current
  /\ \A i \in Pid \ {0, current} :
       tstate[i] # "FREE" => saved[i] \in {Fresh, i}
  /\ current # 0 => saved[0] # NoContext

(* While the kernel lives, whoever is ready gets to run, whoever sleeps    *)
(* wakes up: a task that never yields loses the CPU when its quantum is    *)
(* over (arm_timer.c:160).                                                 *)
EveryoneRuns ==
  \A i \in Pid : /\ tstate[i] = "READY" ~> (tstate[i] = "RUNNING" \/ halted)
                 /\ tstate[i] = "SLEEPING" ~> (tstate[i] = "READY" \/ tstate[i] = "RUNNING" \/ halted)

(* A program that is interrupted, or that makes a system call, and goes on *)
(* finds LR_usr as it left it (os-os.txt:2156, arm_vectors.S:192).         *)
LinkIsKept ==
  [][InUser /\ lr = current /\ InUser' /\ current' = current => lr' = lr]_avars

(* What the context switches of the ARM port must keep: one task has the   *)
(* CPU, on its own registers and in its own address space.                 *)
ContextsAreKept == OneTaskRuns /\ OwnContext
=============================================================================
