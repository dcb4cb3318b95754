------------------------------- MODULE Tasks -------------------------------
(***************************************************************************)
(* The x86 process lifecycle of src/task.c: the circular run queue, the    *)
(* process tree, the timer wake-ups, waitpid, the death of a task, the     *)
(* reaper and the respawn of Init.                                         *)
(*                                                                         *)
(* Every gate of the IDT is an interrupt gate, so a handler runs with IF   *)
(* clear from its entry to the iret: interrupts reach the CPU only while   *)
(* cpu = "user".  A handler that calls schedule() and the recursive        *)
(* clean-up of a dying task are cut into steps at the points named by      *)
(* cpu; nothing else can run between those steps.  (sys_open, sys_unlink   *)
(* and the console set IF early; they touch nothing of this module and are *)
(* in Files.)                                                              *)
(*                                                                         *)
(* A task is the page that holds its PCB.  A pid is not kept apart from    *)
(* it: waitpid searches only the caller's children, whose pages are not    *)
(* freed before they are reaped.  Both policy flags are constant: every    *)
(* task of the running system descends from Init by fork, which copies     *)
(* orphan_on_exit = 0 and monitor_children = 1.                            *)
(***************************************************************************)
EXTENDS Integers, Sequences, FiniteSets

CONSTANTS
  Task,       \* the pages a PCB can live in
  MainTask,   \* the boot thread, which becomes the idle loop
  FirstInit,  \* the Init that kernel_main creates
  Quantum,    \* a tick that is a multiple of it preempts (10 in task.c)
  TickMod,    \* tick_count wraps at TickMod (2^32 in timer.c)
  MaxSleep,   \* bound: the longest sleep a program asks for
  NULL, AnyPid  \* the null pointer; the pid -1 of waitpid

ASSUME TaskAssumption ==
  /\ IsFiniteSet(Task)
  /\ MainTask \in Task /\ FirstInit \in Task /\ MainTask # FirstInit
  /\ NULL \notin Task /\ AnyPid \notin Task /\ AnyPid # NULL

ASSUME TimeAssumption ==
  /\ Quantum \in Nat \ {0} /\ TickMod \in Nat \ {0} /\ MaxSleep \in Nat

VARIABLES
  state, next, prev,          \* PCB: state and run queue links
  parent, children,           \* PCB: process tree (a list, kept as a set)
  sleep_until, waiting,       \* PCB: deadline; the pid a waitpid is called with
  pdir,                       \* tasks that own a page directory
  current_task, init_task, dead_tasks, task_count, fpu_owner,   \* globals
  cr3,                        \* owner of the loaded directory, NULL for boot's
  ticks,                      \* tick_count of timer.c
  cpu,                        \* where current_task executes
  killing                     \* activations of task_cleanup_children_on_exit

ring == <<next, prev>>
tree == <<parent, children>>
time == <<sleep_until, ticks>>
vars == <<state, next, prev, parent, children, sleep_until, waiting, pdir,
          current_task, init_task, dead_tasks, task_count, fpu_owner, cr3,
          ticks, cpu, killing>>

Living == {"RUNNING", "READY", "SLEEPING"}
Queued == Living \cup {"ZOMBIE"}          \* the states of a task on the queue

-----------------------------------------------------------------------------
(* kernel_main has created Init and enters the idle loop.                  *)
Init ==
  LET other(x, y, z) == [t \in Task |-> IF t = MainTask THEN x
                                        ELSE IF t = FirstInit THEN y ELSE z]
  IN /\ state = other("RUNNING", "READY", "FREE")
     /\ next = other(FirstInit, MainTask, NULL)
     /\ prev = other(FirstInit, MainTask, NULL)
     /\ parent = other(NULL, MainTask, NULL)
     /\ children = other({FirstInit}, {}, {})
     /\ sleep_until = [t \in Task |-> 0]
     /\ waiting = [t \in Task |-> NULL]
     /\ pdir = {FirstInit}
     /\ current_task = MainTask /\ init_task = FirstInit
     /\ dead_tasks = <<>> /\ task_count = 2
     /\ fpu_owner = NULL /\ cr3 = NULL
     /\ ticks = 0 /\ cpu = "user" /\ killing = <<>>

(* tick_count and the deadlines are uint32_t.                              *)
Unwrapped(n) == n                             \* fault: a wider counter
Wrap(n) == n % TickMod

WideDeadline(ms) == ticks + ms                \* fault: the sum is not cut to 32 bits
Deadline(ms) == Wrap(ticks + ms)

(* A system call of the program that runs; idle makes none.                *)
Calls == cpu = "user" /\ current_task # MainTask

(* The unlinking of t, as task_cleanup_children_on_exit and task_exit do   *)
(* it: t is left linked to itself.  waitpid leaves t's own links alone.    *)
UnlinkForwards(t) ==                          \* fault: no update of prev
  /\ next' = [next EXCEPT ![prev[t]] = next[t], ![t] = t]
  /\ prev' = [prev EXCEPT ![t] = t]

Unlink(t) ==
  /\ next' = [next EXCEPT ![prev[t]] = next[t], ![t] = t]
  /\ prev' = [prev EXCEPT ![next[t]] = prev[t], ![t] = t]

UnlinkZombie(z) ==
  /\ next' = [next EXCEPT ![prev[z]] = next[z]]
  /\ prev' = [prev EXCEPT ![next[z]] = prev[z]]

(* task_queue_add: the new task comes right after the current one.         *)
task_queue_add(t) ==
  /\ next' = [next EXCEPT ![current_task] = t, ![t] = next[current_task]]
  /\ prev' = [[prev EXCEPT ![t] = current_task]
                EXCEPT ![next[current_task]] = t]

(* What a task gives back when it dies or takes a new image.               *)
KeepOwner(t) == fpu_owner                     \* fault: ownership not released
Release(t) == IF fpu_owner = t THEN NULL ELSE fpu_owner

Destroy(t) == pdir \ {t}

(* The list of dead tasks is linked by reaper_next, the newest first.      *)
Push(t) == dead_tasks' = <<t>> \o dead_tasks

-----------------------------------------------------------------------------
(* task_fork.  A fork that runs out of memory undoes what it did.          *)
Fork ==
  /\ Calls
  /\ \E c \in Task :
       /\ state[c] = "FREE"
       /\ state' = [state EXCEPT ![c] = "READY"]
       /\ parent' = [parent EXCEPT ![c] = current_task]
       /\ children' = [children EXCEPT ![current_task] = @ \cup {c}, ![c] = {}]
       /\ pdir' = pdir \cup {c}
       /\ task_queue_add(c)
       /\ task_count' = task_count + 1
  /\ UNCHANGED <<time, waiting, current_task, init_task, dead_tasks, fpu_owner,
                 cr3, cpu, killing>>

(* sys_exec, once the new image is loaded into a directory of its own: the *)
(* old directory goes while CR3 still holds it, ...                        *)
Exec ==
  /\ Calls
  /\ pdir' = Destroy(current_task)
  /\ cpu' = "exec"
  /\ UNCHANGED <<state, ring, tree, time, waiting, current_task, init_task,
                 dead_tasks, task_count, fpu_owner, cr3, killing>>

(* ... then the PCB and CR3 take the new one, and the FPU starts afresh.   *)
(* Without memory for the areas of stack and heap exec fails after that.   *)
ExecSwitch ==
  /\ cpu = "exec"
  /\ pdir' = pdir \cup {current_task} /\ cr3' = current_task
  /\ fpu_owner' = Release(current_task)
  /\ sleep_until' = [sleep_until EXCEPT ![current_task] = 0]
  /\ cpu' = "user"
  /\ UNCHANGED <<state, ring, tree, ticks, waiting, current_task, init_task,
                 dead_tasks, task_count, killing>>

(* The #NM trap: current_task takes the FPU over.                          *)
DeviceNotAvailable ==
  /\ Calls
  /\ fpu_owner # current_task /\ fpu_owner' = current_task
  /\ UNCHANGED <<state, ring, tree, time, waiting, pdir, current_task,
                 init_task, dead_tasks, task_count, cr3, cpu, killing>>

(* sys_yield, sys_sleep(0) and the polling of a console read.              *)
Yield ==
  /\ Calls
  /\ cpu' = "schedule"
  /\ UNCHANGED <<state, ring, tree, time, waiting, pdir, current_task,
                 init_task, dead_tasks, task_count, fpu_owner, cr3, killing>>

(* sys_sleep(ms): the deadline is a 32-bit sum.                            *)
Sleep(ms) ==
  /\ Calls
  /\ sleep_until' = [sleep_until EXCEPT ![current_task] = Deadline(ms)]
  /\ state' = [state EXCEPT ![current_task] = "SLEEPING"]
  /\ cpu' = "schedule"
  /\ UNCHANGED <<ring, tree, ticks, waiting, pdir, current_task, init_task,
                 dead_tasks, task_count, fpu_owner, cr3, killing>>

-----------------------------------------------------------------------------
(* task_waitpid.  The caller's own page stands for a pid no child has.     *)
ChildrenOf(t, pid) ==                         \* fault: the state is not tested
  {c \in children[t] : pid \in {AnyPid, c}}

Zombies(t, pid) ==
  {c \in children[t] : state[c] = "ZOMBIE" /\ pid \in {AnyPid, c}}

Reap(z) ==
  /\ children' = [children EXCEPT ![current_task] = @ \ {z}]
  /\ UnlinkZombie(z)
  /\ state' = [state EXCEPT ![z] = "DEAD"]
  /\ Push(z)
  /\ UNCHANGED <<parent, time, pdir, current_task, init_task, task_count,
                 fpu_owner, cr3, killing>>

WaitPid ==
  /\ Calls
  /\ \E pid \in children[current_task] \cup {AnyPid, current_task} :
       waiting' = [waiting EXCEPT ![current_task] = pid]
  /\ cpu' = "waitpid"
  /\ UNCHANGED <<state, ring, tree, time, pdir, current_task, init_task,
                 dead_tasks, task_count, fpu_owner, cr3, killing>>

(* With WNOHANG; when there is no zombie the call returns 0.               *)
WaitNoHang ==
  /\ Calls
  /\ \E pid \in children[current_task] \cup {AnyPid} :
       \E z \in Zombies(current_task, pid) : Reap(z)
  /\ UNCHANGED <<waiting, cpu>>

WaitReap ==
  /\ cpu = "waitpid"
  /\ \E z \in Zombies(current_task, waiting[current_task]) : Reap(z)
  /\ waiting' = [waiting EXCEPT ![current_task] = NULL]
  /\ cpu' = "user"

WaitBlock ==
  /\ cpu = "waitpid"
  /\ Zombies(current_task, waiting[current_task]) = {}
  /\ state' = [state EXCEPT ![current_task] = "SLEEPING"]
  /\ sleep_until' = [sleep_until EXCEPT ![current_task] = 0]
  /\ cpu' = "schedule"
  /\ UNCHANGED <<ring, tree, ticks, waiting, pdir, current_task, init_task,
                 dead_tasks, task_count, fpu_owner, cr3, killing>>

-----------------------------------------------------------------------------
(* task_exit and task_kill_current.  The kernel kills a task for a fault,  *)
(* also one taken in waitpid while it stores the status of a zombie.       *)
Die ==
  /\ \/ Calls
     \/ cpu = "waitpid" /\ Zombies(current_task, waiting[current_task]) # {}
  /\ fpu_owner' = Release(current_task)
  /\ waiting' = [waiting EXCEPT ![current_task] = NULL]
  /\ cpu' = "cleanup" /\ killing' = <<current_task>>
  /\ UNCHANGED <<state, ring, tree, time, pdir, current_task, init_task,
                 dead_tasks, task_count, cr3>>

(* task_cleanup_children_on_exit(p) for the innermost activation p.        *)
Victim == Head(killing)
Recurses(c) == state[c] # "ZOMBIE" /\ children[c] # {}

CleanupEnter ==
  /\ cpu = "cleanup" /\ killing # <<>>
  /\ \E c \in children[Victim] : Recurses(c) /\ killing' = <<c>> \o killing
  /\ UNCHANGED <<state, ring, tree, time, waiting, pdir, current_task,
                 init_task, dead_tasks, task_count, fpu_owner, cr3, cpu>>

CleanupKill ==
  /\ cpu = "cleanup" /\ killing # <<>>
  /\ \E c \in children[Victim] :
       /\ ~Recurses(c)
       /\ fpu_owner' = Release(c)
       /\ pdir' = Destroy(c)
       /\ state' = [state EXCEPT ![c] = "DEAD"]
       /\ waiting' = [waiting EXCEPT ![c] = NULL]
       /\ children' = [children EXCEPT ![Victim] = @ \ {c}]
       /\ Unlink(c)
       /\ Push(c)
  /\ UNCHANGED <<parent, time, current_task, init_task, task_count, cr3, cpu,
                 killing>>

CleanupReturn ==
  /\ cpu = "cleanup" /\ killing # <<>>
  /\ children[Victim] = {}
  /\ killing' = Tail(killing)
  /\ UNCHANGED <<state, ring, tree, time, waiting, pdir, current_task,
                 init_task, dead_tasks, task_count, fpu_owner, cr3, cpu>>

(* The rest of the exit.  First CR3 leaves the directory of the task, ...  *)
StayLoaded == cr3' = cr3                      \* fault: as before the fix "T5"
LoadBoot == cr3' = NULL

LeaveDirectory ==
  /\ cpu = "cleanup" /\ killing = <<>>
  /\ LoadBoot
  /\ cpu' = "leaving"
  /\ UNCHANGED <<state, ring, tree, time, waiting, pdir, current_task,
                 init_task, dead_tasks, task_count, fpu_owner, killing>>

(* ... then the directory goes, the parent is woken whatever it sleeps     *)
(* for, and Init, which nobody waits for, goes to the reaper at once.      *)
WakesNobody(p) == FALSE                       \* fault: no wake-up of the parent
Wakes(p) == p # NULL /\ state[p] = "SLEEPING"

BecomeZombie ==
  LET t == current_task
      p == parent[current_task]
      woken == IF Wakes(p) THEN {p} ELSE {}
      final == IF t = init_task THEN "DEAD" ELSE "ZOMBIE"
  IN /\ cpu = "leaving"
     /\ pdir' = Destroy(t)
     /\ state' = [u \in Task |-> IF u = t THEN final
                                 ELSE IF u \in woken THEN "READY" ELSE state[u]]
     /\ sleep_until' = [u \in Task |-> IF u \in woken THEN 0 ELSE sleep_until[u]]
     /\ IF t = init_task THEN Unlink(t) /\ Push(t)
                         ELSE UNCHANGED <<next, prev, dead_tasks>>
     /\ cpu' = "schedule"
     /\ UNCHANGED <<tree, ticks, waiting, current_task, init_task, task_count,
                    fpu_owner, cr3, killing>>

-----------------------------------------------------------------------------
(* schedule(): first the reaper, one task of the dead list at a time.      *)
Reaper ==
  /\ cpu = "schedule" /\ dead_tasks # <<>> /\ Head(dead_tasks) # init_task
  /\ LET d == Head(dead_tasks)
     IN /\ state' = [state EXCEPT ![d] = "FREE"]
        /\ next' = [next EXCEPT ![d] = NULL]
        /\ prev' = [prev EXCEPT ![d] = NULL]
        /\ parent' = [parent EXCEPT ![d] = NULL]
        /\ children' = [children EXCEPT ![d] = {}]
        /\ sleep_until' = [sleep_until EXCEPT ![d] = 0]
  /\ dead_tasks' = Tail(dead_tasks)
  /\ task_count' = task_count - 1
  /\ UNCHANGED <<ticks, waiting, pdir, current_task, init_task, fpu_owner, cr3,
                 cpu, killing>>

(* A dead Init: respawn_init_task creates its successor next to            *)
(* current_task, which is the dead Init itself; vmm_free_kernel_stack then *)
(* unmaps the stack the CPU stands on and the next push is a triple fault. *)
RespawnInit ==
  /\ cpu = "schedule" /\ dead_tasks # <<>> /\ Head(dead_tasks) = init_task
  /\ \E n \in Task :
       /\ state[n] = "FREE"
       /\ state' = [state EXCEPT ![n] = "READY"]
       /\ pdir' = pdir \cup {n}
       /\ task_queue_add(n)
       /\ init_task' = n
       /\ task_count' = task_count + 1
  /\ dead_tasks' = Tail(dead_tasks)
  /\ cpu' = "reset"
  /\ UNCHANGED <<tree, time, waiting, current_task, fpu_owner, cr3, killing>>

(* No memory for the new Init: `cli; hlt` for ever.                        *)
RespawnFails ==
  /\ cpu = "schedule" /\ dead_tasks # <<>> /\ Head(dead_tasks) = init_task
  /\ dead_tasks' = Tail(dead_tasks)
  /\ cpu' = "halted"
  /\ UNCHANGED <<state, ring, tree, time, waiting, pdir, current_task,
                 init_task, task_count, fpu_owner, cr3, killing>>

(* Then the choice: n is the first task after current_task along next that *)
(* is neither asleep nor dying; S is what the walk skips.                  *)
Runnable(t) == state[t] \notin {"SLEEPING", "ZOMBIE", "DEAD"}

NextRunnable(n) ==
  /\ n # current_task /\ Runnable(n)
  /\ \E S \in SUBSET {t \in Task \ {current_task} : ~Runnable(t)} :
       \A t \in S \cup {current_task} : next[t] \in S \cup {n}

Resumes(n) == IF waiting[n] # NULL THEN "waitpid" ELSE "user"

Switch ==
  /\ cpu = "schedule" /\ dead_tasks = <<>>
  /\ \E n \in Task :
       /\ NextRunnable(n)
       /\ state' = [t \in Task |->
            IF t = n THEN "RUNNING"
            ELSE IF t = current_task /\ state[t] = "RUNNING" THEN "READY"
            ELSE state[t]]
       /\ current_task' = n
       /\ cr3' = IF n \in pdir THEN n ELSE NULL
       /\ cpu' = Resumes(n)
  /\ UNCHANGED <<ring, tree, time, waiting, pdir, init_task, dead_tasks,
                 task_count, fpu_owner, killing>>

(* No other task can run: a running task goes on.                          *)
Continue ==
  /\ cpu = "schedule" /\ dead_tasks = <<>>
  /\ \A n \in Task : ~NextRunnable(n)
  /\ state[current_task] = "RUNNING"
  /\ cpu' = Resumes(current_task)
  /\ UNCHANGED <<state, ring, tree, time, waiting, pdir, current_task,
                 init_task, dead_tasks, task_count, fpu_owner, cr3, killing>>

-----------------------------------------------------------------------------
(* IRQ0: pit_handler, then task_timer_tick: wake_sleepers, preemption.     *)
Due(t, now) ==
  state[t] = "SLEEPING" /\ sleep_until[t] > 0 /\ now >= sleep_until[t]

Cooperates(now) == FALSE                      \* fault: no preemption
Preempts(now) == now % Quantum = 0

Tick ==
  LET now == Wrap(ticks + 1)
      due == {t \in Task : Due(t, now)}
  IN /\ cpu = "user"
     /\ ticks' = now
     /\ state' = [t \in Task |-> IF t \in due THEN "READY" ELSE state[t]]
     /\ sleep_until' = [t \in Task |-> IF t \in due THEN 0 ELSE sleep_until[t]]
     /\ cpu' = IF Preempts(now) THEN "schedule" ELSE "user"
     /\ UNCHANGED <<ring, tree, waiting, pdir, current_task, init_task,
                    dead_tasks, task_count, fpu_owner, cr3, killing>>

(* A triple fault stops this run of the kernel: the machine starts again   *)
(* in Init.  `cli; hlt` stops it as well.                                  *)
Stopped == cpu \in {"reset", "halted"} /\ UNCHANGED vars

-----------------------------------------------------------------------------
UserStep ==
  \/ Fork \/ Exec \/ DeviceNotAvailable \/ Yield \/ WaitPid \/ WaitNoHang \/ Die
  \/ \E ms \in 1..MaxSleep : Sleep(ms)

KernelStep ==
  \/ ExecSwitch \/ WaitReap \/ WaitBlock
  \/ CleanupEnter \/ CleanupKill \/ CleanupReturn \/ LeaveDirectory \/ BecomeZombie
  \/ Reaper \/ RespawnInit \/ RespawnFails \/ Switch \/ Continue

Next == UserStep \/ KernelStep \/ Tick \/ Stopped

Spec == Init /\ [][Next]_vars

(* The code of the kernel runs once it is entered.  The PIC latches a timer *)
(* interrupt that meets IF = 0, so a tick is taken whenever IF is set again *)
(* and again, even if never for long: strong fairness.                      *)
Fairness == WF_vars(KernelStep) /\ SF_vars(Tick)

FairSpec == Spec /\ Fairness

-----------------------------------------------------------------------------
TypeOK ==
  /\ state \in [Task -> Queued \cup {"DEAD", "FREE"}]
  /\ next \in [Task -> Task \cup {NULL}] /\ prev \in [Task -> Task \cup {NULL}]
  /\ parent \in [Task -> Task \cup {NULL}]
  /\ children \in [Task -> SUBSET Task]
  /\ sleep_until \in [Task -> 0..TickMod - 1]
  /\ waiting \in [Task -> Task \cup {NULL, AnyPid}]
  /\ pdir \in SUBSET Task
  /\ current_task \in Task /\ init_task \in Task
  /\ dead_tasks \in Seq(Task) /\ task_count \in Int
  /\ fpu_owner \in Task \cup {NULL} /\ cr3 \in Task \cup {NULL}
  /\ ticks \in 0..TickMod - 1
  /\ cpu \in {"user", "exec", "waitpid", "cleanup", "leaving", "schedule", "reset", "halted"}
  /\ killing \in Seq(Task)

(* The kernel is up: Init has not begun to die.  From there on the machine  *)
(* is lost (see RespawnInit), so what follows is said of a kernel that is   *)
(* up.                                                                      *)
Up == state[current_task] # "DEAD"

OnQueue == {t \in Task : state[t] \in Queued}

(* task_queue_add, waitpid and the clean-up all edit the run queue: it      *)
(* stays one doubly linked cycle that holds exactly the tasks that are      *)
(* runnable, asleep or zombies, so that a walk along next from any of them  *)
(* meets each of them, and never a page that was handed to the reaper.      *)
RunQueueIsOneCycle ==
  Up =>
    /\ \A t \in OnQueue : /\ next[t] \in OnQueue /\ prev[next[t]] = t
                          /\ prev[t] \in OnQueue /\ next[prev[t]] = t
    /\ \A S \in SUBSET OnQueue :
         S # {} /\ (\A t \in S : next[t] \in S) => S = OnQueue

(* schedule() and switch_context keep the mark RUNNING on the task that     *)
(* executes and on no other, whatever woke, died or was preempted.          *)
OnlyCurrentRuns ==
  /\ \A t \in Task : state[t] = "RUNNING" => t = current_task
  /\ cpu \in {"user", "exec", "waitpid"} => state[current_task] = "RUNNING"

(* Every page is accounted for: the reaper list holds each dead task once   *)
(* (waitpid, the clean-up and the exit of Init hand no page in twice, and   *)
(* forget none), and task_count is the number of pages in use.              *)
PagesAreAccountedFor ==
  /\ \A i, j \in DOMAIN dead_tasks : dead_tasks[i] = dead_tasks[j] => i = j
  /\ cpu \notin {"reset", "halted"} =>
       /\ {t \in Task : state[t] = "DEAD"} =
            {dead_tasks[i] : i \in DOMAIN dead_tasks}
       /\ task_count = Cardinality({t \in Task : state[t] # "FREE"})

(* No pointer the kernel follows leads to a page that was freed, or that    *)
(* the reaper is about to free: the queue, the tree, fpu_owner (saved into  *)
(* by the next #NM), init_task and current_task.                            *)
NoDanglingTask ==
  LET gone(t) == t # NULL /\ state[t] \in {"DEAD", "FREE"}
  IN Up => /\ ~gone(current_task) /\ ~gone(init_task) /\ ~gone(fpu_owner)
           /\ \A t \in OnQueue : ~gone(next[t]) /\ ~gone(prev[t]) /\ ~gone(parent[t])

(* A task gives up its page directory exactly when it stops living, and CR3 *)
(* holds one that exists: whoever dies, is killed or reaped, and whatever   *)
(* runs next.  Only exec has destroyed the one that is loaded, between its  *)
(* two steps: syscall.c:182 and :187, against task.c:694-697, which asks    *)
(* that CR3 be switched first.                                              *)
Replaces(t) == cpu = "exec" /\ t = current_task

AddressSpaceFollowsLife ==
  Up => /\ pdir = {t \in Task \ {MainTask} : state[t] \in Living /\ ~Replaces(t)}
        /\ cr3 # NULL => cr3 \in pdir \/ Replaces(cr3)

(* A task asleep in waitpid has no zombie to collect: the check for a       *)
(* zombie and the falling asleep are not split by the child's exit, and a   *)
(* later exit wakes the sleeper.                                            *)
NoLostWakeup ==
  \A t \in Task : state[t] = "SLEEPING" /\ waiting[t] # NULL =>
                    Zombies(t, waiting[t]) = {}

(* idle is always there to be scheduled, so that schedule() never reaches   *)
(* its own `sti; hlt` with a current task that cannot go on.                *)
SchedulerFindsATask ==
  Up /\ cpu = "schedule" =>
    \/ state[current_task] = "RUNNING"
    \/ \E n \in Task : NextRunnable(n)

-----------------------------------------------------------------------------
(* The process tree as programs see it, and the specification it meets.     *)
status == [t \in Task |-> CASE state[t] \in Living -> "alive"
                            [] state[t] = "ZOMBIE" -> "zombie"
                            [] state[t] = "DEAD" -> "dead"
                            [] OTHER -> "free"]

Tree == INSTANCE Supervision
          WITH Process <- Task, Kernel <- MainTask, FirstRoot <- FirstInit,
               None <- NULL, status <- status, supervisor <- parent

(* task.c keeps the promises of Supervision: no task outlives its parent,   *)
(* a zombie waits for its parent and for nobody else, and the subtree of a  *)
(* dying task goes leaves first.                                            *)
Lifecycle == Tree!SSpec

(* Liveness.  A kernel that has stopped promises nothing.                   *)
HasStopped == cpu \in {"reset", "halted"}

(* Round robin starves nobody: new tasks are queued behind the one that     *)
(* runs, in front of those that have waited longer, and still a task that   *)
(* is ready gets the CPU (or is killed with its parent).                    *)
ReadyTaskRuns ==
  \A t \in Task : state[t] = "READY" ~> (state[t] # "READY" \/ HasStopped)

(* A waitpid whose child is a zombie returns, or its caller dies.           *)
WaitReturns ==
  \A t \in Task :
    (waiting[t] # NULL /\ Zombies(t, waiting[t]) # {})
      ~> (waiting[t] = NULL \/ HasStopped)

(* A sleep with a deadline ends, also when the deadline or tick_count wraps *)
(* on the way.  A deadline of 0 is none (task.h:76): whoever calls sys_sleep *)
(* at the tick before a wrap sleeps for ever.                               *)
SleepEnds ==
  \A t \in Task :
    (state[t] = "SLEEPING" /\ sleep_until[t] > 0)
      ~> (state[t] # "SLEEPING" \/ HasStopped)

(* What the repository says of the program and the code does not do.        *)

(* docs: "Reaper restarts PID 1"; the kernel survives the death of Init.    *)
KernelSurvivesInit == cpu # "reset"

(* The memory of a task goes with its life: its PCB page by way of the      *)
(* reaper list or waitpid, its page directory when it dies.                 *)
MemoryFollowsLife == PagesAreAccountedFor /\ AddressSpaceFollowsLife

(* The scheduler can go on: the queue is whole, only the current task is    *)
(* marked as running, no sleeper has missed its wake-up, and schedule()     *)
(* finds somebody.                                                          *)
QueueIsSound ==
  RunQueueIsOneCycle /\ OnlyCurrentRuns /\ NoLostWakeup /\ SchedulerFindsATask
=============================================================================
