---------------------------- MODULE TasksProofs ----------------------------
(* Theorems about Tasks, for every number of pages and every clock width.  *)
EXTENDS Tasks, FiniteSetTheorems, TLAPS

(***************************************************************************)
(* Sequences used as stacks.                                               *)
(***************************************************************************)

(* The reaper list after a push: the new task, then the old list.          *)
LEMMA PushFacts ==
  ASSUME NEW S, NEW s \in Seq(S), NEW t \in S
  PROVE  LET p == <<t>> \o s
         IN /\ p \in Seq(S) /\ Len(p) = Len(s) + 1 /\ p # <<>>
            /\ Head(p) = t /\ p[1] = t
            /\ \A i \in 1..Len(s) : p[i + 1] = s[i]
            /\ \A i \in 2..Len(p) : p[i] = s[i - 1]
OBVIOUS

(* The reaper list after a removal: the entries move up by one.            *)
LEMMA PopFacts ==
  ASSUME NEW S, NEW s \in Seq(S), s # <<>>
  PROVE  /\ Head(s) = s[1] /\ s[1] \in S /\ Len(s) \in Nat /\ Len(s) >= 1
         /\ Tail(s) \in Seq(S) /\ Len(Tail(s)) = Len(s) - 1
         /\ \A i \in 1..Len(s) - 1 : Tail(s)[i] = s[i + 1]
OBVIOUS

-----------------------------------------------------------------------------
(* A step leaves every variable in its type.                               *)
LEMMA WrapType == \A n \in Int : Wrap(n) \in 0..TickMod - 1
  BY TimeAssumption DEF Wrap

(* The first state of the kernel is of the types.                          *)
LEMMA TypeInit == Init => TypeOK
  BY TaskAssumption, TimeAssumption DEF Init, TypeOK, Queued, Living

USE DEF ring, tree, time

(* What a running program does keeps the types.                            *)
LEMMA TypeUser ==
  TypeOK /\ UserStep => TypeOK'
<1> SUFFICES ASSUME TypeOK, UserStep PROVE TypeOK'
  OBVIOUS
<1> USE TaskAssumption DEF TypeOK, Queued, Living, Calls
<1>1. CASE Fork
  <2>1. PICK c \in Task :
          /\ state' = [state EXCEPT ![c] = "READY"]
          /\ parent' = [parent EXCEPT ![c] = current_task]
          /\ children' = [children EXCEPT ![current_task] = @ \cup {c}, ![c] = {}]
          /\ pdir' = pdir \cup {c}
          /\ task_queue_add(c)
    BY <1>1 DEF Fork
  <2>2. next' \in [Task -> Task \cup {NULL}] /\ prev' \in [Task -> Task \cup {NULL}]
    BY <2>1 DEF task_queue_add
  <2>3. children' \in [Task -> SUBSET Task]
    BY <2>1
  <2>4. state' \in [Task -> Queued \cup {"DEAD", "FREE"}]
    BY <2>1
  <2>5. parent' \in [Task -> Task \cup {NULL}] /\ pdir' \in SUBSET Task
    BY <2>1
  <2>6. task_count' \in Int
    BY <1>1 DEF Fork
  <2>7. UNCHANGED <<sleep_until, waiting, current_task, init_task, dead_tasks, fpu_owner,
                    cr3, ticks, cpu, killing>>
    BY <1>1 DEF Fork
  <2>8. QED
    BY <2>2, <2>3, <2>4, <2>5, <2>6, <2>7
<1>2a. CASE Exec
  BY <1>2a DEF Exec, Destroy
<1>2b. CASE DeviceNotAvailable
  BY <1>2b DEF DeviceNotAvailable
<1>2c. CASE Yield
  BY <1>2c DEF Yield
<1>2. CASE WaitPid
  BY <1>2 DEF WaitPid
<1>3. CASE WaitNoHang
  <2>1. PICK z \in Task : Reap(z)
    BY <1>3 DEF WaitNoHang, Zombies
  <2>2. dead_tasks' \in Seq(Task)
    BY <2>1, PushFacts DEF Reap, Push
  <2>3. QED
    BY <1>3, <2>1, <2>2 DEF WaitNoHang, Reap, UnlinkZombie
<1>4. CASE Die
  <2>1. killing' \in Seq(Task)
    BY <1>4 DEF Die
  <2>2. QED
    BY <1>4, <2>1 DEF Die, Release
<1>5. ASSUME NEW ms \in 1..MaxSleep, Sleep(ms) PROVE TypeOK'
  <2>1. ticks + ms \in Int
    BY TimeAssumption
  <2>2. Wrap(ticks + ms) \in 0..TickMod - 1
    BY <2>1, WrapType
  <2>3. QED
    BY <1>5, <2>2 DEF Sleep, Deadline
<1>6. QED
  BY <1>1, <1>2a, <1>2b, <1>2c, <1>2, <1>3, <1>4, <1>5 DEF UserStep

(* Unlinking leaves links.                                                 *)
LEMMA UnlinkType ==
  ASSUME TypeOK, NEW t \in Task, Unlink(t)
  PROVE  next' \in [Task -> Task \cup {NULL}] /\ prev' \in [Task -> Task \cup {NULL}]
BY DEF TypeOK, Unlink

(* The steps inside the kernel keep the types.                             *)
LEMMA TypeKernel ==
  TypeOK /\ KernelStep => TypeOK'
<1> SUFFICES ASSUME TypeOK, KernelStep PROVE TypeOK'
  OBVIOUS
<1> USE TaskAssumption DEF TypeOK, Queued, Living
<1>1. CASE WaitReap
  <2>1. PICK z \in Task : Reap(z)
    BY <1>1 DEF WaitReap, Zombies
  <2>2. dead_tasks' \in Seq(Task)
    BY <2>1, PushFacts DEF Reap, Push
  <2>3. QED
    BY <1>1, <2>1, <2>2 DEF WaitReap, Reap, UnlinkZombie
<1>2. CASE WaitBlock
  BY <1>2, TimeAssumption DEF WaitBlock
<1>3. CASE CleanupEnter
  <2>0. Victim \in Task
    BY <1>3, PopFacts DEF CleanupEnter, Victim
  <2>1. PICK c \in Task : killing' = <<c>> \o killing
    BY <1>3, <2>0 DEF CleanupEnter
  <2>2. killing' \in Seq(Task)
    BY <2>1, PushFacts
  <2>3. QED
    BY <1>3, <2>2 DEF CleanupEnter
<1>4. CASE CleanupKill
  <2>1. Victim \in Task
    BY <1>4, PopFacts DEF CleanupKill, Victim
  <2>2. PICK c \in Task :
          /\ fpu_owner' = Release(c) /\ pdir' = Destroy(c)
          /\ state' = [state EXCEPT ![c] = "DEAD"]
          /\ waiting' = [waiting EXCEPT ![c] = NULL]
          /\ children' = [children EXCEPT ![Victim] = @ \ {c}]
          /\ Unlink(c) /\ Push(c)
    BY <1>4, <2>1 DEF CleanupKill
  <2>3. dead_tasks' \in Seq(Task)
    BY <2>2, PushFacts DEF Push
  <2>4. next' \in [Task -> Task \cup {NULL}] /\ prev' \in [Task -> Task \cup {NULL}]
    BY <2>2, UnlinkType
  <2>5. children' \in [Task -> SUBSET Task]
    BY <2>1, <2>2
  <2>6. QED
    BY <1>4, <2>2, <2>3, <2>4, <2>5 DEF CleanupKill, Release, Destroy
<1>5. CASE CleanupReturn
  BY <1>5, PopFacts DEF CleanupReturn
<1>6. CASE BecomeZombie
  <2>0. \/ Unlink(current_task) /\ Push(current_task)
        \/ next' = next /\ prev' = prev /\ dead_tasks' = dead_tasks
    BY <1>6 DEF BecomeZombie
  <2>1. dead_tasks' \in Seq(Task)
    <3>1. Push(current_task) => dead_tasks' \in Seq(Task)
      BY PushFacts DEF Push
    <3>2. QED
      BY <2>0, <3>1
  <2>2. next' \in [Task -> Task \cup {NULL}] /\ prev' \in [Task -> Task \cup {NULL}]
    BY <2>0, UnlinkType
  <2>3. sleep_until' \in [Task -> 0..TickMod - 1]
    BY <1>6, TimeAssumption DEF BecomeZombie
  <2>4. state' \in [Task -> Queued \cup {"DEAD", "FREE"}]
    BY <1>6 DEF BecomeZombie
  <2>5. QED
    BY <1>6, <2>1, <2>2, <2>3, <2>4 DEF BecomeZombie, Destroy
<1>7. CASE Reaper
  <2>1. Head(dead_tasks) \in Task /\ dead_tasks' \in Seq(Task)
    BY <1>7, PopFacts DEF Reaper
  <2>2. QED
    BY <1>7, <2>1, TimeAssumption DEF Reaper
<1>8. CASE RespawnInit
  <2>1. dead_tasks' \in Seq(Task)
    BY <1>8, PopFacts DEF RespawnInit
  <2>2. PICK n \in Task :
          /\ state' = [state EXCEPT ![n] = "READY"]
          /\ pdir' = pdir \cup {n} /\ task_queue_add(n) /\ init_task' = n
          /\ task_count' = task_count + 1
    BY <1>8 DEF RespawnInit
  <2>3. next' \in [Task -> Task \cup {NULL}] /\ prev' \in [Task -> Task \cup {NULL}]
    BY <2>2 DEF task_queue_add
  <2>4. state' \in [Task -> Queued \cup {"DEAD", "FREE"}] /\ pdir' \in SUBSET Task
    BY <2>2
  <2>5. QED
    BY <1>8, <2>1, <2>2, <2>3, <2>4 DEF RespawnInit
<1>9. CASE RespawnFails
  BY <1>9, PopFacts DEF RespawnFails
<1>10. CASE Switch
  BY <1>10 DEF Switch, Resumes
<1>11. CASE Continue
  BY <1>11 DEF Continue, Resumes
<1>12. CASE ExecSwitch
  BY <1>12, TimeAssumption DEF ExecSwitch, Release
<1>13. CASE LeaveDirectory
  BY <1>13 DEF LeaveDirectory, LoadBoot
<1>14. QED
  BY <1>1, <1>2, <1>3, <1>4, <1>5, <1>6, <1>7, <1>8, <1>9, <1>10, <1>11, <1>12, <1>13
     DEF KernelStep

(* Every step keeps the types.                                             *)
LEMMA TypeStep == TypeOK /\ [Next]_vars => TypeOK'
<1> SUFFICES ASSUME TypeOK, [Next]_vars PROVE TypeOK'
  OBVIOUS
<1>1. CASE Tick
  <2>0. ticks + 1 \in Int
    BY TimeAssumption DEF TypeOK
  <2>1. Wrap(ticks + 1) \in 0..TickMod - 1
    BY <2>0, WrapType, TimeAssumption DEF TypeOK
  <2>2. QED
    BY <1>1, <2>1, TimeAssumption DEF Tick, TypeOK, Queued, Living
<1>2. CASE Stopped \/ UNCHANGED vars
  BY <1>2 DEF Stopped, vars, TypeOK
<1>3. QED
  BY <1>1, <1>2, TypeUser, TypeKernel DEF Next

(* Every variable keeps its type: in particular the queue links of a page  *)
(* stay pointers to pages, whatever order the calls come in.               *)
THEOREM TypeCorrect == Spec => []TypeOK
  BY TypeInit, TypeStep, PTL DEF Spec

-----------------------------------------------------------------------------
(***************************************************************************)
(* The inductive invariant.  While the kernel is up (UpInv):               *)
(***************************************************************************)

(* next and prev link the pages of Q into one cycle.                       *)
Ring(Q, n, p) ==
  /\ \A t \in Q : /\ n[t] \in Q /\ p[n[t]] = t
                  /\ p[t] \in Q /\ n[p[t]] = t
  /\ \A S \in SUBSET Q : S # {} /\ (\A t \in S : n[t] \in S) => S = Q

(* Who waits is alive; the current task waits just when it is in waitpid.  *)
Waiters ==
  /\ \A t \in Task : waiting[t] # NULL => t # MainTask /\ state[t] \in Living
  /\ cpu \in {"user", "exec", "cleanup", "leaving"} => waiting[current_task] = NULL
  /\ cpu = "waitpid" => waiting[current_task] # NULL

(* The lists of children and the parent pointers agree, and every task on  *)
(* the queue but idle has a parent that lives.                             *)
TreeIsSound ==
  /\ \A c, p \in Task : c \in children[p] <=> parent[c] = p /\ state[c] \in Queued
  /\ \A c \in OnQueue \ {MainTask} :
       parent[c] \in Task /\ state[parent[c]] \in Living

(* idle is never asleep, and Init is its child.                            *)
RootsAreSafe ==
  /\ parent[MainTask] = NULL /\ state[MainTask] \in {"RUNNING", "READY"}
  /\ current_task = MainTask => state[MainTask] = "RUNNING"
  /\ parent[init_task] = MainTask /\ state[init_task] \in Living
  /\ init_task # MainTask

CurrentIsKnown ==
  /\ state[current_task] \in {"RUNNING", "SLEEPING", "ZOMBIE"}
  /\ cpu \in {"user", "exec", "waitpid", "cleanup", "leaving"} =>
       state[current_task] = "RUNNING"
  /\ cpu \in {"exec", "waitpid", "cleanup", "leaving"} => current_task # MainTask
  /\ cpu \notin {"reset", "halted"}

(* Who lives has a directory, but for the moment in which exec replaces it, *)
(* and only the current one can be loaded; the owner of the FPU lives and   *)
(* has not begun to die.                                                    *)
SpacesAreSound ==
  /\ pdir = {t \in Task \ {MainTask} : state[t] \in Living /\ ~Replaces(t)}
  /\ cr3 # NULL => /\ cr3 = current_task /\ cpu # "leaving"
                   /\ cpu # "exec" => cr3 \in pdir
  /\ fpu_owner # NULL => /\ fpu_owner \in Task /\ state[fpu_owner] \in Living
                         /\ cpu \in {"cleanup", "leaving"} => fpu_owner # current_task

(* The activations of the clean-up are a path of the tree that ends in the *)
(* task that dies.                                                         *)
KillingIsPath ==
  /\ cpu = "leaving" => children[current_task] = {}
  /\ cpu = "cleanup" =>
    /\ killing = <<>> => children[current_task] = {}
    /\ killing # <<>> => killing[Len(killing)] = current_task
    /\ \A i \in 1..Len(killing) : killing[i] # MainTask /\ state[killing[i]] \in Living
    /\ \A i \in 1..Len(killing) - 1 : parent[killing[i]] = killing[i + 1]

UpInv ==
  /\ Ring(OnQueue, next, prev) /\ TreeIsSound /\ RootsAreSafe /\ CurrentIsKnown
  /\ SpacesAreSound /\ KillingIsPath

(* Once Init is dead the reaper meets it first, and nothing else happens.  *)
Lost ==
  /\ cpu \in {"schedule", "reset", "halted"}
  /\ cpu = "schedule" => dead_tasks # <<>> /\ Head(dead_tasks) = init_task

TaskInv ==
  /\ TypeOK /\ OnlyCurrentRuns /\ PagesAreAccountedFor /\ NoLostWakeup /\ Waiters
  /\ cpu # "cleanup" => killing = <<>>
  /\ Up => UpInv
  /\ ~Up => Lost

USE DEF Replaces

-----------------------------------------------------------------------------
(***************************************************************************)
(* The run queue.                                                          *)
(***************************************************************************)

(* task_queue_add puts c behind u.                                         *)
LEMMA RingAdd ==
  ASSUME NEW Q, NEW n, NEW p, Ring(Q, n, p), NEW u \in Q, NEW c, c \notin Q,
         NEW m, NEW q,
         \A t \in Q \cup {c} : m[t] = IF t = c THEN n[u] ELSE IF t = u THEN c ELSE n[t],
         \A t \in Q \cup {c} : q[t] = IF t = n[u] THEN c ELSE IF t = c THEN u ELSE p[t]
  PROVE  Ring(Q \cup {c}, m, q)
  <1>1. \A t \in Q : n[t] \in Q /\ p[n[t]] = t /\ p[t] \in Q /\ n[p[t]] = t
    BY DEF Ring
  <1>2. \A t \in Q \cup {c} : m[t] \in Q \cup {c} /\ q[m[t]] = t
    BY <1>1
  <1>3. \A t \in Q \cup {c} : q[t] \in Q \cup {c} /\ m[q[t]] = t
    BY <1>1
  <1>4. ASSUME NEW S \in SUBSET (Q \cup {c}), S # {}, \A t \in S : m[t] \in S
        PROVE  S = Q \cup {c}
    <2> DEFINE T == S \ {c}
    <2>1. T # {}
      <3> SUFFICES ASSUME T = {} PROVE FALSE
        OBVIOUS
      <3>1. S = {c}
        BY <1>4
      <3>2. m[c] \in S /\ m[c] = n[u]
        BY <1>4, <3>1
      <3> QED BY <1>1, <3>1, <3>2
    <2>2. \A t \in T : n[t] \in T
      <3> TAKE t \in T
      <3>1. t \in Q /\ t \in S /\ m[t] \in S /\ n[t] \in Q
        BY <1>1, <1>4
      <3>2. CASE t # u
        BY <3>1, <3>2
      <3>3. CASE t = u
        <4>1. c \in S
          BY <3>1, <3>3
        <4>2. m[c] \in S /\ m[c] = n[u]
          BY <1>4, <4>1
        <4> QED BY <3>1, <3>3, <4>2
      <3> QED BY <3>2, <3>3
    <2>3. T = Q
      BY <2>1, <2>2 DEF Ring
    <2>4. u \in S /\ m[u] = c
      BY <2>3
    <2>5. c \in S
      BY <1>4, <2>4
    <2> QED BY <2>3, <2>5
  <1> QED BY <1>2, <1>3, <1>4 DEF Ring

(* Taking c out of the cycle leaves a cycle, whatever becomes of its links *)
(* (waitpid keeps them, the clean-up links c to itself).                   *)
LEMMA RingRemove ==
  ASSUME NEW Q, NEW n, NEW p, Ring(Q, n, p), NEW c \in Q, NEW d \in Q, c # d,
         NEW m, NEW q,
         \A t \in Q \ {c} : m[t] = IF t = p[c] THEN n[c] ELSE n[t],
         \A t \in Q \ {c} : q[t] = IF t = n[c] THEN p[c] ELSE p[t]
  PROVE  Ring(Q \ {c}, m, q)
  <1>1. \A t \in Q : n[t] \in Q /\ p[n[t]] = t /\ p[t] \in Q /\ n[p[t]] = t
    BY DEF Ring
  <1>2. n[c] # c /\ p[c] # c
    <2>1. n[c] # c
      <3> SUFFICES ASSUME n[c] = c PROVE FALSE
        OBVIOUS
      <3>1. {c} \in SUBSET Q /\ {c} # {} /\ \A t \in {c} : n[t] \in {c}
        OBVIOUS
      <3>2. {c} = Q
        BY <3>1 DEF Ring
      <3> QED BY <3>2
    <2> QED BY <1>1, <2>1
  <1>3. \A t \in Q \ {c} : m[t] \in Q \ {c} /\ q[m[t]] = t
    BY <1>1, <1>2
  <1>4. \A t \in Q \ {c} : q[t] \in Q \ {c} /\ m[q[t]] = t
    BY <1>1, <1>2
  <1>5. ASSUME NEW S \in SUBSET (Q \ {c}), S # {}, \A t \in S : m[t] \in S
        PROVE  S = Q \ {c}
    <2>1. CASE p[c] \in S
      <3> DEFINE T == S \cup {c}
      <3>1. m[p[c]] = n[c] /\ n[c] \in S
        BY <1>1, <1>2, <1>5, <2>1
      <3>2. \A t \in T : n[t] \in T
        BY <1>1, <1>5, <3>1
      <3>3. T \in SUBSET Q /\ T # {}
        OBVIOUS
      <3> HIDE DEF T
      <3>4. T = Q
        BY <3>2, <3>3 DEF Ring
      <3> QED BY <3>4 DEF T
    <2>2. CASE p[c] \notin S
      <3>1. \A t \in S : n[t] \in S
        BY <1>5, <2>2
      <3>2. S = Q
        BY <1>5, <3>1 DEF Ring
      <3> QED BY <3>2
    <2> QED BY <2>1, <2>2
  <1> QED BY <1>3, <1>4, <1>5 DEF Ring

(* A walk from u along n over S that comes to e.                           *)
Walk(n, u, S, e) == \A t \in S \cup {u} : n[t] \in S \cup {e}

(* A walk from u that passes only over tasks that cannot run meets one     *)
(* that can, if there is one: the longest such walk leaves somewhere.      *)
LEMMA WalkEnds ==
  ASSUME NEW Q, IsFiniteSet(Q), NEW n, NEW p, Ring(Q, n, p), NEW u \in Q,
         NEW D, D \subseteq Q \ {u}, NEW d \in Q \ D, d # u
  PROVE  \E e \in Q, S \in SUBSET D : e \notin D /\ e # u /\ Walk(n, u, S, e)
  <1>1. \A t \in Q : n[t] \in Q
    BY DEF Ring
  <1> DEFINE Walked(S) == \E e \in Q : Walk(n, u, S, e)
             Rest == {R \in SUBSET Q : \E S \in SUBSET D : R = Q \ S /\ Walked(S)}
  <1>2. Rest \subseteq FiniteSubsetsOf(Q)
    <2>1. Rest \subseteq SUBSET Q
      OBVIOUS
    <2> HIDE DEF Rest
    <2> QED BY <2>1, FS_FiniteSubsetsOfFinite
  <1>3. Rest # {}
    <2>1. Walk(n, u, {}, n[u]) /\ n[u] \in Q
      BY <1>1 DEF Walk
    <2>2. Walked({})
      BY <2>1
    <2> HIDE DEF Walked
    <2>3. Q \in SUBSET Q /\ {} \in SUBSET D /\ Q = Q \ {}
      OBVIOUS
    <2>4. Q \in Rest
      BY <2>2, <2>3
    <2> QED BY <2>4
  <1>4. PICK R \in Rest : \A T \in Rest : ~(<<T, R>> \in StrictSubsetOrdering(Q))
    <2> HIDE DEF Rest
    <2>1. IsWellFoundedOn(StrictSubsetOrdering(Q), FiniteSubsetsOf(Q))
      BY FS_StrictSubsetOrderingWellFounded
    <2> QED BY <1>2, <1>3, <2>1, WFMin
  <1>5. PICK S \in SUBSET D : R = Q \ S /\ Walked(S)
    BY <1>4
  <1>6. PICK e \in Q : Walk(n, u, S, e)
    BY <1>5
  <1>7. e \notin S \cup {u}
    <2> SUFFICES ASSUME e \in S \cup {u} PROVE FALSE
      OBVIOUS
    <2>1. S \cup {u} \in SUBSET Q /\ S \cup {u} # {}
      OBVIOUS
    <2>2. \A t \in S \cup {u} : n[t] \in S \cup {u}
      BY <1>6 DEF Walk
    <2>3. S \cup {u} = Q
      BY <2>1, <2>2 DEF Ring
    <2> QED BY <2>3
  <1>8. e \notin D
    <2> SUFFICES ASSUME e \in D PROVE FALSE
      OBVIOUS
    <2>1. Walk(n, u, S \cup {e}, n[e]) /\ n[e] \in Q
      BY <1>1, <1>6 DEF Walk
    <2>2. Walked(S \cup {e}) /\ S \cup {e} \in SUBSET D
      BY <2>1
    <2> HIDE DEF Walked
    <2>3. Q \ (S \cup {e}) \in Rest
      BY <2>2
    <2>4. ~(<<Q \ (S \cup {e}), R>> \in StrictSubsetOrdering(Q))
      BY <1>4, <2>3
    <2>5. Q \ (S \cup {e}) \subseteq R /\ Q \ (S \cup {e}) # R
      BY <1>5, <1>7
    <2> QED BY <1>5, <2>4, <2>5 DEF StrictSubsetOrdering
  <1> QED BY <1>6, <1>7, <1>8

(* While the kernel is up schedule() finds somebody: idle can always run.  *)
LEMMA SomebodyRuns ==
  ASSUME TaskInv, Up
  PROVE  state[current_task] = "RUNNING" \/ \E n \in Task : NextRunnable(n)
  <1> SUFFICES ASSUME state[current_task] # "RUNNING"
               PROVE  \E n \in Task : NextRunnable(n)
    OBVIOUS
  <1> DEFINE D == {t \in OnQueue \ {current_task} : ~Runnable(t)}
  <1>1. UpInv /\ TypeOK
    BY DEF TaskInv
  <1>2. IsFiniteSet(OnQueue)
    BY TaskAssumption, FS_Subset DEF OnQueue
  <1>3. current_task \in OnQueue
    BY <1>1 DEF UpInv, CurrentIsKnown, OnQueue, Queued, Living, TypeOK
  <1>4. MainTask \in OnQueue /\ Runnable(MainTask) /\ MainTask # current_task
    BY <1>1, TaskAssumption DEF UpInv, RootsAreSafe, OnQueue, Queued, Living, Runnable
  <1>5. MainTask \in OnQueue \ D
    BY <1>4
  <1>6. Ring(OnQueue, next, prev)
    BY <1>1 DEF UpInv
  <1>7. D \subseteq OnQueue \ {current_task}
    OBVIOUS
  <1> HIDE DEF D
  <1>8. PICK e \in OnQueue, S \in SUBSET D :
          e \notin D /\ e # current_task /\ Walk(next, current_task, S, e)
    BY <1>2, <1>3, <1>4, <1>5, <1>6, <1>7, WalkEnds
  <1>9. e \in Task /\ Runnable(e)
    BY <1>8 DEF D, OnQueue
  <1>10. S \in SUBSET {t \in Task \ {current_task} : ~Runnable(t)}
    BY <1>8 DEF D, OnQueue
  <1> QED BY <1>8, <1>9, <1>10 DEF NextRunnable, Walk

-----------------------------------------------------------------------------
(***************************************************************************)
(* The steps that change neither the queue, nor the tree, nor who lives.   *)
(***************************************************************************)

(* Nothing below the clean-up of Init runs.                                *)
LEMMA IsUp ==
  ASSUME TaskInv,
         \/ cpu \in {"user", "exec", "waitpid", "cleanup", "leaving"}
         \/ cpu = "schedule" /\ (dead_tasks = <<>> \/ Head(dead_tasks) # init_task)
  PROVE  Up /\ UpInv
  BY DEF TaskInv, Lost

(* NoLostWakeup, child by child.                                           *)
MissesNone ==
  \A t \in Task : \A c \in children[t] :
    state[t] = "SLEEPING" /\ waiting[t] # NULL /\ state[c] = "ZOMBIE"
      => waiting[t] \notin {AnyPid, c}

(* MissesNone is NoLostWakeup, before a step and after it.                 *)
LEMMA MissesNoneFacts ==
  (NoLostWakeup <=> MissesNone) /\ (NoLostWakeup' <=> MissesNone')
  BY DEF NoLostWakeup, MissesNone, Zombies

(* A task that lives goes on living, one that does not stays what it is.   *)
LifeStays ==
  \A t \in Task : /\ state[t] \in Living => state'[t] \in Living
                  /\ state[t] \notin Living => state'[t] = state[t]

(* Then the queue holds the same tasks, and nobody dies or is freed.       *)
LEMMA LifeStaysFacts ==
  ASSUME LifeStays
  PROVE  /\ OnQueue' = OnQueue
         /\ \A t \in Task : /\ state'[t] \in Living <=> state[t] \in Living
                            /\ state'[t] \in Queued <=> state[t] \in Queued
                            /\ state'[t] = "ZOMBIE" <=> state[t] = "ZOMBIE"
                            /\ state'[t] = "DEAD" <=> state[t] = "DEAD"
                            /\ state'[t] = "FREE" <=> state[t] = "FREE"
  BY DEF LifeStays, OnQueue, Queued, Living

(* What such a step has to keep.                                           *)
LEMMA LifeKeeps ==
  ASSUME TaskInv, Up, UpInv, LifeStays, TypeOK',
         UNCHANGED <<next, prev, parent, children, dead_tasks, task_count, init_task>>,
         OnlyCurrentRuns', MissesNone', Waiters', cpu' # "cleanup" => killing' = <<>>,
         state'[MainTask] # "SLEEPING",
         current_task' = MainTask => state'[MainTask] = "RUNNING",
         CurrentIsKnown', SpacesAreSound', KillingIsPath'
  PROVE  TaskInv'
  <1>1. /\ OnQueue' = OnQueue
        /\ \A t \in Task : /\ state'[t] \in Living <=> state[t] \in Living
                           /\ state'[t] \in Queued <=> state[t] \in Queued
                           /\ state'[t] = "ZOMBIE" <=> state[t] = "ZOMBIE"
                           /\ state'[t] = "DEAD" <=> state[t] = "DEAD"
                           /\ state'[t] = "FREE" <=> state[t] = "FREE"
    BY LifeStaysFacts
  <1>2. Ring(OnQueue, next, prev)'
    BY <1>1 DEF UpInv
  <1>3. TreeIsSound'
    BY <1>1 DEF UpInv, TreeIsSound, TypeOK, OnQueue
  <1>4. PagesAreAccountedFor'
    <2>1. cpu \notin {"reset", "halted"}
      BY DEF UpInv, CurrentIsKnown
    <2>2. {t \in Task : state[t] = "DEAD"}' = {t \in Task : state[t] = "DEAD"}
      BY <1>1
    <2>3. {t \in Task : state[t] # "FREE"}' = {t \in Task : state[t] # "FREE"}
      BY <1>1
    <2>4. {dead_tasks[i] : i \in DOMAIN dead_tasks}' = {dead_tasks[i] : i \in DOMAIN dead_tasks}
      OBVIOUS
    <2>5. {t \in Task : state[t] = "DEAD"} = {dead_tasks[i] : i \in DOMAIN dead_tasks}
      BY <2>1 DEF TaskInv, PagesAreAccountedFor
    <2>6. task_count = Cardinality({t \in Task : state[t] # "FREE"})
      BY <2>1 DEF TaskInv, PagesAreAccountedFor
    <2>7. task_count' = Cardinality({t \in Task : state[t] # "FREE"})'
      BY <2>3, <2>6
    <2>8. \A i, j \in DOMAIN dead_tasks' : dead_tasks'[i] = dead_tasks'[j] => i = j
      BY DEF TaskInv, PagesAreAccountedFor
    <2>9. {t \in Task : state[t] = "DEAD"}' = {dead_tasks[i] : i \in DOMAIN dead_tasks}'
      BY <2>2, <2>4, <2>5
    <2> QED BY <2>7, <2>8, <2>9 DEF PagesAreAccountedFor
  <1>5. RootsAreSafe'
    <2>1. state'[MainTask] \in Living /\ init_task \in Task
      BY <1>1, TaskAssumption DEF UpInv, RootsAreSafe, Living, TypeOK
    <2> QED BY <1>1, <2>1 DEF UpInv, RootsAreSafe, Living
  <1>7. Up'
    BY DEF CurrentIsKnown, Up
  <1>8. UpInv'
    BY <1>2, <1>3, <1>5 DEF UpInv
  <1> QED BY <1>4, <1>7, <1>8, MissesNoneFacts DEF TaskInv

(* Most of them leave the page directories alone as well.                  *)
LEMMA QuietKeeps ==
  ASSUME TaskInv, Up, UpInv, LifeStays, TypeOK',
         cpu # "exec", cpu' \notin {"exec", "leaving"},
         UNCHANGED <<next, prev, parent, children, dead_tasks, task_count, init_task, pdir>>,
         OnlyCurrentRuns', MissesNone', Waiters', cpu' # "cleanup" => killing' = <<>>,
         state'[MainTask] # "SLEEPING",
         current_task' = MainTask => state'[MainTask] = "RUNNING",
         CurrentIsKnown',
         cr3' # NULL => cr3' = current_task' /\ cr3' \in pdir',
         fpu_owner' # NULL => /\ fpu_owner' \in Task /\ state'[fpu_owner'] \in Living
                              /\ cpu' = "cleanup" => fpu_owner' # current_task',
         KillingIsPath'
  PROVE  TaskInv'
  <1>1. \A t \in Task : state'[t] \in Living <=> state[t] \in Living
    BY LifeStaysFacts
  <1>2. SpacesAreSound'
    BY <1>1 DEF UpInv, SpacesAreSound
  <1> QED BY <1>2, LifeKeeps

(* The #NM trap moves only the FPU's owner.                                *)
LEMMA FpuKeeps ==
  ASSUME TaskInv, TypeOK', DeviceNotAvailable
  PROVE  TaskInv'
  <1>1. Up /\ UpInv
    BY IsUp DEF DeviceNotAvailable, Calls
  <1>2. UNCHANGED <<state, next, prev, parent, children, waiting, pdir, current_task,
                    init_task, dead_tasks, task_count, cr3, cpu, killing>>
    BY DEF DeviceNotAvailable
  <1>3. cpu = "user" /\ fpu_owner' \in {NULL, current_task}
    BY DEF DeviceNotAvailable, Calls
  <1>4. LifeStays /\ OnlyCurrentRuns'
    BY <1>2 DEF LifeStays, TaskInv, OnlyCurrentRuns
  <1>5. MissesNone' /\ Waiters'
    BY <1>2, MissesNoneFacts DEF TaskInv, MissesNone, Waiters
  <1>6. CurrentIsKnown' /\ KillingIsPath'
    BY <1>1, <1>2, <1>3 DEF UpInv, CurrentIsKnown, KillingIsPath
  <1>7. /\ state'[MainTask] # "SLEEPING"
        /\ current_task' = MainTask => state'[MainTask] = "RUNNING"
        /\ cr3' # NULL => cr3' = current_task' /\ cr3' \in pdir'
    BY <1>1, <1>2, <1>3 DEF UpInv, RootsAreSafe, SpacesAreSound
  <1>8. /\ fpu_owner' # NULL => fpu_owner' \in Task /\ state'[fpu_owner'] \in Living
        /\ cpu' # "cleanup" /\ killing' = <<>>
    BY <1>1, <1>2, <1>3 DEF UpInv, CurrentIsKnown, TaskInv, TypeOK, Living
  <1> QED BY <1>1, <1>2, <1>3, <1>4, <1>5, <1>6, <1>7, <1>8, QuietKeeps

(* exec between its steps has no directory and the old CR3; an exit leaves  *)
(* its directory before that goes.                                         *)
LEMMA DirectoryKeeps ==
  ASSUME TaskInv, TypeOK', Exec \/ ExecSwitch \/ LeaveDirectory
  PROVE  TaskInv'
  <1>0. TypeOK
    BY DEF TaskInv
  <1>1. Up /\ UpInv
    BY IsUp DEF Exec, ExecSwitch, LeaveDirectory, Calls
  <1>2. UNCHANGED <<state, next, prev, parent, children, waiting, current_task, init_task,
                    dead_tasks, task_count, killing>>
    BY DEF Exec, ExecSwitch, LeaveDirectory
  <1>3. /\ current_task \in Task /\ current_task # MainTask
        /\ state[current_task] = "RUNNING" /\ waiting[current_task] = NULL
    BY <1>0, <1>1 DEF Exec, ExecSwitch, LeaveDirectory, Calls, TypeOK, UpInv, CurrentIsKnown,
                      TaskInv, Waiters
  <1>4. \/ cpu = "user" /\ cpu' = "exec"
        \/ cpu = "exec" /\ cpu' = "user"
        \/ cpu = "cleanup" /\ killing = <<>> /\ cpu' = "leaving"
    BY DEF Exec, ExecSwitch, LeaveDirectory, Calls
  <1>5. LifeStays /\ OnlyCurrentRuns'
    BY <1>2, <1>3 DEF LifeStays, TaskInv, OnlyCurrentRuns
  <1>6. MissesNone' /\ Waiters'
    <2>1. MissesNone'
      BY <1>2, MissesNoneFacts DEF TaskInv, MissesNone
    <2>2. Waiters'
      BY <1>2, <1>3, <1>4 DEF TaskInv, Waiters
    <2> QED BY <2>1, <2>2
  <1>7. CurrentIsKnown'
    BY <1>2, <1>3, <1>4 DEF CurrentIsKnown
  <1>8. KillingIsPath'
    BY <1>1, <1>2, <1>4 DEF UpInv, KillingIsPath
  <1>9. SpacesAreSound'
    <2>1. fpu_owner' # NULL => /\ fpu_owner' \in Task /\ state'[fpu_owner'] \in Living
                               /\ cpu' \in {"cleanup", "leaving"} => fpu_owner' # current_task'
      BY <1>1, <1>2, <1>4 DEF Exec, ExecSwitch, LeaveDirectory, Release, UpInv, SpacesAreSound
    <2>2. pdir' = {t \in Task \ {MainTask} : state'[t] \in Living /\ ~Replaces(t)'}
      BY <1>1, <1>2, <1>3, <1>4
         DEF Exec, ExecSwitch, LeaveDirectory, Calls, Destroy, UpInv, SpacesAreSound, Living
    <2>3. cr3' # NULL => /\ cr3' = current_task' /\ cpu' # "leaving"
                         /\ cpu' # "exec" => cr3' \in pdir'
      BY <1>1, <1>2, <1>4
         DEF Exec, ExecSwitch, LeaveDirectory, LoadBoot, Calls, UpInv, SpacesAreSound
    <2> QED BY <2>1, <2>2, <2>3 DEF SpacesAreSound
  <1>10. /\ state'[MainTask] # "SLEEPING"
         /\ current_task' = MainTask => state'[MainTask] = "RUNNING"
    BY <1>1, <1>2 DEF UpInv, RootsAreSafe
  <1>11. cpu' # "cleanup" /\ killing' = <<>>
    BY <1>2, <1>4 DEF TaskInv
  <1> QED BY <1>1, <1>2, <1>5, <1>6, <1>7, <1>8, <1>9, <1>10, <1>11, LifeKeeps

(* yield and the entry of waitpid.                                         *)
LEMMA YieldKeeps ==
  ASSUME TaskInv, TypeOK', Yield \/ WaitPid
  PROVE  TaskInv'
  <1>1. Up /\ UpInv
    BY IsUp DEF Yield, WaitPid, Calls
  <1>2. UNCHANGED <<state, next, prev, parent, children, pdir, current_task,
                    init_task, dead_tasks, task_count, cr3, fpu_owner, killing>>
    BY DEF Yield, WaitPid
  <1>3. cpu = "user" /\ current_task # MainTask /\ cpu' \in {"schedule", "waitpid"}
    BY DEF Yield, WaitPid, Calls
  <1>4. /\ \A t \in Task \ {current_task} : waiting'[t] = waiting[t]
        /\ cpu' = "waitpid" => waiting'[current_task] # NULL
    BY TaskAssumption DEF Yield, WaitPid, TaskInv, TypeOK
  <1>5. LifeStays /\ OnlyCurrentRuns'
    BY <1>2, <1>3 DEF LifeStays, TaskInv, OnlyCurrentRuns
  <1>6. state[current_task] = "RUNNING"
    BY <1>3 DEF TaskInv, OnlyCurrentRuns
  <1>7. MissesNone'
    BY <1>2, <1>4, <1>6, MissesNoneFacts DEF TaskInv, MissesNone
  <1>8. Waiters'
    BY <1>2, <1>3, <1>4, <1>6 DEF TaskInv, Waiters, Living
  <1>9. CurrentIsKnown' /\ KillingIsPath'
    BY <1>1, <1>2, <1>3, <1>6 DEF UpInv, CurrentIsKnown, KillingIsPath
  <1>10. /\ state'[MainTask] # "SLEEPING"
         /\ current_task' = MainTask => state'[MainTask] = "RUNNING"
         /\ cr3' # NULL => cr3' = current_task' /\ cr3' \in pdir'
         /\ fpu_owner' # NULL => fpu_owner' \in Task /\ state'[fpu_owner'] \in Living
    BY <1>1, <1>2, <1>3 DEF UpInv, RootsAreSafe, SpacesAreSound
  <1>11. cpu' # "cleanup" /\ killing' = <<>>
    BY <1>2, <1>3 DEF TaskInv
  <1> QED BY <1>1, <1>2, <1>3, <1>5, <1>7, <1>8, <1>9, <1>10, <1>11, QuietKeeps

(* The two ways to fall asleep: a sleeper waits for nobody, a waitpid has  *)
(* found no zombie.                                                        *)
LEMMA SleepKeeps ==
  ASSUME TaskInv, TypeOK', WaitBlock \/ \E ms \in 1..MaxSleep : Sleep(ms)
  PROVE  TaskInv'
  <1>0. TypeOK
    BY DEF TaskInv
  <1>1. Up /\ UpInv
    BY IsUp DEF WaitBlock, Sleep, Calls
  <1>2. UNCHANGED <<next, prev, parent, children, pdir, current_task, waiting,
                    init_task, dead_tasks, task_count, cr3, fpu_owner, killing>>
    BY DEF WaitBlock, Sleep
  <1>3. /\ cpu \in {"user", "waitpid"} /\ current_task # MainTask /\ cpu' = "schedule"
        /\ state' = [state EXCEPT ![current_task] = "SLEEPING"]
    BY <1>1 DEF WaitBlock, Sleep, Calls, UpInv, CurrentIsKnown
  <1>4. state[current_task] = "RUNNING" /\ current_task \in Task
    BY <1>0, <1>3 DEF TaskInv, OnlyCurrentRuns, TypeOK
  <1>5. \A t \in Task : state'[t] = IF t = current_task THEN "SLEEPING" ELSE state[t]
    BY <1>0, <1>3 DEF TypeOK
  <1>6. LifeStays
    BY <1>4, <1>5 DEF LifeStays, Living
  <1>7. OnlyCurrentRuns'
    BY <1>2, <1>3, <1>5 DEF TaskInv, OnlyCurrentRuns
  <1>8. \A c \in children[current_task] :
          waiting[current_task] # NULL /\ state[c] = "ZOMBIE"
            => waiting[current_task] \notin {AnyPid, c}
    BY DEF WaitBlock, Sleep, Calls, TaskInv, Waiters, Zombies
  <1>9. MissesNone'
    <2>1. \A t, c \in Task : state'[c] = "ZOMBIE" => state[c] = "ZOMBIE"
      BY <1>5
    <2> QED BY <1>0, <1>2, <1>5, <1>8, <2>1, MissesNoneFacts DEF TaskInv, MissesNone, TypeOK
  <1>10. Waiters'
    BY <1>2, <1>3, <1>4, <1>5 DEF TaskInv, Waiters, Living
  <1>11. CurrentIsKnown' /\ KillingIsPath'
    BY <1>2, <1>3, <1>4, <1>5 DEF CurrentIsKnown, KillingIsPath
  <1>12. /\ state'[MainTask] # "SLEEPING"
         /\ current_task' = MainTask => state'[MainTask] = "RUNNING"
    BY <1>1, <1>2, <1>3, <1>5, TaskAssumption DEF UpInv, RootsAreSafe
  <1>13. /\ cr3' # NULL => cr3' = current_task' /\ cr3' \in pdir'
         /\ fpu_owner' # NULL => fpu_owner' \in Task /\ state'[fpu_owner'] \in Living
    BY <1>1, <1>2, <1>3, <1>6 DEF UpInv, SpacesAreSound, LifeStays
  <1>14. cpu' # "cleanup" /\ killing' = <<>>
    BY <1>2, <1>3 DEF TaskInv
  <1> QED BY <1>1, <1>2, <1>3, <1>6, <1>7, <1>9, <1>10, <1>11, <1>12, <1>13, <1>14, QuietKeeps

(* A task begins to die: the clean-up starts at the task itself.           *)
LEMMA DieKeeps ==
  ASSUME TaskInv, TypeOK', Die
  PROVE  TaskInv'
  <1>0. TypeOK
    BY DEF TaskInv
  <1>1. Up /\ UpInv
    BY IsUp DEF Die, Calls
  <1>2. UNCHANGED <<state, next, prev, parent, children, pdir, current_task,
                    init_task, dead_tasks, task_count, cr3>>
    BY DEF Die
  <1>3. /\ cpu \in {"user", "waitpid"} /\ current_task # MainTask
        /\ cpu' = "cleanup" /\ killing' = <<current_task>>
        /\ waiting' = [waiting EXCEPT ![current_task] = NULL]
        /\ fpu_owner' = Release(current_task)
    BY <1>1 DEF Die, Calls, UpInv, CurrentIsKnown
  <1>4. state[current_task] = "RUNNING" /\ current_task \in Task
    BY <1>0, <1>3 DEF TaskInv, OnlyCurrentRuns, TypeOK
  <1>5. \A t \in Task : waiting'[t] = IF t = current_task THEN NULL ELSE waiting[t]
    BY <1>0, <1>3 DEF TypeOK
  <1>6. LifeStays /\ OnlyCurrentRuns'
    BY <1>2, <1>3 DEF LifeStays, TaskInv, OnlyCurrentRuns
  <1>7. MissesNone'
    BY <1>2, <1>5, MissesNoneFacts DEF TaskInv, MissesNone
  <1>8. Waiters'
    BY <1>2, <1>3, <1>4, <1>5 DEF TaskInv, Waiters
  <1>9. CurrentIsKnown'
    BY <1>2, <1>3, <1>4 DEF CurrentIsKnown
  <1>10. /\ state'[MainTask] # "SLEEPING"
         /\ current_task' = MainTask => state'[MainTask] = "RUNNING"
         /\ cr3' # NULL => cr3' = current_task' /\ cr3' \in pdir'
    BY <1>1, <1>2, <1>3 DEF UpInv, RootsAreSafe, SpacesAreSound
  <1>11. fpu_owner' # NULL => /\ fpu_owner' \in Task /\ state'[fpu_owner'] \in Living
                              /\ cpu' = "cleanup" => fpu_owner' # current_task'
    BY <1>1, <1>2, <1>3 DEF UpInv, SpacesAreSound, Release
  <1>12. KillingIsPath'
    BY <1>2, <1>3, <1>4 DEF KillingIsPath, Living
  <1> QED BY <1>1, <1>2, <1>3, <1>6, <1>7, <1>8, <1>9, <1>10, <1>11, <1>12, QuietKeeps

(* Going down to a child and coming back: the activations stay a path.     *)
LEMMA RecursionKeeps ==
  ASSUME TaskInv, TypeOK', CleanupEnter \/ CleanupReturn
  PROVE  TaskInv'
  <1>0. TypeOK
    BY DEF TaskInv
  <1>1. Up /\ UpInv
    BY IsUp DEF CleanupEnter, CleanupReturn
  <1>2. UNCHANGED <<state, next, prev, parent, children, pdir, current_task, waiting,
                    init_task, dead_tasks, task_count, cr3, fpu_owner, cpu>>
    BY DEF CleanupEnter, CleanupReturn
  <1>3. cpu = "cleanup" /\ killing # <<>> /\ killing \in Seq(Task)
    BY <1>0 DEF CleanupEnter, CleanupReturn, TypeOK
  <1>4. LifeStays /\ OnlyCurrentRuns'
    BY <1>2 DEF LifeStays, TaskInv, OnlyCurrentRuns
  <1>5. MissesNone' /\ Waiters'
    BY <1>2, MissesNoneFacts DEF TaskInv, MissesNone, Waiters
  <1>6. CurrentIsKnown'
    BY <1>1, <1>2 DEF UpInv, CurrentIsKnown
  <1>7. /\ state'[MainTask] # "SLEEPING"
        /\ current_task' = MainTask => state'[MainTask] = "RUNNING"
        /\ cr3' # NULL => cr3' = current_task' /\ cr3' \in pdir'
        /\ fpu_owner' # NULL => /\ fpu_owner' \in Task /\ state'[fpu_owner'] \in Living
                                /\ cpu' = "cleanup" => fpu_owner' # current_task'
    BY <1>1, <1>2, <1>3 DEF UpInv, RootsAreSafe, SpacesAreSound
  <1>8. KillingIsPath'
    <2>1. /\ killing[Len(killing)] = current_task
          /\ \A i \in 1..Len(killing) : killing[i] # MainTask /\ state[killing[i]] \in Living
          /\ \A i \in 1..Len(killing) - 1 : parent[killing[i]] = killing[i + 1]
      BY <1>1, <1>3 DEF UpInv, KillingIsPath
    <2>2. Victim = killing[1] /\ Victim \in Task /\ Len(killing) \in Nat /\ Len(killing) >= 1
      BY <1>3, PopFacts DEF Victim
    <2>3. CASE CleanupEnter
      <3>1. PICK c \in children[Victim] : Recurses(c) /\ killing' = <<c>> \o killing
        BY <2>3 DEF CleanupEnter
      <3>2. c \in Task /\ parent[c] = Victim /\ state[c] \in Living
        <4>1. PICK v \in Task : v = Victim
          BY <2>2
        <4>2. c \in children[v] /\ children[v] \subseteq Task
          BY <1>0, <3>1, <4>1 DEF TypeOK
        <4>3. parent[c] = v /\ state[c] \in Queued
          BY <1>1, <4>2 DEF UpInv, TreeIsSound
        <4> QED BY <3>1, <4>1, <4>2, <4>3 DEF Recurses, Queued
      <3>3. c # MainTask
        BY <1>1, <2>2, <3>2, TaskAssumption DEF UpInv, RootsAreSafe
      <3>4. /\ Len(killing') = Len(killing) + 1 /\ killing' # <<>> /\ killing'[1] = c
            /\ \A i \in 2..Len(killing') : killing'[i] = killing[i - 1]
        BY <1>3, <3>1, <3>2, PushFacts
      <3>5. killing'[Len(killing')] = current_task
        BY <2>1, <2>2, <3>4
      <3>6. \A i \in 1..Len(killing') : killing'[i] # MainTask /\ state[killing'[i]] \in Living
        <4> TAKE i \in 1..Len(killing')
        <4>1. CASE i = 1
          BY <3>2, <3>3, <3>4, <4>1
        <4>2. CASE i # 1
          <5>1. i - 1 \in 1..Len(killing) /\ killing'[i] = killing[i - 1]
            BY <2>2, <3>4, <4>2
          <5> QED BY <2>1, <5>1
        <4> QED BY <4>1, <4>2
      <3>7. \A i \in 1..Len(killing') - 1 : parent[killing'[i]] = killing'[i + 1]
        <4> TAKE i \in 1..Len(killing') - 1
        <4>1. CASE i = 1
          <5>1. killing'[2] = killing[1]
            <6>1. 2 \in 2..Len(killing') /\ 2 - 1 = 1
              BY <2>2, <3>4
            <6> QED BY <3>4, <6>1
          <5> QED BY <2>2, <3>2, <3>4, <4>1, <5>1
        <4>2. CASE i # 1
          <5>1. i - 1 \in 1..Len(killing) - 1 /\ killing'[i] = killing[i - 1]
            BY <2>2, <3>4, <4>2
          <5>2. killing'[i + 1] = killing[i - 1 + 1]
            BY <2>2, <3>4, <4>2
          <5> QED BY <2>1, <5>1, <5>2
        <4> QED BY <4>1, <4>2
      <3> QED BY <1>2, <1>3, <3>4, <3>5, <3>6, <3>7 DEF KillingIsPath
    <2>4. CASE CleanupReturn
      <3>1. killing' = Tail(killing) /\ children[Victim] = {}
        BY <2>4 DEF CleanupReturn
      <3>2. /\ killing' \in Seq(Task) /\ Len(killing') = Len(killing) - 1
            /\ \A i \in 1..Len(killing) - 1 : killing'[i] = killing[i + 1]
        BY <1>3, <3>1, PopFacts
      <3>3. killing' = <<>> => children'[current_task'] = {}
        <4>1. killing' = <<>> => Len(killing) = 1
          BY <2>2, <3>2
        <4> QED BY <1>2, <2>1, <2>2, <3>1, <4>1
      <3>4. killing' # <<>> => killing'[Len(killing')] = current_task'
        <4>1. killing' # <<>> => Len(killing') >= 1
          BY <3>2
        <4> QED BY <1>2, <2>1, <2>2, <3>2, <4>1
      <3>5. \A i \in 1..Len(killing') : killing'[i] # MainTask /\ state[killing'[i]] \in Living
        BY <2>1, <2>2, <3>2
      <3>6. \A i \in 1..Len(killing') - 1 : parent[killing'[i]] = killing'[i + 1]
        BY <2>1, <2>2, <3>2
      <3> QED BY <1>2, <1>3, <3>3, <3>4, <3>5, <3>6 DEF KillingIsPath
    <2> QED BY <2>3, <2>4
  <1> QED BY <1>1, <1>2, <1>3, <1>4, <1>5, <1>6, <1>7, <1>8, QuietKeeps

(* The timer wakes tasks that are asleep, and nobody else.                 *)
LEMMA TickKeeps ==
  ASSUME TaskInv, TypeOK', Tick
  PROVE  TaskInv'
  <1>0. TypeOK
    BY DEF TaskInv
  <1>1. Up /\ UpInv
    BY IsUp DEF Tick
  <1>2. UNCHANGED <<next, prev, parent, children, pdir, current_task, waiting,
                    init_task, dead_tasks, task_count, cr3, fpu_owner, killing>>
    BY DEF Tick
  <1>3. cpu = "user" /\ cpu' \in {"user", "schedule"}
    BY DEF Tick
  <1>4. /\ current_task \in Task /\ state[current_task] = "RUNNING"
        /\ waiting[current_task] = NULL
    BY <1>0, <1>3 DEF TaskInv, OnlyCurrentRuns, TypeOK, Waiters
  <1>5. \A t \in Task : \/ state'[t] = state[t]
                        \/ state[t] = "SLEEPING" /\ state'[t] = "READY"
    BY DEF Tick, Due
  <1>6. LifeStays
    BY <1>5 DEF LifeStays, Living
  <1>7. OnlyCurrentRuns'
    BY <1>2, <1>4, <1>5 DEF TaskInv, OnlyCurrentRuns
  <1>8. MissesNone'
    BY <1>0, <1>2, <1>5, MissesNoneFacts DEF TaskInv, MissesNone, TypeOK
  <1>9. Waiters'
    BY <1>2, <1>3, <1>4, <1>6 DEF TaskInv, Waiters, LifeStays
  <1>10. CurrentIsKnown' /\ KillingIsPath'
    BY <1>2, <1>3, <1>4, <1>5 DEF CurrentIsKnown, KillingIsPath
  <1>11. /\ state'[MainTask] # "SLEEPING"
         /\ current_task' = MainTask => state'[MainTask] = "RUNNING"
    BY <1>1, <1>2, <1>4, <1>5, TaskAssumption DEF UpInv, RootsAreSafe
  <1>12. /\ cr3' # NULL => cr3' = current_task' /\ cr3' \in pdir'
         /\ fpu_owner' # NULL => fpu_owner' \in Task /\ state'[fpu_owner'] \in Living
    BY <1>1, <1>2, <1>3, <1>6 DEF UpInv, SpacesAreSound, LifeStays
  <1>13. cpu' # "cleanup" /\ killing' = <<>>
    BY <1>2, <1>3 DEF TaskInv
  <1> QED BY <1>1, <1>2, <1>3, <1>6, <1>7, <1>8, <1>9, <1>10, <1>11, <1>12, <1>13, QuietKeeps

(* The walk of schedule() stays on the queue, so that what it comes to is  *)
(* a task that is ready, never a page that is free.                        *)
LEMMA NextIsReady ==
  ASSUME TypeOK, UpInv, OnlyCurrentRuns, NEW n \in Task, NextRunnable(n)
  PROVE  state[n] = "READY" /\ n # current_task
  <1>1. PICK S \in SUBSET {t \in Task \ {current_task} : ~Runnable(t)} :
          \A t \in S \cup {current_task} : next[t] \in S \cup {n}
    BY DEF NextRunnable
  <1>2. n # current_task /\ Runnable(n)
    BY DEF NextRunnable
  <1>3. current_task \in OnQueue
    BY DEF UpInv, CurrentIsKnown, OnQueue, Queued, Living, TypeOK
  <1>4. Ring(OnQueue, next, prev)
    BY DEF UpInv
  <1>5. n \in OnQueue
    <2> SUFFICES ASSUME n \notin OnQueue PROVE FALSE
      OBVIOUS
    <2> DEFINE T == (S \cap OnQueue) \cup {current_task}
    <2>1. \A t \in T : next[t] \in T
      BY <1>1, <1>3, <1>4 DEF Ring
    <2>2. T \in SUBSET OnQueue /\ T # {}
      BY <1>3
    <2>3. T = OnQueue
      <3> HIDE DEF T
      <3> QED BY <1>4, <2>1, <2>2 DEF Ring
    <2>4. prev[current_task] \in T /\ next[prev[current_task]] = current_task
      BY <1>3, <1>4, <2>3 DEF Ring
    <2>5. current_task \in S \cup {n}
      BY <1>1, <2>4
    <2> QED BY <1>1, <1>2, <2>5
  <1> QED BY <1>2, <1>5 DEF OnQueue, Queued, Living, Runnable, OnlyCurrentRuns

(* schedule() hands the mark RUNNING on, or leaves it where it is.         *)
LEMMA SwitchKeeps ==
  ASSUME TaskInv, TypeOK', Switch
  PROVE  TaskInv'
  <1>0. TypeOK
    BY DEF TaskInv
  <1>1. Up /\ UpInv
    BY IsUp DEF Switch
  <1>2. UNCHANGED <<next, prev, parent, children, pdir, waiting,
                    init_task, dead_tasks, task_count, fpu_owner, killing>>
    BY DEF Switch
  <1>3. PICK n \in Task :
          /\ NextRunnable(n)
          /\ state' = [t \in Task |->
               IF t = n THEN "RUNNING"
               ELSE IF t = current_task /\ state[t] = "RUNNING" THEN "READY"
               ELSE state[t]]
          /\ current_task' = n
          /\ cr3' = IF n \in pdir THEN n ELSE NULL
          /\ cpu' = Resumes(n)
    BY DEF Switch
  <1>4. cpu = "schedule" /\ state[n] = "READY" /\ n # current_task
    BY <1>0, <1>1, <1>3, NextIsReady DEF Switch, TaskInv
  <1>5. \A t \in Task : state'[t] = IF t = n THEN "RUNNING"
                                    ELSE IF t = current_task /\ state[t] = "RUNNING" THEN "READY"
                                    ELSE state[t]
    BY <1>3
  <1>6. LifeStays
    BY <1>4, <1>5 DEF LifeStays, Living
  <1>7. OnlyCurrentRuns'
    BY <1>3, <1>5 DEF TaskInv, OnlyCurrentRuns
  <1>8. MissesNone'
    BY <1>0, <1>2, <1>5, MissesNoneFacts DEF TaskInv, MissesNone, TypeOK
  <1>9. cpu' = IF waiting[n] # NULL THEN "waitpid" ELSE "user"
    BY <1>3 DEF Resumes
  <1>10. Waiters'
    BY <1>2, <1>3, <1>6, <1>9 DEF TaskInv, Waiters, LifeStays
  <1>11. CurrentIsKnown' /\ KillingIsPath'
    BY <1>2, <1>3, <1>5, <1>9 DEF CurrentIsKnown, KillingIsPath, TaskInv, Waiters
  <1>12. /\ state'[MainTask] # "SLEEPING"
         /\ current_task' = MainTask => state'[MainTask] = "RUNNING"
    BY <1>1, <1>3, <1>5, TaskAssumption DEF UpInv, RootsAreSafe
  <1>13. /\ cr3' # NULL => cr3' = current_task' /\ cr3' \in pdir'
         /\ fpu_owner' # NULL => fpu_owner' \in Task /\ state'[fpu_owner'] \in Living
    BY <1>1, <1>2, <1>3, <1>6 DEF UpInv, SpacesAreSound, LifeStays
  <1>14. cpu' # "cleanup" /\ killing' = <<>>
    BY <1>2, <1>4, <1>9 DEF TaskInv
  <1> QED BY <1>1, <1>2, <1>4, <1>9, <1>6, <1>7, <1>8, <1>10, <1>11, <1>12, <1>13, <1>14, QuietKeeps

(* schedule() goes on with the task that runs.                             *)
LEMMA ContinueKeeps ==
  ASSUME TaskInv, TypeOK', Continue
  PROVE  TaskInv'
  <1>1. Up /\ UpInv
    BY IsUp DEF Continue
  <1>2. UNCHANGED <<state, next, prev, parent, children, pdir, waiting, current_task,
                    init_task, dead_tasks, task_count, fpu_owner, cr3, killing>>
    BY DEF Continue
  <1>3. /\ cpu = "schedule" /\ state[current_task] = "RUNNING"
        /\ cpu' = IF waiting[current_task] # NULL THEN "waitpid" ELSE "user"
    BY DEF Continue, Resumes
  <1>4. LifeStays /\ OnlyCurrentRuns'
    BY <1>2, <1>3 DEF LifeStays, TaskInv, OnlyCurrentRuns
  <1>5. MissesNone' /\ Waiters'
    BY <1>2, <1>3, MissesNoneFacts DEF TaskInv, MissesNone, Waiters
  <1>6. CurrentIsKnown' /\ KillingIsPath'
    BY <1>2, <1>3 DEF CurrentIsKnown, KillingIsPath, TaskInv, Waiters, TypeOK
  <1>7. /\ state'[MainTask] # "SLEEPING"
        /\ current_task' = MainTask => state'[MainTask] = "RUNNING"
        /\ cr3' # NULL => cr3' = current_task' /\ cr3' \in pdir'
        /\ fpu_owner' # NULL => fpu_owner' \in Task /\ state'[fpu_owner'] \in Living
    BY <1>1, <1>2, <1>3 DEF UpInv, RootsAreSafe, SpacesAreSound
  <1>8. cpu' # "cleanup" /\ killing' = <<>>
    BY <1>2, <1>3 DEF TaskInv
  <1> QED BY <1>1, <1>2, <1>3, <1>4, <1>5, <1>6, <1>7, <1>8, QuietKeeps

-----------------------------------------------------------------------------
(***************************************************************************)
(* The reaper's list and the count of pages.                               *)
(***************************************************************************)

InUse == {t \in Task : state[t] # "FREE"}
Dead == {t \in Task : state[t] = "DEAD"}
Listed == {dead_tasks[i] : i \in DOMAIN dead_tasks}

(* One task more dies and is put on the list: it was not on it before.     *)
LEMMA OneMoreDies ==
  ASSUME TypeOK, PagesAreAccountedFor, cpu \notin {"reset", "halted"},
         NEW c \in Task, state[c] \in Queued, Push(c), task_count' = task_count,
         state'[c] = "DEAD",
         \A t \in Task \ {c} : /\ state'[t] = "DEAD" <=> state[t] = "DEAD"
                               /\ state'[t] = "FREE" <=> state[t] = "FREE"
  PROVE  PagesAreAccountedFor'
  <1>1. dead_tasks \in Seq(Task) /\ dead_tasks' = <<c>> \o dead_tasks
    BY DEF TypeOK, Push
  <1>2. /\ Len(dead_tasks') = Len(dead_tasks) + 1 /\ dead_tasks'[1] = c
        /\ \A i \in 2..Len(dead_tasks') : dead_tasks'[i] = dead_tasks[i - 1]
        /\ \A i \in 1..Len(dead_tasks) : dead_tasks'[i + 1] = dead_tasks[i]
        /\ dead_tasks' \in Seq(Task) /\ Len(dead_tasks) \in Nat
    BY <1>1, PushFacts
  <1>3. Dead = Listed
    BY DEF PagesAreAccountedFor, Dead, Listed
  <1>4. \A i \in 1..Len(dead_tasks) : dead_tasks[i] # c
    BY <1>1, <1>3 DEF Dead, Listed, Queued, Living
  <1>5. \A i, j \in DOMAIN dead_tasks' : dead_tasks'[i] = dead_tasks'[j] => i = j
    <2>1. \A i, j \in 1..Len(dead_tasks) : dead_tasks[i] = dead_tasks[j] => i = j
      BY <1>1 DEF PagesAreAccountedFor
    <2> SUFFICES ASSUME NEW i \in 1..Len(dead_tasks'), NEW j \in 1..Len(dead_tasks'),
                        dead_tasks'[i] = dead_tasks'[j]
                 PROVE  i = j
      BY <1>2
    <2>2. CASE i = 1 /\ j # 1
      <3>1. j - 1 \in 1..Len(dead_tasks) /\ dead_tasks'[j] = dead_tasks[j - 1]
        BY <1>2, <2>2
      <3> QED BY <1>2, <1>4, <2>2, <3>1
    <2>3. CASE i # 1 /\ j = 1
      <3>1. i - 1 \in 1..Len(dead_tasks) /\ dead_tasks'[i] = dead_tasks[i - 1]
        BY <1>2, <2>3
      <3> QED BY <1>2, <1>4, <2>3, <3>1
    <2>4. CASE i # 1 /\ j # 1
      <3>1. /\ j - 1 \in 1..Len(dead_tasks) /\ dead_tasks'[j] = dead_tasks[j - 1]
            /\ i - 1 \in 1..Len(dead_tasks) /\ dead_tasks'[i] = dead_tasks[i - 1]
        BY <1>2, <2>4
      <3>2. i - 1 = j - 1
        BY <2>1, <3>1
      <3> QED BY <3>2
    <2> QED BY <2>2, <2>3, <2>4
  <1>6. Dead' = Dead \cup {c}
    BY DEF Dead
  <1>7. Listed' = Listed \cup {c}
    <2>1. \A i \in DOMAIN dead_tasks' : dead_tasks'[i] \in Listed \cup {c}
      <3> TAKE i \in DOMAIN dead_tasks'
      <3>1. CASE i = 1
        BY <1>2, <3>1
      <3>2. CASE i # 1
        <4>1. i - 1 \in DOMAIN dead_tasks /\ dead_tasks'[i] = dead_tasks[i - 1]
          BY <1>1, <1>2, <3>2
        <4> QED BY <4>1 DEF Listed
      <3> QED BY <3>1, <3>2
    <2>2. c \in Listed'
      <3>1. 1 \in DOMAIN dead_tasks'
        BY <1>2
      <3> QED BY <1>2, <3>1 DEF Listed
    <2>3. \A i \in DOMAIN dead_tasks : dead_tasks[i] \in Listed'
      <3> TAKE i \in DOMAIN dead_tasks
      <3>1. i + 1 \in DOMAIN dead_tasks' /\ dead_tasks'[i + 1] = dead_tasks[i]
        BY <1>1, <1>2
      <3> QED BY <3>1 DEF Listed
    <2> QED BY <2>1, <2>2, <2>3 DEF Listed
  <1>8. InUse' = InUse
    BY DEF InUse, Queued, Living
  <1>9. task_count' = Cardinality(InUse)
    BY DEF PagesAreAccountedFor, InUse
  <1>10. task_count' = Cardinality(InUse')
    BY <1>8, <1>9
  <1> QED BY <1>3, <1>5, <1>6, <1>7, <1>10 DEF PagesAreAccountedFor, Dead, Listed, InUse

(* A page is taken into use: the count grows by one.                       *)
LEMMA OneMoreInUse ==
  ASSUME TypeOK, PagesAreAccountedFor, cpu \notin {"reset", "halted"},
         NEW c \in Task, state[c] = "FREE", state' = [state EXCEPT ![c] = "READY"],
         task_count' = task_count + 1, dead_tasks' = dead_tasks
  PROVE  PagesAreAccountedFor'
  <1>1. \A t \in Task : state'[t] = IF t = c THEN "READY" ELSE state[t]
    BY DEF TypeOK
  <1>2. Dead' = Dead /\ Listed' = Listed /\ Dead = Listed
    BY <1>1 DEF Dead, Listed, PagesAreAccountedFor
  <1>3. InUse' = InUse \cup {c} /\ c \notin InUse
    BY <1>1 DEF InUse
  <1>4. IsFiniteSet(InUse)
    BY TaskAssumption, FS_Subset DEF InUse
  <1>5. Cardinality(InUse \cup {c}) = Cardinality(InUse) + 1
    BY <1>3, <1>4, FS_AddElement
  <1>6. task_count' = Cardinality(InUse) + 1
    BY DEF PagesAreAccountedFor, InUse
  <1>7. task_count' = Cardinality(InUse')
    BY <1>3, <1>5, <1>6
  <1>8. \A i, j \in DOMAIN dead_tasks' : dead_tasks'[i] = dead_tasks'[j] => i = j
    BY DEF PagesAreAccountedFor
  <1> QED BY <1>2, <1>7, <1>8 DEF PagesAreAccountedFor, Dead, Listed, InUse

(* The reaper takes the first task from the list and frees its page.       *)
LEMMA OneLessInUse ==
  ASSUME TypeOK, PagesAreAccountedFor, cpu \notin {"reset", "halted"},
         dead_tasks # <<>>, dead_tasks' = Tail(dead_tasks),
         state' = [state EXCEPT ![Head(dead_tasks)] = "FREE"],
         task_count' = task_count - 1
  PROVE  /\ PagesAreAccountedFor'
         /\ Head(dead_tasks) \in Task /\ state[Head(dead_tasks)] = "DEAD"
  <1>1. PICK d : d = Head(dead_tasks)
    OBVIOUS
  <1>2. /\ dead_tasks \in Seq(Task) /\ d = dead_tasks[1] /\ d \in Task
        /\ Len(dead_tasks) \in Nat /\ Len(dead_tasks) >= 1
        /\ dead_tasks' \in Seq(Task) /\ Len(dead_tasks') = Len(dead_tasks) - 1
        /\ \A i \in 1..Len(dead_tasks) - 1 : dead_tasks'[i] = dead_tasks[i + 1]
    BY <1>1, PopFacts DEF TypeOK
  <1>3. Dead = Listed
    BY DEF PagesAreAccountedFor, Dead, Listed
  <1>4. state[d] = "DEAD"
    <2>1. 1 \in DOMAIN dead_tasks
      BY <1>2
    <2> QED BY <1>2, <1>3, <2>1 DEF Dead, Listed
  <1>5. \A t \in Task : state'[t] = IF t = d THEN "FREE" ELSE state[t]
    BY <1>1 DEF TypeOK
  <1>6. \A i, j \in 1..Len(dead_tasks) : dead_tasks[i] = dead_tasks[j] => i = j
    BY <1>2 DEF PagesAreAccountedFor
  <1>7. \A i, j \in DOMAIN dead_tasks' : dead_tasks'[i] = dead_tasks'[j] => i = j
    <2> SUFFICES ASSUME NEW i \in 1..Len(dead_tasks'), NEW j \in 1..Len(dead_tasks'),
                        dead_tasks'[i] = dead_tasks'[j]
                 PROVE  i = j
      BY <1>2
    <2>1. i + 1 \in 1..Len(dead_tasks) /\ j + 1 \in 1..Len(dead_tasks)
      BY <1>2
    <2>2. i + 1 = j + 1
      BY <1>2, <1>6, <2>1
    <2> QED BY <2>2
  <1>8. Dead' = Dead \ {d}
    BY <1>5 DEF Dead
  <1>9. Listed' = Listed \ {d}
    <2>1. \A i \in DOMAIN dead_tasks' : dead_tasks'[i] \in Listed \ {d}
      <3> TAKE i \in DOMAIN dead_tasks'
      <3>1. /\ i + 1 \in DOMAIN dead_tasks /\ i + 1 \in 1..Len(dead_tasks) /\ i + 1 # 1
            /\ 1 \in 1..Len(dead_tasks) /\ dead_tasks'[i] = dead_tasks[i + 1]
        BY <1>2
      <3>2. dead_tasks[i + 1] # d
        BY <1>2, <1>6, <3>1
      <3> QED BY <3>1, <3>2 DEF Listed
    <2>2. \A i \in DOMAIN dead_tasks : dead_tasks[i] # d => dead_tasks[i] \in Listed'
      <3> TAKE i \in DOMAIN dead_tasks
      <3> HAVE dead_tasks[i] # d
      <3>1. i \in 1..Len(dead_tasks) /\ i # 1
        BY <1>2
      <3>2. i - 1 \in DOMAIN dead_tasks' /\ i - 1 \in 1..Len(dead_tasks) - 1 /\ i - 1 + 1 = i
        BY <1>2, <3>1
      <3>3. dead_tasks'[i - 1] = dead_tasks[i]
        BY <1>2, <3>2
      <3> QED BY <3>2, <3>3 DEF Listed
    <2> QED BY <2>1, <2>2 DEF Listed
  <1>10. InUse' = InUse \ {d} /\ d \in InUse
    BY <1>2, <1>4, <1>5 DEF InUse
  <1>11. IsFiniteSet(InUse)
    BY TaskAssumption, FS_Subset DEF InUse
  <1>12. Cardinality(InUse \ {d}) = Cardinality(InUse) - 1
    BY <1>10, <1>11, FS_RemoveElement
  <1>13. task_count' = Cardinality(InUse) - 1
    BY DEF PagesAreAccountedFor, InUse
  <1>14. task_count' = Cardinality(InUse')
    BY <1>10, <1>12, <1>13
  <1>15. PagesAreAccountedFor'
    BY <1>3, <1>7, <1>8, <1>9, <1>14 DEF PagesAreAccountedFor, Dead, Listed, InUse
  <1> QED BY <1>1, <1>2, <1>4, <1>15

-----------------------------------------------------------------------------
(***************************************************************************)
(* The steps at which tasks are born, die, are collected and are freed.    *)
(***************************************************************************)

(* fork queues the child behind its parent and hangs it into the tree.     *)
LEMMA ForkKeeps ==
  ASSUME TaskInv, TypeOK', Fork
  PROVE  TaskInv'
  <1>0. TypeOK
    BY DEF TaskInv
  <1>1. Up /\ UpInv
    BY IsUp DEF Fork, Calls
  <1>2. UNCHANGED <<waiting, current_task, init_task, dead_tasks, fpu_owner,
                    cr3, cpu, killing>>
    BY DEF Fork
  <1>3. PICK c \in Task :
          /\ state[c] = "FREE"
          /\ state' = [state EXCEPT ![c] = "READY"]
          /\ parent' = [parent EXCEPT ![c] = current_task]
          /\ children' = [children EXCEPT ![current_task] = @ \cup {c}, ![c] = {}]
          /\ pdir' = pdir \cup {c}
          /\ task_queue_add(c)
          /\ task_count' = task_count + 1
    BY DEF Fork
  <1>4. /\ cpu = "user" /\ current_task # MainTask /\ current_task \in Task
        /\ state[current_task] = "RUNNING" /\ current_task # c
    BY <1>0, <1>1, <1>3 DEF Fork, Calls, TypeOK, UpInv, CurrentIsKnown
  <1>5. \A t \in Task : /\ state'[t] = IF t = c THEN "READY" ELSE state[t]
                        /\ parent'[t] = IF t = c THEN current_task ELSE parent[t]
                        /\ children'[t] = IF t = c THEN {}
                                          ELSE IF t = current_task THEN children[t] \cup {c}
                                          ELSE children[t]
    BY <1>0, <1>3, <1>4 DEF TypeOK
  <1>6. OnQueue' = OnQueue \cup {c} /\ c \notin OnQueue /\ current_task \in OnQueue
    <2>1. c \notin OnQueue /\ current_task \in OnQueue
      BY <1>3, <1>4 DEF OnQueue, Queued, Living
    <2>2. \A t \in Task : state'[t] \in Queued <=> state[t] \in Queued \/ t = c
      BY <1>5 DEF Queued, Living
    <2> QED BY <2>1, <2>2 DEF OnQueue
  <1>7. Ring(OnQueue', next', prev')
    <2>1. Ring(OnQueue, next, prev)
      BY <1>1 DEF UpInv
    <2>2. next[current_task] \in OnQueue /\ next[current_task] \in Task
      BY <1>6, <2>1 DEF Ring, OnQueue
    <2>3. \A t \in Task : next'[t] = IF t = c THEN next[current_task]
                                     ELSE IF t = current_task THEN c ELSE next[t]
      BY <1>0, <1>3, <1>4 DEF TypeOK, task_queue_add
    <2>4. \A t \in Task : prev'[t] = IF t = next[current_task] THEN c
                                     ELSE IF t = c THEN current_task ELSE prev[t]
      BY <1>0, <1>3, <1>4, <2>2 DEF TypeOK, task_queue_add
    <2>5. OnQueue \cup {c} \subseteq Task
      BY DEF OnQueue
    <2>6. PICK u \in OnQueue : u = current_task
      BY <1>6
    <2>7. \A t \in OnQueue \cup {c} : next'[t] = IF t = c THEN next[u]
                                     ELSE IF t = u THEN c ELSE next[t]
      BY <2>3, <2>5, <2>6
    <2>8. \A t \in OnQueue \cup {c} : prev'[t] = IF t = next[u] THEN c
                                     ELSE IF t = c THEN u ELSE prev[t]
      BY <2>4, <2>5, <2>6
    <2>9. Ring(OnQueue \cup {c}, next', prev')
      BY <1>6, <2>1, <2>7, <2>8, RingAdd
    <2> QED BY <1>6, <2>9
  <1>8. TreeIsSound'
    <2>1. /\ \A x, y \in Task : x \in children[y] <=> parent[x] = y /\ state[x] \in Queued
          /\ \A x \in OnQueue \ {MainTask} : parent[x] \in Task /\ state[parent[x]] \in Living
          /\ parent[MainTask] = NULL
      BY <1>1 DEF UpInv, TreeIsSound, RootsAreSafe
    <2>2. \A x \in Task : parent[x] = c => state[x] \notin Queued
      BY <1>3, <2>1, TaskAssumption DEF OnQueue, Living
    <2>3. \A y \in Task : c \notin children[y]
      BY <1>3, <2>1 DEF Queued, Living
    <2>4. \A x, y \in Task : x \in children'[y] <=> parent'[x] = y /\ state'[x] \in Queued
      <3> TAKE x, y \in Task
      <3>1. CASE x = c
        BY <1>4, <1>5, <2>3, <3>1 DEF Queued, Living
      <3>2. CASE x # c /\ y = c
        BY <1>5, <2>2, <3>2
      <3>3. CASE x # c /\ y # c
        <4>1. x \in children'[y] <=> x \in children[y]
          BY <1>5, <3>3
        <4>2. parent'[x] = parent[x] /\ state'[x] = state[x]
          BY <1>5, <3>3
        <4> QED BY <2>1, <4>1, <4>2
      <3> QED BY <3>1, <3>2, <3>3
    <2>5. \A x \in OnQueue' \ {MainTask} : parent'[x] \in Task /\ state'[parent'[x]] \in Living
      <3> TAKE x \in OnQueue' \ {MainTask}
      <3>1. CASE x = c
        BY <1>4, <1>5, <3>1 DEF Living
      <3>2. CASE x # c
        <4>1. x \in Task /\ parent'[x] = parent[x] /\ parent[x] \in Task /\ state[parent[x]] \in Living
          BY <1>5, <1>6, <2>1, <3>2 DEF OnQueue
        <4> QED BY <1>5, <4>1 DEF Living
      <3> QED BY <3>1, <3>2
    <2> QED BY <2>4, <2>5 DEF TreeIsSound
  <1>9. RootsAreSafe'
    <2>1. init_task \in Task /\ c # MainTask /\ c # init_task
      BY <1>0, <1>1, <1>3 DEF TypeOK, UpInv, RootsAreSafe, Living
    <2> QED BY <1>1, <1>2, <1>5, <2>1, TaskAssumption DEF UpInv, RootsAreSafe, Living
  <1>10. CurrentIsKnown' /\ KillingIsPath' /\ OnlyCurrentRuns'
    BY <1>1, <1>2, <1>4, <1>5 DEF UpInv, CurrentIsKnown, KillingIsPath, TaskInv, OnlyCurrentRuns
  <1>11. SpacesAreSound'
    <2>1. pdir' = {t \in Task \ {MainTask} : state'[t] \in Living}
      <3>1. c # MainTask /\ pdir = {t \in Task \ {MainTask} : state[t] \in Living}
        BY <1>1, <1>3, <1>4 DEF UpInv, RootsAreSafe, SpacesAreSound
      <3> QED BY <1>3, <1>5, <3>1 DEF Living
    <2>2. cr3' # NULL => cr3' = current_task' /\ cr3' \in pdir'
      BY <1>1, <1>2, <1>3, <1>4 DEF UpInv, SpacesAreSound
    <2>3. fpu_owner' # NULL => fpu_owner' \in Task /\ state'[fpu_owner'] \in Living
      BY <1>1, <1>2, <1>3, <1>5 DEF UpInv, SpacesAreSound, Living
    <2> QED BY <1>2, <1>4, <2>1, <2>2, <2>3 DEF SpacesAreSound
  <1>12. Waiters' /\ NoLostWakeup'
    <2>1. waiting[c] = NULL
      BY <1>3 DEF TaskInv, Waiters, Living
    <2>2. Waiters'
      BY <1>2, <1>4, <1>5, <2>1 DEF TaskInv, Waiters
    <2>3. MissesNone'
      <3> SUFFICES ASSUME NEW t \in Task, NEW x \in children'[t], state'[t] = "SLEEPING",
                          waiting'[t] # NULL, state'[x] = "ZOMBIE"
                   PROVE  waiting'[t] \notin {AnyPid, x}
        BY DEF MissesNone
      <3>1. t # c /\ t # current_task /\ state[t] = "SLEEPING" /\ children'[t] = children[t]
        BY <1>4, <1>5
      <3>2. x \in Task /\ state[x] = "ZOMBIE"
        BY <1>0, <1>5, <3>1 DEF TypeOK
      <3> QED BY <1>2, <3>1, <3>2, MissesNoneFacts DEF TaskInv, MissesNone
    <2> QED BY <2>2, <2>3, MissesNoneFacts
  <1>13. PagesAreAccountedFor'
    BY <1>0, <1>2, <1>3, <1>4, OneMoreInUse DEF TaskInv
  <1>14. Up' /\ UpInv'
    BY <1>7, <1>8, <1>9, <1>10, <1>11 DEF UpInv, Up, CurrentIsKnown
  <1> QED BY <1>2, <1>4, <1>10, <1>12, <1>13, <1>14 DEF TaskInv

(* The reaper frees a page that the queue and the tree have forgotten.     *)
LEMMA ReaperKeeps ==
  ASSUME TaskInv, TypeOK', Reaper
  PROVE  TaskInv'
  <1>0. TypeOK
    BY DEF TaskInv
  <1>1. Up /\ UpInv
    BY IsUp DEF Reaper
  <1>2. UNCHANGED <<waiting, pdir, current_task, init_task, fpu_owner, cr3, cpu, killing>>
    BY DEF Reaper
  <1>3. PagesAreAccountedFor' /\ Head(dead_tasks) \in Task /\ state[Head(dead_tasks)] = "DEAD"
    <2>1. /\ dead_tasks # <<>> /\ dead_tasks' = Tail(dead_tasks) /\ cpu = "schedule"
          /\ state' = [state EXCEPT ![Head(dead_tasks)] = "FREE"]
          /\ task_count' = task_count - 1
      BY DEF Reaper
    <2> QED BY <1>0, <2>1, OneLessInUse DEF TaskInv
  <1>4. PICK d \in Task : d = Head(dead_tasks)
    BY <1>3
  <1>5. /\ cpu = "schedule" /\ state[d] = "DEAD"
        /\ state' = [state EXCEPT ![d] = "FREE"]
        /\ next' = [next EXCEPT ![d] = NULL] /\ prev' = [prev EXCEPT ![d] = NULL]
        /\ parent' = [parent EXCEPT ![d] = NULL]
        /\ children' = [children EXCEPT ![d] = {}]
    BY <1>3, <1>4 DEF Reaper
  <1>6. \A t \in Task : /\ state'[t] = IF t = d THEN "FREE" ELSE state[t]
                        /\ next'[t] = IF t = d THEN NULL ELSE next[t]
                        /\ prev'[t] = IF t = d THEN NULL ELSE prev[t]
                        /\ parent'[t] = IF t = d THEN NULL ELSE parent[t]
                        /\ children'[t] = IF t = d THEN {} ELSE children[t]
    BY <1>0, <1>5 DEF TypeOK
  <1>7. OnQueue' = OnQueue /\ d \notin OnQueue
    BY <1>5, <1>6 DEF OnQueue, Queued, Living
  <1>8. Ring(OnQueue', next', prev')
    <2>1. Ring(OnQueue, next, prev)
      BY <1>1 DEF UpInv
    <2>2. \A t \in OnQueue : next'[t] = next[t] /\ prev'[t] = prev[t]
      BY <1>6, <1>7 DEF OnQueue
    <2>3. Ring(OnQueue, next', prev')
      BY <2>1, <2>2 DEF Ring
    <2> QED BY <1>7, <2>3
  <1>9. TreeIsSound'
    <2>1. /\ \A x, y \in Task : x \in children[y] <=> parent[x] = y /\ state[x] \in Queued
          /\ \A x \in OnQueue \ {MainTask} : parent[x] \in Task /\ state[parent[x]] \in Living
          /\ parent[MainTask] = NULL
      BY <1>1 DEF UpInv, TreeIsSound, RootsAreSafe
    <2>2. \A x \in Task : parent[x] = d => state[x] \notin Queued
      BY <1>5, <2>1, TaskAssumption DEF OnQueue, Living
    <2>3. \A x, y \in Task : x \in children'[y] <=> parent'[x] = y /\ state'[x] \in Queued
      <3> TAKE x, y \in Task
      <3>1. CASE y = d
        BY <1>6, <2>2, <3>1, TaskAssumption
      <3>2. CASE y # d /\ x = d
        <4>1. y # NULL /\ x \notin children[y]
          BY <1>5, <2>1, <3>2, TaskAssumption DEF Queued, Living
        <4> QED BY <1>6, <3>2, <4>1
      <3>3. CASE y # d /\ x # d
        BY <1>6, <2>1, <3>3
      <3> QED BY <3>1, <3>2, <3>3
    <2>4. \A x \in OnQueue' \ {MainTask} : parent'[x] \in Task /\ state'[parent'[x]] \in Living
      <3> TAKE x \in OnQueue' \ {MainTask}
      <3>1. x \in Task /\ x # d /\ parent[x] \in Task /\ state[parent[x]] \in Living
        BY <1>7, <2>1 DEF OnQueue
      <3> QED BY <1>5, <1>6, <3>1 DEF Living
    <2> QED BY <2>3, <2>4 DEF TreeIsSound
  <1>10. d # MainTask /\ d # init_task /\ d # current_task /\ init_task \in Task /\ current_task \in Task
    BY <1>0, <1>1, <1>5 DEF TypeOK, UpInv, RootsAreSafe, CurrentIsKnown, Living
  <1>11. RootsAreSafe'
    BY <1>1, <1>2, <1>6, <1>10, TaskAssumption DEF UpInv, RootsAreSafe
  <1>12. CurrentIsKnown' /\ KillingIsPath' /\ OnlyCurrentRuns'
    BY <1>1, <1>2, <1>5, <1>6, <1>10 DEF UpInv, CurrentIsKnown, KillingIsPath, TaskInv, OnlyCurrentRuns
  <1>13. SpacesAreSound'
    <2>1. pdir' = {t \in Task \ {MainTask} : state'[t] \in Living}
      BY <1>1, <1>2, <1>5, <1>6 DEF UpInv, SpacesAreSound, Living
    <2> QED BY <1>1, <1>2, <1>5, <1>6, <2>1 DEF UpInv, SpacesAreSound, Living
  <1>14. Waiters' /\ MissesNone'
    <2>1. Waiters'
      BY <1>2, <1>5, <1>6 DEF TaskInv, Waiters, Living
    <2>2. MissesNone'
      BY <1>0, <1>2, <1>6, MissesNoneFacts DEF TaskInv, MissesNone, TypeOK
    <2> QED BY <2>1, <2>2
  <1>15. Up' /\ UpInv'
    BY <1>8, <1>9, <1>11, <1>12, <1>13 DEF UpInv, Up, CurrentIsKnown
  <1> QED BY <1>2, <1>3, <1>5, <1>12, <1>14, <1>15, MissesNoneFacts DEF TaskInv

(* waitpid collects a zombie: it has no children, and leaves the queue and *)
(* the tree as it goes to the reaper.                                      *)
LEMMA ReapKeeps ==
  ASSUME TaskInv, TypeOK', NEW z \in children[current_task], state[z] = "ZOMBIE",
         Reap(z), cpu \in {"user", "waitpid"}, cpu' = "user", current_task # MainTask,
         waiting' = [waiting EXCEPT ![current_task] = NULL]
  PROVE  TaskInv'
  <1>0. TypeOK
    BY DEF TaskInv
  <1>1. Up /\ UpInv
    BY IsUp
  <1>2. UNCHANGED <<parent, pdir, current_task, init_task, task_count, fpu_owner,
                    cr3, killing>>
    BY DEF Reap
  <1>3. /\ current_task \in Task /\ state[current_task] = "RUNNING" /\ z \in Task
        /\ z # current_task /\ state' = [state EXCEPT ![z] = "DEAD"]
        /\ children' = [children EXCEPT ![current_task] = @ \ {z}]
    BY <1>0, <1>1 DEF TypeOK, UpInv, CurrentIsKnown, Reap
  <1>4. \A t \in Task : /\ state'[t] = IF t = z THEN "DEAD" ELSE state[t]
                        /\ waiting'[t] = IF t = current_task THEN NULL ELSE waiting[t]
                        /\ children'[t] = IF t = current_task THEN children[t] \ {z}
                                          ELSE children[t]
    BY <1>0, <1>3 DEF TypeOK
  <1>5. OnQueue' = OnQueue \ {z} /\ z \in OnQueue /\ current_task \in OnQueue
    <2>1. z \in OnQueue /\ current_task \in OnQueue
      BY <1>3 DEF OnQueue, Queued, Living
    <2>2. OnQueue' = OnQueue \ {z}
      BY <1>4 DEF OnQueue, Queued, Living
    <2> QED BY <2>1, <2>2
  <1>6. Ring(OnQueue', next', prev')
    <2>1. Ring(OnQueue, next, prev)
      BY <1>1 DEF UpInv
    <2>2. \A t \in OnQueue \ {z} : next'[t] = IF t = prev[z] THEN next[z] ELSE next[t]
      BY <1>0 DEF TypeOK, Reap, UnlinkZombie, OnQueue
    <2>3. \A t \in OnQueue \ {z} : prev'[t] = IF t = next[z] THEN prev[z] ELSE prev[t]
      BY <1>0 DEF TypeOK, Reap, UnlinkZombie, OnQueue
    <2>4. PICK u \in OnQueue : u = current_task
      BY <1>5
    <2>5. Ring(OnQueue \ {z}, next', prev')
      BY <1>3, <1>5, <2>1, <2>2, <2>3, <2>4, RingRemove
    <2> QED BY <1>5, <2>5
  <1>7. TreeIsSound'
    <2>1. /\ \A x, y \in Task : x \in children[y] <=> parent[x] = y /\ state[x] \in Queued
          /\ \A x \in OnQueue \ {MainTask} : parent[x] \in Task /\ state[parent[x]] \in Living
          /\ parent[MainTask] = NULL
      BY <1>1 DEF UpInv, TreeIsSound, RootsAreSafe
    <2>2. parent[z] = current_task
      BY <1>3, <2>1
    <2>3. \A x, y \in Task : x \in children'[y] <=> parent'[x] = y /\ state'[x] \in Queued
      <3> TAKE x, y \in Task
      <3>1. CASE x = z
        <4>1. state'[x] \notin Queued
          BY <1>4, <3>1 DEF Queued, Living
        <4>2. y # current_task => x \notin children[y]
          BY <2>1, <2>2, <3>1
        <4> QED BY <1>4, <3>1, <4>1, <4>2
      <3>2. CASE x # z
        <4>1. parent'[x] = parent[x] /\ state'[x] = state[x]
              /\ (x \in children'[y] <=> x \in children[y])
          BY <1>2, <1>4, <3>2
        <4> QED BY <2>1, <4>1
      <3> QED BY <3>1, <3>2
    <2>4. \A x \in OnQueue' \ {MainTask} : parent'[x] \in Task /\ state'[parent'[x]] \in Living
      BY <1>2, <1>4, <1>5, <2>1 DEF OnQueue, Living
    <2> QED BY <2>3, <2>4 DEF TreeIsSound
  <1>8. z # MainTask /\ z # init_task /\ init_task \in Task
    BY <1>0, <1>1 DEF TypeOK, UpInv, RootsAreSafe, Living
  <1>9. RootsAreSafe'
    <2>1. \A t \in Task : t # z => state'[t] = state[t]
      BY <1>4
    <2> QED BY <1>1, <1>2, <1>8, <2>1, TaskAssumption DEF UpInv, RootsAreSafe
  <1>10. CurrentIsKnown' /\ KillingIsPath' /\ OnlyCurrentRuns'
    BY <1>2, <1>3, <1>4 DEF CurrentIsKnown, KillingIsPath, TaskInv, OnlyCurrentRuns
  <1>11. SpacesAreSound'
    <2>1. \A t \in Task : state'[t] \in Living <=> state[t] \in Living
      BY <1>3, <1>4 DEF Living
    <2>2. SpacesAreSound
      BY <1>1 DEF UpInv
    <2>3. pdir' = {t \in Task \ {MainTask} : state'[t] \in Living}
      BY <1>2, <2>1, <2>2 DEF SpacesAreSound
    <2>4. cr3' # NULL => cr3' = current_task' /\ cr3' \in pdir'
      BY <1>2, <2>2 DEF SpacesAreSound
    <2>5. fpu_owner' # NULL => fpu_owner' \in Task /\ state'[fpu_owner'] \in Living
      BY <1>2, <2>1, <2>2 DEF SpacesAreSound
    <2>6. cpu' # "cleanup"
      OBVIOUS
    <2> QED BY <2>3, <2>4, <2>5, <2>6 DEF SpacesAreSound
  <1>12. Waiters' /\ MissesNone'
    <2>1. Waiters'
      BY <1>2, <1>3, <1>4 DEF TaskInv, Waiters, Living
    <2>2. MissesNone'
      <3> SUFFICES ASSUME NEW t \in Task, NEW c \in children'[t], state'[t] = "SLEEPING",
                          waiting'[t] # NULL, state'[c] = "ZOMBIE"
                   PROVE  waiting'[t] \notin {AnyPid, c}
        BY DEF MissesNone
      <3>1. children'[t] \subseteq children[t] /\ c \in Task
        BY <1>0, <1>4 DEF TypeOK
      <3>2. c \in children[t] /\ waiting'[t] = waiting[t] /\ state[t] = "SLEEPING"
            /\ state[c] = "ZOMBIE"
        BY <1>4, <3>1
      <3> QED BY <3>2, MissesNoneFacts DEF TaskInv, MissesNone
    <2> QED BY <2>1, <2>2
  <1>13. PagesAreAccountedFor'
    <2>1. Push(z) /\ cpu \notin {"reset", "halted"} /\ state[z] \in Queued
      BY DEF Reap, Queued
    <2> QED BY <1>0, <1>2, <1>3, <1>4, <2>1, OneMoreDies DEF TaskInv
  <1>14. Up' /\ UpInv'
    BY <1>6, <1>7, <1>9, <1>10, <1>11 DEF UpInv, Up, CurrentIsKnown
  <1> QED BY <1>2, <1>10, <1>12, <1>13, <1>14, MissesNoneFacts DEF TaskInv

(* Both forms of waitpid that collect a zombie.                            *)
LEMMA WaitKeeps ==
  ASSUME TaskInv, TypeOK', WaitNoHang \/ WaitReap
  PROVE  TaskInv'
  <1>0. TypeOK
    BY DEF TaskInv
  <1>1. PICK z \in children[current_task] : state[z] = "ZOMBIE" /\ Reap(z)
    BY DEF WaitNoHang, WaitReap, Zombies
  <1>2. CASE WaitNoHang
    <2>1. /\ cpu = "user" /\ cpu' = "user" /\ current_task # MainTask
          /\ waiting' = waiting /\ waiting[current_task] = NULL
      BY <1>2 DEF WaitNoHang, Calls, TaskInv, Waiters
    <2>2. waiting' = [waiting EXCEPT ![current_task] = NULL]
      BY <1>0, <2>1 DEF TypeOK
    <2> QED BY <1>1, <2>1, <2>2, ReapKeeps
  <1>3. CASE WaitReap
    <2>1. /\ cpu = "waitpid" /\ cpu' = "user"
          /\ waiting' = [waiting EXCEPT ![current_task] = NULL]
      BY <1>3 DEF WaitReap
    <2>2. current_task # MainTask
      BY <2>1, IsUp DEF UpInv, CurrentIsKnown
    <2> QED BY <1>1, <2>1, <2>2, ReapKeeps
  <1> QED BY <1>2, <1>3

(* What the clean-up kills is not on the path of its own activations: who  *)
(* is on the path has a child, or is the parent of the one killed.         *)
LEMMA KilledIsOffPath ==
  ASSUME TaskInv, UpInv, cpu = "cleanup", killing # <<>>,
         NEW c \in children[Victim], ~Recurses(c)
  PROVE  /\ Victim \in Task /\ state[Victim] \in Living /\ Victim # MainTask
         /\ c \in Task /\ parent[c] = Victim /\ state[c] \in Queued
         /\ \A i \in 1..Len(killing) : killing[i] # c
         /\ c # current_task
         /\ \A x \in Task : parent[x] = c => state[x] \notin Queued
  <1>0. TypeOK
    BY DEF TaskInv
  <1>1. /\ killing[Len(killing)] = current_task
        /\ \A i \in 1..Len(killing) : killing[i] # MainTask /\ state[killing[i]] \in Living
        /\ \A i \in 1..Len(killing) - 1 : parent[killing[i]] = killing[i + 1]
    BY DEF UpInv, KillingIsPath
  <1>2. /\ Victim = killing[1] /\ Victim \in Task /\ Len(killing) \in Nat /\ Len(killing) >= 1
        /\ killing \in Seq(Task)
    BY <1>0, PopFacts DEF Victim, TypeOK
  <1>3. PICK v \in Task : v = Victim
    BY <1>2
  <1>4. /\ \A x, y \in Task : x \in children[y] <=> parent[x] = y /\ state[x] \in Queued
        /\ \A x \in OnQueue \ {MainTask} : parent[x] \in Task /\ state[parent[x]] \in Living
        /\ parent[MainTask] = NULL
    BY DEF UpInv, TreeIsSound, RootsAreSafe
  <1>5. c \in children[v] /\ c \in Task
    BY <1>0, <1>3 DEF TypeOK
  <1>6. parent[c] = v /\ state[c] \in Queued
    BY <1>4, <1>5
  <1>7. state[v] \in Living /\ v # MainTask
    BY <1>1, <1>2, <1>3
  <1>8. \A x \in Task : parent[x] = c => state[x] \notin Queued
    <2> SUFFICES ASSUME NEW x \in Task, parent[x] = c, state[x] \in Queued PROVE FALSE
      OBVIOUS
    <2>1. x \in children[c] /\ state[c] \in Living
      BY <1>4, <1>5, TaskAssumption DEF OnQueue
    <2> QED BY <2>1 DEF Recurses, Living
  <1>9. \A i \in 1..Len(killing) : killing[i] # c
    <2> SUFFICES ASSUME NEW i \in 1..Len(killing), killing[i] = c PROVE FALSE
      OBVIOUS
    <2>1. CASE i = 1
      BY <1>2, <1>3, <1>6, <1>8, <2>1, <1>5
    <2>2. CASE i # 1
      <3>1. i - 1 \in 1..Len(killing) - 1 /\ i - 1 \in 1..Len(killing) /\ i - 1 + 1 = i
        BY <1>2, <2>2
      <3>2. parent[killing[i - 1]] = c
        BY <1>1, <3>1
      <3>3. killing[i - 1] \in Task /\ state[killing[i - 1]] \in Queued
        BY <1>1, <1>2, <3>1 DEF Queued
      <3> QED BY <1>8, <3>2, <3>3
    <2> QED BY <2>1, <2>2
  <1>10. c # current_task
    BY <1>1, <1>2, <1>9
  <1> QED BY <1>3, <1>5, <1>6, <1>7, <1>8, <1>9, <1>10

(* The links of the other tasks once c is unlinked.                        *)
LEMMA UnlinkFacts ==
  ASSUME TypeOK, NEW c \in Task, Unlink(c)
  PROVE  /\ \A t \in Task \ {c} : next'[t] = IF t = prev[c] THEN next[c] ELSE next[t]
         /\ \A t \in Task \ {c} : prev'[t] = IF t = next[c] THEN prev[c] ELSE prev[t]
  <1>1. /\ next' = [next EXCEPT ![prev[c]] = next[c], ![c] = c]
        /\ next \in [Task -> Task \cup {NULL}]
    BY DEF Unlink, TypeOK
  <1>2. /\ prev' = [prev EXCEPT ![next[c]] = prev[c], ![c] = c]
        /\ prev \in [Task -> Task \cup {NULL}]
    BY DEF Unlink, TypeOK
  <1>3. \A t \in Task \ {c} : next'[t] = IF t = prev[c] THEN next[c] ELSE next[t]
    BY <1>1
  <1>4. \A t \in Task \ {c} : prev'[t] = IF t = next[c] THEN prev[c] ELSE prev[t]
    BY <1>2
  <1> QED BY <1>3, <1>4

(* The clean-up kills a child that has nobody left below it.               *)
LEMMA CleanupKillKeeps ==
  ASSUME TaskInv, TypeOK', CleanupKill
  PROVE  TaskInv'
  <1>0. TypeOK
    BY DEF TaskInv
  <1>1. Up /\ UpInv
    BY IsUp DEF CleanupKill
  <1>2. UNCHANGED <<parent, current_task, init_task, task_count, cr3, cpu, killing>>
    BY DEF CleanupKill
  <1>3. PICK c \in children[Victim] :
          /\ ~Recurses(c)
          /\ fpu_owner' = Release(c) /\ pdir' = Destroy(c)
          /\ state' = [state EXCEPT ![c] = "DEAD"]
          /\ waiting' = [waiting EXCEPT ![c] = NULL]
          /\ children' = [children EXCEPT ![Victim] = @ \ {c}]
          /\ Unlink(c) /\ Push(c)
    BY DEF CleanupKill
  <1>4. cpu = "cleanup" /\ killing # <<>>
    BY DEF CleanupKill
  <1>5. /\ Victim \in Task /\ state[Victim] \in Living /\ Victim # MainTask
        /\ c \in Task /\ parent[c] = Victim /\ state[c] \in Queued
        /\ \A i \in 1..Len(killing) : killing[i] # c
        /\ c # current_task
        /\ \A x \in Task : parent[x] = c => state[x] \notin Queued
    BY <1>1, <1>3, <1>4, KilledIsOffPath
  <1>6. PICK v \in Task : v = Victim
    BY <1>5
  <1>7. \A t \in Task : /\ state'[t] = IF t = c THEN "DEAD" ELSE state[t]
                        /\ waiting'[t] = IF t = c THEN NULL ELSE waiting[t]
                        /\ children'[t] = IF t = v THEN children[t] \ {c} ELSE children[t]
    <2>1. /\ state' = [state EXCEPT ![c] = "DEAD"]
          /\ waiting' = [waiting EXCEPT ![c] = NULL]
          /\ children' = [children EXCEPT ![v] = children[v] \ {c}]
      BY <1>3, <1>6
    <2>2. /\ state \in [Task -> Queued \cup {"DEAD", "FREE"}]
          /\ waiting \in [Task -> Task \cup {NULL, AnyPid}]
          /\ children \in [Task -> SUBSET Task]
      BY <1>0 DEF TypeOK
    <2> QED BY <2>1, <2>2
  <1>8. /\ current_task \in Task /\ state[current_task] = "RUNNING"
        /\ current_task # MainTask
    BY <1>0, <1>1, <1>4 DEF TypeOK, UpInv, CurrentIsKnown
  <1>9. OnQueue' = OnQueue \ {c} /\ c \in OnQueue /\ current_task \in OnQueue
    <2>1. c \in OnQueue /\ current_task \in OnQueue
      BY <1>5, <1>8 DEF OnQueue, Queued, Living
    <2>2. OnQueue' = OnQueue \ {c}
      BY <1>7 DEF OnQueue, Queued, Living
    <2> QED BY <2>1, <2>2
  <1>10. Ring(OnQueue', next', prev')
    <2>1. Ring(OnQueue, next, prev)
      BY <1>1 DEF UpInv
    <2>2. \A t \in OnQueue \ {c} : next'[t] = IF t = prev[c] THEN next[c] ELSE next[t]
      BY <1>0, <1>3, <1>5, UnlinkFacts DEF OnQueue
    <2>3. \A t \in OnQueue \ {c} : prev'[t] = IF t = next[c] THEN prev[c] ELSE prev[t]
      BY <1>0, <1>3, <1>5, UnlinkFacts DEF OnQueue
    <2>4. PICK u \in OnQueue : u = current_task
      BY <1>9
    <2>5. Ring(OnQueue \ {c}, next', prev')
      BY <1>5, <1>9, <2>1, <2>2, <2>3, <2>4, RingRemove
    <2> QED BY <1>9, <2>5
  <1>11. TreeIsSound'
    <2>1. /\ \A x, y \in Task : x \in children[y] <=> parent[x] = y /\ state[x] \in Queued
          /\ \A x \in OnQueue \ {MainTask} : parent[x] \in Task /\ state[parent[x]] \in Living
      BY <1>1 DEF UpInv, TreeIsSound
    <2>2. \A x, y \in Task : x \in children'[y] <=> parent'[x] = y /\ state'[x] \in Queued
      <3> TAKE x, y \in Task
      <3>1. CASE x = c
        <4>1. state'[x] \notin Queued
          BY <1>7, <3>1 DEF Queued, Living
        <4>2. y # v => x \notin children[y]
          BY <1>5, <1>6, <2>1, <3>1
        <4> QED BY <1>7, <3>1, <4>1, <4>2
      <3>2. CASE x # c
        <4>1. parent'[x] = parent[x] /\ state'[x] = state[x]
              /\ (x \in children'[y] <=> x \in children[y])
          BY <1>2, <1>7, <3>2
        <4> QED BY <2>1, <4>1
      <3> QED BY <3>1, <3>2
    <2>3. \A x \in OnQueue' \ {MainTask} : parent'[x] \in Task /\ state'[parent'[x]] \in Living
      <3> TAKE x \in OnQueue' \ {MainTask}
      <3>1. x \in Task /\ state[x] \in Queued /\ parent[x] \in Task /\ state[parent[x]] \in Living
        BY <1>9, <2>1 DEF OnQueue
      <3>2. parent[x] # c
        BY <1>5, <3>1
      <3> QED BY <1>2, <1>7, <3>1, <3>2
    <2> QED BY <2>2, <2>3 DEF TreeIsSound
  <1>12. c # MainTask /\ c # init_task /\ init_task \in Task
    BY <1>0, <1>1, <1>5, TaskAssumption DEF TypeOK, UpInv, RootsAreSafe
  <1>13. RootsAreSafe'
    <2>1. \A t \in Task : t # c => state'[t] = state[t]
      BY <1>7
    <2> QED BY <1>1, <1>2, <1>12, <2>1, TaskAssumption DEF UpInv, RootsAreSafe
  <1>14. CurrentIsKnown' /\ OnlyCurrentRuns'
    BY <1>2, <1>4, <1>5, <1>7, <1>8 DEF CurrentIsKnown, TaskInv, OnlyCurrentRuns
  <1>15. KillingIsPath'
    <2>1. /\ killing[Len(killing)] = current_task
          /\ \A i \in 1..Len(killing) : killing[i] # MainTask /\ state[killing[i]] \in Living
          /\ \A i \in 1..Len(killing) - 1 : parent[killing[i]] = killing[i + 1]
      BY <1>1, <1>4 DEF UpInv, KillingIsPath
    <2>2. \A i \in 1..Len(killing) : killing[i] \in Task
      <3>1. killing \in Seq(Task)
        BY <1>0 DEF TypeOK
      <3> QED BY <3>1
    <2>3. \A i \in 1..Len(killing) : state'[killing[i]] \in Living
      <3> TAKE i \in 1..Len(killing)
      <3>1. killing[i] \in Task /\ killing[i] # c /\ state[killing[i]] \in Living
        BY <1>5, <2>1, <2>2
      <3> QED BY <1>7, <3>1
    <2> QED BY <1>2, <1>4, <2>1, <2>3 DEF KillingIsPath
  <1>16. SpacesAreSound'
    <2>1. pdir' = {t \in Task \ {MainTask} : state'[t] \in Living}
      <3>1. pdir' = pdir \ {c} /\ pdir = {t \in Task \ {MainTask} : state[t] \in Living}
        BY <1>1, <1>3, <1>4 DEF Destroy, UpInv, SpacesAreSound
      <3> QED BY <1>7, <3>1 DEF Living
    <2>2. cr3' # NULL => cr3' = current_task' /\ cr3' \in pdir'
      BY <1>1, <1>2, <1>3, <1>4, <1>5 DEF UpInv, SpacesAreSound, Destroy
    <2>3. fpu_owner' # NULL => /\ fpu_owner' \in Task /\ state'[fpu_owner'] \in Living
                               /\ fpu_owner' # current_task'
      BY <1>1, <1>2, <1>3, <1>4, <1>7 DEF UpInv, SpacesAreSound, Release
    <2> QED BY <1>2, <1>4, <2>1, <2>2, <2>3 DEF SpacesAreSound
  <1>17. Waiters' /\ MissesNone'
    <2>1. Waiters'
      BY <1>2, <1>4, <1>7, <1>8 DEF TaskInv, Waiters
    <2>2. MissesNone'
      BY <1>0, <1>7, MissesNoneFacts DEF TaskInv, MissesNone, TypeOK
    <2> QED BY <2>1, <2>2
  <1>18. PagesAreAccountedFor'
    BY <1>0, <1>2, <1>3, <1>4, <1>5, <1>7, OneMoreDies DEF TaskInv
  <1>19. Up' /\ UpInv'
    BY <1>10, <1>11, <1>13, <1>14, <1>15, <1>16 DEF UpInv, Up, CurrentIsKnown
  <1> QED BY <1>2, <1>4, <1>14, <1>17, <1>18, <1>19, MissesNoneFacts DEF TaskInv

(* What an exit does to the states: the task becomes a zombie (Init dies   *)
(* at once), and its parent, if it sleeps, is woken.                       *)
LEMMA ExitFacts ==
  ASSUME TaskInv, BecomeZombie
  PROVE  /\ Up /\ UpInv /\ TypeOK /\ cpu = "leaving" /\ cpu' = "schedule"
         /\ current_task \in Task /\ current_task # MainTask
         /\ state[current_task] = "RUNNING" /\ waiting[current_task] = NULL
         /\ parent[current_task] \in Task /\ parent[current_task] # current_task
         /\ state[parent[current_task]] \in Living
         /\ \A x \in Task : parent[x] = current_task => state[x] \notin Queued
         /\ \A t \in Task : state'[t] =
              IF t = current_task THEN IF t = init_task THEN "DEAD" ELSE "ZOMBIE"
              ELSE IF t = parent[current_task] /\ state[t] = "SLEEPING" THEN "READY"
              ELSE state[t]
  <1>0. TypeOK
    BY DEF TaskInv
  <1>1. Up /\ UpInv
    BY IsUp DEF BecomeZombie
  <1>2. cpu = "leaving" /\ cpu' = "schedule"
    BY DEF BecomeZombie
  <1>3. /\ current_task \in Task /\ current_task # MainTask
        /\ state[current_task] = "RUNNING" /\ waiting[current_task] = NULL
        /\ children[current_task] = {}
    BY <1>0, <1>1, <1>2 DEF TypeOK, UpInv, CurrentIsKnown, KillingIsPath, TaskInv, Waiters
  <1>4. PICK me \in Task : me = current_task
    BY <1>3
  <1>5. /\ \A x, y \in Task : x \in children[y] <=> parent[x] = y /\ state[x] \in Queued
        /\ \A x \in OnQueue \ {MainTask} : parent[x] \in Task /\ state[parent[x]] \in Living
    BY <1>1 DEF UpInv, TreeIsSound
  <1>6. \A x \in Task : parent[x] = me => state[x] \notin Queued
    BY <1>3, <1>4, <1>5
  <1>7. me \in OnQueue \ {MainTask}
    BY <1>3, <1>4 DEF OnQueue, Queued, Living
  <1>8. parent[me] \in Task /\ state[parent[me]] \in Living
    BY <1>5, <1>7
  <1>9. parent[me] # me
    BY <1>6, <1>7 DEF OnQueue
  <1>10. \A t \in Task : state'[t] =
           IF t = me THEN IF t = init_task THEN "DEAD" ELSE "ZOMBIE"
           ELSE IF t = parent[me] /\ state[t] = "SLEEPING" THEN "READY"
           ELSE state[t]
    <2>1. parent[me] # NULL
      BY <1>8, TaskAssumption
    <2> QED BY <1>4, <2>1 DEF BecomeZombie, Wakes
  <1> QED BY <1>0, <1>1, <1>2, <1>3, <1>4, <1>6, <1>8, <1>9, <1>10

(* The parent that an exit could leave asleep is awake.                    *)
LEMMA ExitMissesNone ==
  ASSUME TaskInv, BecomeZombie
  PROVE  MissesNone'
  <1> SUFFICES ASSUME NEW t \in Task, NEW x \in children'[t], state'[t] = "SLEEPING",
                      waiting'[t] # NULL, state'[x] = "ZOMBIE"
               PROVE  waiting'[t] \notin {AnyPid, x}
    BY DEF MissesNone
  <1>1. UNCHANGED <<parent, children, waiting>>
    BY DEF BecomeZombie
  <1>2. TypeOK /\ UpInv
    BY ExitFacts
  <1>3. x \in Task /\ x \in children[t]
    BY <1>1, <1>2 DEF TypeOK
  <1>4. parent[x] = t
    BY <1>2, <1>3 DEF UpInv, TreeIsSound
  <1>5. state[t] = "SLEEPING" /\ t # parent[current_task]
    BY ExitFacts
  <1>6. x # current_task
    BY <1>4, <1>5
  <1>7. state[x] = "ZOMBIE"
    BY <1>3, <1>6, ExitFacts
  <1> QED BY <1>1, <1>3, <1>5, <1>7, MissesNoneFacts DEF TaskInv, MissesNone

(* Who exits does not wait, and who waits goes on living.                  *)
LEMMA ExitWaiters ==
  ASSUME TaskInv, BecomeZombie
  PROVE  Waiters'
  <1>1. waiting' = waiting /\ current_task' = current_task
    BY DEF BecomeZombie
  <1>2. \A t \in Task : t # current_task /\ state[t] \in Living => state'[t] \in Living
    BY ExitFacts DEF Living
  <1> QED BY <1>1, <1>2, ExitFacts DEF TaskInv, Waiters

(* A task other than Init becomes a zombie: it stays on the queue and in   *)
(* the tree, and gives up its address space.                               *)
LEMMA ZombieKeeps ==
  ASSUME TaskInv, TypeOK', BecomeZombie, current_task # init_task
  PROVE  TaskInv'
  <1>1. /\ Up /\ UpInv /\ TypeOK /\ cpu = "leaving" /\ cpu' = "schedule"
        /\ current_task \in Task /\ current_task # MainTask
        /\ state[current_task] = "RUNNING" /\ waiting[current_task] = NULL
        /\ parent[current_task] \in Task /\ parent[current_task] # current_task
        /\ state[parent[current_task]] \in Living
        /\ \A x \in Task : parent[x] = current_task => state[x] \notin Queued
        /\ \A t \in Task : state'[t] =
             IF t = current_task THEN "ZOMBIE"
             ELSE IF t = parent[current_task] /\ state[t] = "SLEEPING" THEN "READY"
             ELSE state[t]
    BY ExitFacts
  <1>2. UNCHANGED <<next, prev, parent, children, waiting, current_task, init_task,
                    dead_tasks, task_count, fpu_owner, killing>>
    BY DEF BecomeZombie
  <1>3. pdir' = pdir \ {current_task} /\ cr3' = NULL /\ killing' = <<>>
    BY <1>1, TaskAssumption DEF BecomeZombie, Destroy, TaskInv, UpInv, SpacesAreSound
  <1>4. \A t \in Task : /\ state'[t] \in Queued <=> state[t] \in Queued
                        /\ state'[t] = "DEAD" <=> state[t] = "DEAD"
                        /\ state'[t] = "FREE" <=> state[t] = "FREE"
                        /\ state'[t] \in Living <=> t # current_task /\ state[t] \in Living
    BY <1>1 DEF Queued, Living
  <1>5. OnQueue' = OnQueue
    BY <1>4 DEF OnQueue
  <1>6. Ring(OnQueue', next', prev')
    BY <1>1, <1>2, <1>5 DEF UpInv
  <1>7. TreeIsSound'
    <2>1. /\ \A x, y \in Task : x \in children[y] <=> parent[x] = y /\ state[x] \in Queued
          /\ \A x \in OnQueue \ {MainTask} : parent[x] \in Task /\ state[parent[x]] \in Living
      BY <1>1 DEF UpInv, TreeIsSound
    <2>2. \A x, y \in Task : x \in children'[y] <=> parent'[x] = y /\ state'[x] \in Queued
      BY <1>2, <1>4, <2>1
    <2>3. \A x \in OnQueue' \ {MainTask} : parent'[x] \in Task /\ state'[parent'[x]] \in Living
      <3> TAKE x \in OnQueue' \ {MainTask}
      <3>1. x \in Task /\ state[x] \in Queued /\ parent[x] \in Task /\ state[parent[x]] \in Living
        BY <1>5, <2>1 DEF OnQueue
      <3>2. parent[x] # current_task
        BY <1>1, <3>1
      <3> QED BY <1>2, <1>4, <3>1, <3>2
    <2> QED BY <2>2, <2>3 DEF TreeIsSound
  <1>8. RootsAreSafe'
    <2>1. init_task \in Task /\ state'[MainTask] = state[MainTask]
      BY <1>1, TaskAssumption DEF TypeOK, UpInv, RootsAreSafe
    <2> QED BY <1>1, <1>2, <1>4, <2>1 DEF UpInv, RootsAreSafe
  <1>9. CurrentIsKnown' /\ KillingIsPath' /\ OnlyCurrentRuns'
    BY <1>1, <1>2 DEF CurrentIsKnown, KillingIsPath, TaskInv, OnlyCurrentRuns
  <1>10. SpacesAreSound'
    <2>1. pdir' = {t \in Task \ {MainTask} : state'[t] \in Living}
      BY <1>1, <1>3, <1>4 DEF UpInv, SpacesAreSound
    <2>2. fpu_owner' # NULL => fpu_owner' \in Task /\ state'[fpu_owner'] \in Living
      BY <1>1, <1>2, <1>4 DEF UpInv, SpacesAreSound
    <2> QED BY <1>1, <1>3, <2>1, <2>2 DEF SpacesAreSound
  <1>11. PagesAreAccountedFor'
    <2>1. Dead' = Dead /\ Listed' = Listed /\ InUse' = InUse
      BY <1>2, <1>4 DEF Dead, Listed, InUse
    <2>2. Dead = Listed /\ task_count = Cardinality(InUse)
      BY <1>1 DEF TaskInv, PagesAreAccountedFor, Dead, Listed, InUse
    <2>3. Dead' = Listed' /\ task_count' = Cardinality(InUse')
      BY <1>2, <2>1, <2>2
    <2>4. \A i, j \in DOMAIN dead_tasks' : dead_tasks'[i] = dead_tasks'[j] => i = j
      BY <1>2 DEF TaskInv, PagesAreAccountedFor
    <2> QED BY <2>3, <2>4 DEF PagesAreAccountedFor, Dead, Listed, InUse
  <1>12. Up' /\ UpInv'
    BY <1>6, <1>7, <1>8, <1>9, <1>10 DEF UpInv, Up, CurrentIsKnown
  <1> QED BY <1>3, <1>9, <1>11, <1>12, ExitMissesNone, ExitWaiters, MissesNoneFacts DEF TaskInv

(* Init goes to the head of the reaper's list at once: the kernel is lost. *)
LEMMA InitExitKeeps ==
  ASSUME TaskInv, TypeOK', BecomeZombie, current_task = init_task
  PROVE  TaskInv'
  <1>1. /\ TypeOK /\ cpu = "leaving" /\ cpu' = "schedule"
        /\ current_task \in Task /\ state[current_task] = "RUNNING"
        /\ \A t \in Task : state'[t] =
             IF t = current_task THEN "DEAD"
             ELSE IF t = parent[current_task] /\ state[t] = "SLEEPING" THEN "READY"
             ELSE state[t]
    BY ExitFacts
  <1>2. UNCHANGED <<current_task, init_task, task_count>> /\ killing' = <<>> /\ Push(current_task)
    BY <1>1 DEF BecomeZombie, TaskInv
  <1>3. PICK me \in Task : me = current_task
    BY <1>1
  <1>4. PagesAreAccountedFor'
    <2>1. /\ state[me] \in Queued /\ Push(me) /\ state'[me] = "DEAD"
          /\ \A t \in Task \ {me} : /\ state'[t] = "DEAD" <=> state[t] = "DEAD"
                                    /\ state'[t] = "FREE" <=> state[t] = "FREE"
          /\ cpu \notin {"reset", "halted"}
      BY <1>1, <1>2, <1>3 DEF Queued, Living
    <2> QED BY <1>1, <1>2, <2>1, OneMoreDies DEF TaskInv
  <1>5. OnlyCurrentRuns'
    BY <1>1, <1>2 DEF TaskInv, OnlyCurrentRuns
  <1>6. ~Up'
    BY <1>1, <1>2 DEF Up
  <1>7. Lost'
    <2>1. dead_tasks' # <<>> /\ Head(dead_tasks') = me
      BY <1>1, <1>2, <1>3, PushFacts DEF Push, TypeOK
    <2> QED BY <1>1, <1>2, <1>3, <2>1 DEF Lost
  <1> QED BY <1>2, <1>4, <1>5, <1>6, <1>7, ExitMissesNone, ExitWaiters, MissesNoneFacts DEF TaskInv

(* The last steps of a kernel whose Init is dead.                          *)
LEMMA RespawnKeeps ==
  ASSUME TaskInv, TypeOK', RespawnInit \/ RespawnFails
  PROVE  TaskInv'
  <1>0. TypeOK
    BY DEF TaskInv
  <1>1. /\ cpu = "schedule" /\ cpu' \in {"reset", "halted"} /\ killing' = killing
        /\ dead_tasks # <<>> /\ Head(dead_tasks) = init_task /\ dead_tasks' = Tail(dead_tasks)
        /\ UNCHANGED <<current_task, waiting, children>>
    BY DEF RespawnInit, RespawnFails
  <1>2. /\ Head(dead_tasks) = dead_tasks[1] /\ Len(dead_tasks) \in Nat /\ Len(dead_tasks) >= 1
        /\ dead_tasks' \in Seq(Task) /\ Len(dead_tasks') = Len(dead_tasks) - 1
        /\ \A i \in 1..Len(dead_tasks) - 1 : dead_tasks'[i] = dead_tasks[i + 1]
    BY <1>0, <1>1, PopFacts DEF TypeOK
  <1>3. ~Up
    <2>1. 1 \in DOMAIN dead_tasks
      BY <1>0, <1>2 DEF TypeOK
    <2>2. Dead = Listed
      BY <1>1 DEF TaskInv, PagesAreAccountedFor, Dead, Listed
    <2>3. state[init_task] = "DEAD"
      BY <1>1, <1>2, <2>1, <2>2 DEF Dead, Listed
    <2> QED BY <2>3 DEF TaskInv, UpInv, RootsAreSafe, Living
  <1>4. state[current_task] = "DEAD" /\ current_task \in Task
    BY <1>0, <1>3 DEF Up, TypeOK
  <1>5. PICK n \in Task \cup {NULL} :
          /\ n \in Task => state[n] = "FREE"
          /\ \A t \in Task : state'[t] = IF t = n THEN "READY" ELSE state[t]
    <2>1. CASE RespawnInit
      <3>1. PICK n \in Task : state[n] = "FREE" /\ state' = [state EXCEPT ![n] = "READY"]
        BY <2>1 DEF RespawnInit
      <3>2. \A t \in Task : state'[t] = IF t = n THEN "READY" ELSE state[t]
        BY <1>0, <3>1 DEF TypeOK
      <3> QED BY <3>1, <3>2
    <2>2. CASE RespawnFails
      <3>1. state' = state /\ \A t \in Task : t # NULL
        BY <2>2, TaskAssumption DEF RespawnFails
      <3> WITNESS NULL \in Task \cup {NULL}
      <3> QED BY <3>1, TaskAssumption
    <2> QED BY <2>1, <2>2
  <1>6. ~Up' /\ Lost'
    BY <1>1, <1>4, <1>5 DEF Up, Lost
  <1>7. OnlyCurrentRuns'
    BY <1>1, <1>5 DEF TaskInv, OnlyCurrentRuns
  <1>8. MissesNone'
    BY <1>0, <1>1, <1>5, MissesNoneFacts DEF TaskInv, MissesNone, TypeOK
  <1>9. Waiters'
    BY <1>1, <1>5 DEF TaskInv, Waiters, Living
  <1>10. PagesAreAccountedFor'
    <2>0. dead_tasks \in Seq(Task) /\ \A i, j \in DOMAIN dead_tasks :
                                        dead_tasks[i] = dead_tasks[j] => i = j
      BY <1>0 DEF TaskInv, PagesAreAccountedFor, TypeOK
    <2>1. \A i, j \in 1..Len(dead_tasks) : dead_tasks[i] = dead_tasks[j] => i = j
      BY <2>0
    <2>2. \A i, j \in DOMAIN dead_tasks' : dead_tasks'[i] = dead_tasks'[j] => i = j
      <3> SUFFICES ASSUME NEW i \in 1..Len(dead_tasks'), NEW j \in 1..Len(dead_tasks'),
                          dead_tasks'[i] = dead_tasks'[j]
                   PROVE  i = j
        BY <1>2
      <3>1. i + 1 \in 1..Len(dead_tasks) /\ j + 1 \in 1..Len(dead_tasks)
        BY <1>2
      <3>2. i + 1 = j + 1
        BY <1>2, <2>1, <3>1
      <3> QED BY <3>2
    <2> QED BY <1>1, <2>2 DEF PagesAreAccountedFor
  <1> QED BY <1>1, <1>6, <1>7, <1>8, <1>9, <1>10, MissesNoneFacts DEF TaskInv

-----------------------------------------------------------------------------
(***************************************************************************)
(* The theorems.                                                           *)
(***************************************************************************)

(* kernel_main starts in the invariant.                                    *)
LEMMA TaskInvInit == Init => TaskInv
  <1> SUFFICES ASSUME Init PROVE TaskInv
    OBVIOUS
  <1>1. TypeOK
    BY TypeInit
  <1>2. /\ MainTask \in Task /\ FirstInit \in Task /\ MainTask # FirstInit
        /\ \A t \in Task :
             /\ state[t] = IF t = MainTask THEN "RUNNING"
                           ELSE IF t = FirstInit THEN "READY" ELSE "FREE"
             /\ next[t] = IF t = MainTask THEN FirstInit
                          ELSE IF t = FirstInit THEN MainTask ELSE NULL
             /\ prev[t] = IF t = MainTask THEN FirstInit
                          ELSE IF t = FirstInit THEN MainTask ELSE NULL
             /\ parent[t] = IF t = FirstInit THEN MainTask ELSE NULL
             /\ children[t] = IF t = MainTask THEN {FirstInit} ELSE {}
             /\ waiting[t] = NULL
        /\ pdir = {FirstInit} /\ current_task = MainTask /\ init_task = FirstInit
        /\ dead_tasks = <<>> /\ task_count = 2 /\ fpu_owner = NULL /\ cr3 = NULL
        /\ cpu = "user" /\ killing = <<>>
    BY TaskAssumption DEF Init
  <1>3. OnQueue = {MainTask, FirstInit}
    BY <1>2 DEF OnQueue, Queued, Living
  <1>4. Ring(OnQueue, next, prev)
    <2>1. \A S \in SUBSET {MainTask, FirstInit} :
            S # {} /\ (\A t \in S : next[t] \in S) => S = {MainTask, FirstInit}
      <3> SUFFICES ASSUME NEW S \in SUBSET {MainTask, FirstInit}, S # {},
                          \A t \in S : next[t] \in S
                   PROVE  MainTask \in S /\ FirstInit \in S
        OBVIOUS
      <3> QED BY <1>2
    <2> QED BY <1>2, <1>3, <2>1 DEF Ring
  <1>5. TreeIsSound /\ RootsAreSafe /\ CurrentIsKnown /\ SpacesAreSound /\ KillingIsPath
    <2>1. TreeIsSound
      BY <1>2, <1>3, TaskAssumption DEF TreeIsSound, Queued, Living
    <2>2. RootsAreSafe /\ CurrentIsKnown /\ KillingIsPath
      BY <1>2 DEF RootsAreSafe, CurrentIsKnown, KillingIsPath, Living
    <2>3. SpacesAreSound
      BY <1>2 DEF SpacesAreSound, Living
    <2> QED BY <2>1, <2>2, <2>3
  <1>6. PagesAreAccountedFor
    <2>1. InUse = {MainTask} \cup {FirstInit} /\ Dead = {} /\ Listed = {}
      BY <1>2 DEF InUse, Dead, Listed
    <2>2. IsFiniteSet({MainTask}) /\ Cardinality({MainTask}) = 1
      BY FS_Singleton
    <2>3. Cardinality({MainTask} \cup {FirstInit}) = 2
      <3>1. FirstInit \notin {MainTask}
        BY <1>2
      <3>2. Cardinality({MainTask} \cup {FirstInit}) = Cardinality({MainTask}) + 1
        BY <2>2, <3>1, FS_AddElement
      <3> QED BY <2>2, <3>2
    <2>4. task_count = Cardinality(InUse)
      BY <1>2, <2>1, <2>3
    <2> QED BY <1>2, <2>1, <2>4 DEF PagesAreAccountedFor, InUse, Dead, Listed
  <1>7. OnlyCurrentRuns /\ Waiters /\ MissesNone
    BY <1>2 DEF OnlyCurrentRuns, Waiters, MissesNone
  <1>8. Up
    BY <1>2 DEF Up
  <1> QED BY <1>1, <1>2, <1>4, <1>5, <1>6, <1>7, <1>8, MissesNoneFacts DEF TaskInv, UpInv

(* Every step keeps the invariant.                                         *)
LEMMA TaskInvStep == TaskInv /\ [Next]_vars => TaskInv'
  <1> SUFFICES ASSUME TaskInv, [Next]_vars PROVE TaskInv'
    OBVIOUS
  <1>0. TypeOK'
    BY TypeStep DEF TaskInv
  <1>1. CASE UserStep
    BY <1>0, <1>1, ForkKeeps, DirectoryKeeps, FpuKeeps, YieldKeeps, WaitKeeps, DieKeeps, SleepKeeps DEF UserStep
  <1>2. CASE KernelStep
    <2>1. CASE BecomeZombie
      BY <1>0, <2>1, ZombieKeeps, InitExitKeeps
    <2> QED
      BY <1>0, <1>2, <2>1, DirectoryKeeps, WaitKeeps, SleepKeeps, RecursionKeeps, CleanupKillKeeps,
         ReaperKeeps, RespawnKeeps, SwitchKeeps, ContinueKeeps DEF KernelStep
  <1>3. CASE Tick
    BY <1>0, <1>3, TickKeeps
  <1>4. CASE Stopped \/ UNCHANGED vars
    <2>1. UNCHANGED vars
      BY <1>4 DEF Stopped
    <2> USE <2>1 DEF vars
    <2>2. OnlyCurrentRuns' /\ PagesAreAccountedFor' /\ Waiters'
      BY DEF TaskInv, OnlyCurrentRuns, PagesAreAccountedFor, Waiters
    <2>3. NoLostWakeup'
      BY MissesNoneFacts DEF TaskInv, MissesNone
    <2>4. (Up' <=> Up) /\ (Lost' <=> Lost)
      BY DEF Up, Lost
    <2>5. UpInv => UpInv'
      <3>1. OnQueue' = OnQueue
        BY DEF OnQueue
      <3>2. TreeIsSound => TreeIsSound'
        BY <3>1 DEF TreeIsSound
      <3>3. RootsAreSafe /\ CurrentIsKnown => RootsAreSafe' /\ CurrentIsKnown'
        BY DEF RootsAreSafe, CurrentIsKnown
      <3>4. SpacesAreSound /\ KillingIsPath => SpacesAreSound' /\ KillingIsPath'
        BY DEF SpacesAreSound, KillingIsPath
      <3> QED BY <3>1, <3>2, <3>3, <3>4 DEF UpInv
    <2> QED BY <1>0, <2>2, <2>3, <2>4, <2>5 DEF TaskInv
  <1> QED BY <1>1, <1>2, <1>3, <1>4 DEF Next

(* The invariant holds always.                                             *)
LEMMA TaskInvariance == Spec => []TaskInv
  BY TaskInvInit, TaskInvStep, PTL DEF Spec

(* Whatever tasks fork, sleep, wait, die or are killed in whatever order:  *)
(* the run queue stays one doubly linked cycle of the tasks that are not   *)
(* dead, one task is marked as running, no sleeper in waitpid has missed   *)
(* its zombie, and schedule() finds somebody (task_queue_add, the three    *)
(* unlinkings, schedule).                                                  *)
THEOREM QueueAlwaysSound == Spec => []QueueIsSound
  <1>1. TaskInv => QueueIsSound
    <2> SUFFICES ASSUME TaskInv PROVE QueueIsSound
      OBVIOUS
    <2>1. RunQueueIsOneCycle
      BY DEF TaskInv, UpInv, Ring, RunQueueIsOneCycle
    <2>2. SchedulerFindsATask
      BY SomebodyRuns DEF SchedulerFindsATask
    <2> QED BY <2>1, <2>2 DEF TaskInv, QueueIsSound
  <1> QED BY <1>1, TaskInvariance, PTL

(* Every PCB page is free, in use or on the reaper's list just once, the   *)
(* count of pages is right, a task has its page directory just as long as  *)
(* it lives, and CR3 holds one that exists (task_waitpid, task_exit, the   *)
(* clean-up, the reaper); but for exec, which destroys the directory it    *)
(* runs on and then loads the new one (sys_exec).                          *)
THEOREM MemoryAlwaysFollowsLife == Spec => []MemoryFollowsLife
  <1>1. TaskInv => MemoryFollowsLife
    BY DEF TaskInv, UpInv, SpacesAreSound, TypeOK, MemoryFollowsLife, AddressSpaceFollowsLife
  <1> QED BY <1>1, TaskInvariance, PTL

(* No pointer of the scheduler, of the tree or of the FPU leads to a task  *)
(* that is dead or freed.                                                  *)
THEOREM NeverDanglingTask == Spec => []NoDanglingTask
  <1>1. TaskInv => NoDanglingTask
    <2> SUFFICES ASSUME TaskInv, Up PROVE NoDanglingTask
      BY DEF NoDanglingTask
    <2>1. UpInv /\ TypeOK
      BY DEF TaskInv
    <2>2. state[current_task] \notin {"DEAD", "FREE"} /\ state[init_task] \notin {"DEAD", "FREE"}
      BY <2>1 DEF UpInv, CurrentIsKnown, RootsAreSafe, Living
    <2>3. fpu_owner # NULL => state[fpu_owner] \notin {"DEAD", "FREE"}
      BY <2>1 DEF UpInv, SpacesAreSound, Living
    <2>4. \A t \in OnQueue : state[t] \notin {"DEAD", "FREE"}
      BY DEF OnQueue, Queued, Living
    <2>5. \A t \in OnQueue : next[t] \in OnQueue /\ prev[t] \in OnQueue
      BY <2>1 DEF UpInv, Ring
    <2>6. \A t \in OnQueue : parent[t] # NULL => state[parent[t]] \notin {"DEAD", "FREE"}
      BY <2>1 DEF UpInv, TreeIsSound, RootsAreSafe, Living
    <2> QED BY <2>2, <2>3, <2>4, <2>5, <2>6 DEF NoDanglingTask
  <1> QED BY <1>1, TaskInvariance, PTL

-----------------------------------------------------------------------------
(***************************************************************************)
(* The code implements the supervisor tree of Supervision.                 *)
(***************************************************************************)

(* What a program sees of a task.                                          *)
StatusIs(s) ==
  CASE s \in Living -> "alive" [] s = "ZOMBIE" -> "zombie" [] s = "DEAD" -> "dead"
    [] OTHER -> "free"

(* One status for each kind of state.                                      *)
LEMMA StatusValues ==
  /\ \A s \in Living : StatusIs(s) = "alive"
  /\ StatusIs("ZOMBIE") = "zombie" /\ StatusIs("DEAD") = "dead" /\ StatusIs("FREE") = "free"
  /\ \A s \in Queued \cup {"DEAD", "FREE"} :
       /\ StatusIs(s) = "alive" <=> s \in Living
       /\ StatusIs(s) \in {"alive", "zombie"} <=> s \in Queued
  BY DEF StatusIs, Living, Queued

(* status, task by task, before a step and after it.                       *)
LEMMA StatusOf ==
  /\ status = [t \in Task |-> StatusIs(state[t])]
  /\ status' = [t \in Task |-> StatusIs(state'[t])]
  BY DEF status, StatusIs

(* One task changes its status.                                            *)
LEMMA StatusMoves ==
  ASSUME NEW c \in Task, NEW s,
         \A t \in Task : StatusIs(state'[t]) = IF t = c THEN s ELSE StatusIs(state[t])
  PROVE  status' = [status EXCEPT ![c] = s]
  BY StatusOf

LEMMA StatusChanges ==
  ASSUME NEW c \in Task, NEW s, status' = [status EXCEPT ![c] = s], status[c] # s
  PROVE  status' # status
  BY DEF status

(* No task does.                                                           *)
LEMMA StatusStays ==
  ASSUME LifeStays
  PROVE  status' = status
  <1>1. \A t \in Task : StatusIs(state'[t]) = StatusIs(state[t])
    BY StatusValues DEF LifeStays
  <1> QED BY <1>1, StatusOf

(* fork is a birth.                                                        *)
LEMMA ForkSpawns ==
  ASSUME TaskInv, Fork
  PROVE  Tree!SNext
  <1>0. TypeOK
    BY DEF TaskInv
  <1>1. PICK c \in Task :
          /\ state[c] = "FREE" /\ state' = [state EXCEPT ![c] = "READY"]
          /\ parent' = [parent EXCEPT ![c] = current_task]
    BY DEF Fork
  <1>2. current_task \in Task /\ state[current_task] = "RUNNING"
    BY <1>0 DEF TypeOK, TaskInv, OnlyCurrentRuns, Fork, Calls
  <1>3. \A t \in Task : state'[t] = IF t = c THEN "READY" ELSE state[t]
    BY <1>0, <1>1 DEF TypeOK
  <1>4. \A t \in Task : StatusIs(state'[t]) = IF t = c THEN "alive" ELSE StatusIs(state[t])
    BY <1>3, StatusValues DEF Living
  <1>5. status' = [status EXCEPT ![c] = "alive"]
    BY <1>4, StatusMoves
  <1>6. status[current_task] = "alive" /\ status[c] = "free"
    BY <1>1, <1>2, StatusOf, StatusValues DEF Living
  <1>7. Tree!Spawn(current_task, c)
    BY <1>1, <1>5, <1>6 DEF Tree!Spawn
  <1>8. status' # status
    BY <1>5, <1>6, StatusChanges
  <1> QED BY <1>2, <1>7, <1>8 DEF Tree!SNext

(* A task that no task on the queue has for a parent.                      *)
LEMMA ChildlessTask ==
  ASSUME TypeOK, NEW c \in Task, \A x \in Task : parent[x] = c => state[x] \notin Queued
  PROVE  Tree!Childless(c)
  BY StatusOf, StatusValues DEF Tree!Childless, Tree!Exists, TypeOK

(* A waitpid that collects is a Wait.                                      *)
LEMMA ReapWaits ==
  ASSUME TaskInv, WaitNoHang \/ WaitReap
  PROVE  Tree!SNext
  <1>0. TypeOK /\ Up /\ UpInv
    BY IsUp DEF TaskInv, WaitNoHang, WaitReap, Calls
  <1>1. PICK z \in children[current_task] : state[z] = "ZOMBIE" /\ Reap(z)
    BY DEF WaitNoHang, WaitReap, Zombies
  <1>2. PICK me \in Task : me = current_task /\ state[me] = "RUNNING"
    BY <1>0 DEF TypeOK, TaskInv, OnlyCurrentRuns, WaitNoHang, WaitReap, Calls
  <1>3. z \in Task /\ parent[z] = me
    BY <1>0, <1>1, <1>2 DEF TypeOK, UpInv, TreeIsSound
  <1>4. \A t \in Task : state'[t] = IF t = z THEN "DEAD" ELSE state[t]
    BY <1>0, <1>1 DEF TypeOK, Reap
  <1>5. \A t \in Task : StatusIs(state'[t]) = IF t = z THEN "dead" ELSE StatusIs(state[t])
    BY <1>4, StatusValues
  <1>6. status' = [status EXCEPT ![z] = "dead"]
    BY <1>3, <1>5, StatusMoves
  <1>7. status[me] = "alive" /\ status[z] = "zombie"
    BY <1>1, <1>2, <1>3, StatusOf, StatusValues DEF Living
  <1>8. Tree!Wait(z)
    BY <1>1, <1>2, <1>3, <1>6, <1>7, TaskAssumption DEF Tree!Wait, Reap
  <1>9. status' # status
    BY <1>3, <1>6, <1>7, StatusChanges
  <1> QED BY <1>3, <1>8, <1>9 DEF Tree!SNext

(* The clean-up kills the living and collects the zombies, leaves first.   *)
LEMMA CleanupKills ==
  ASSUME TaskInv, CleanupKill
  PROVE  Tree!SNext
  <1>0. TypeOK /\ Up /\ UpInv
    BY IsUp DEF TaskInv, CleanupKill
  <1>1. PICK c \in children[Victim] :
          ~Recurses(c) /\ state' = [state EXCEPT ![c] = "DEAD"] /\ parent' = parent
    BY DEF CleanupKill
  <1>2. /\ Victim \in Task /\ state[Victim] \in Living
        /\ c \in Task /\ parent[c] = Victim /\ state[c] \in Queued
        /\ \A x \in Task : parent[x] = c => state[x] \notin Queued
    BY <1>0, <1>1, KilledIsOffPath DEF CleanupKill
  <1>3. PICK v \in Task : v = Victim
    BY <1>2
  <1>4. \A t \in Task : state'[t] = IF t = c THEN "DEAD" ELSE state[t]
    BY <1>0, <1>1 DEF TypeOK
  <1>5. \A t \in Task : StatusIs(state'[t]) = IF t = c THEN "dead" ELSE StatusIs(state[t])
    BY <1>4, StatusValues
  <1>6. status' = [status EXCEPT ![c] = "dead"]
    BY <1>2, <1>5, StatusMoves
  <1>7. /\ status[v] = "alive" /\ parent[c] # NULL /\ status[parent[c]] = "alive"
        /\ status[c] \in {"alive", "zombie"}
    BY <1>2, <1>3, StatusOf, StatusValues, TaskAssumption
  <1>8. Tree!Childless(c)
    BY <1>0, <1>2, ChildlessTask
  <1>9. Tree!Wait(c) \/ Tree!Kill(c)
    BY <1>1, <1>6, <1>7, <1>8 DEF Tree!Wait, Tree!Kill
  <1>10. status' # status
    BY <1>2, <1>6, <1>7, StatusChanges
  <1> QED BY <1>2, <1>9, <1>10 DEF Tree!SNext

(* The end of an exit is an Exit, of Init and of the others.               *)
LEMMA BecomeZombieExits ==
  ASSUME TaskInv, BecomeZombie
  PROVE  Tree!SNext
  <1>1. PICK me \in Task : me = current_task
    BY ExitFacts
  <1>2. /\ TypeOK /\ state[me] = "RUNNING"
        /\ \A x \in Task : parent[x] = me => state[x] \notin Queued
        /\ \A t \in Task : state'[t] =
             IF t = me THEN IF t = init_task THEN "DEAD" ELSE "ZOMBIE"
             ELSE IF t = parent[me] /\ state[t] = "SLEEPING" THEN "READY"
             ELSE state[t]
    BY <1>1, ExitFacts
  <1>3. PICK s \in {"zombie", "dead"} :
          \A t \in Task : StatusIs(state'[t]) = IF t = me THEN s ELSE StatusIs(state[t])
    <2>1. \A t \in Task \ {me} : StatusIs(state'[t]) = StatusIs(state[t])
      BY <1>2, StatusValues DEF Living
    <2>2. StatusIs(state'[me]) \in {"zombie", "dead"}
      BY <1>2, StatusValues
    <2> QED BY <2>1, <2>2
  <1>4. status' = [status EXCEPT ![me] = s]
    BY <1>3, StatusMoves
  <1>5. status[me] = "alive"
    BY <1>2, StatusOf, StatusValues DEF Living
  <1>6. Tree!Childless(me)
    BY <1>2, ChildlessTask
  <1>7. Tree!Exit(me)
    BY <1>4, <1>5, <1>6 DEF Tree!Exit, BecomeZombie
  <1>8. status' # status
    BY <1>4, <1>5, StatusChanges
  <1> QED BY <1>7, <1>8 DEF Tree!SNext

(* The reaper frees a process.                                             *)
LEMMA ReaperFrees ==
  ASSUME TaskInv, Reaper
  PROVE  Tree!SNext
  <1>0. TypeOK
    BY DEF TaskInv
  <1>1. /\ dead_tasks # <<>> /\ dead_tasks' = Tail(dead_tasks) /\ cpu = "schedule"
        /\ state' = [state EXCEPT ![Head(dead_tasks)] = "FREE"]
        /\ parent' = [parent EXCEPT ![Head(dead_tasks)] = NULL]
        /\ task_count' = task_count - 1
    BY DEF Reaper
  <1>2. PICK d \in Task : d = Head(dead_tasks) /\ state[d] = "DEAD"
    BY <1>0, <1>1, OneLessInUse DEF TaskInv
  <1>3. \A t \in Task : state'[t] = IF t = d THEN "FREE" ELSE state[t]
    BY <1>0, <1>1, <1>2 DEF TypeOK
  <1>4. \A t \in Task : StatusIs(state'[t]) = IF t = d THEN "free" ELSE StatusIs(state[t])
    BY <1>3, StatusValues
  <1>5. status' = [status EXCEPT ![d] = "free"]
    BY <1>4, StatusMoves
  <1>6. status[d] = "dead"
    BY <1>2, StatusOf, StatusValues
  <1>7. Tree!Free(d)
    BY <1>1, <1>2, <1>5, <1>6 DEF Tree!Free
  <1>8. status' # status
    BY <1>5, <1>6, StatusChanges
  <1> QED BY <1>7, <1>8 DEF Tree!SNext

(* The successor of Init is a root of its own.                             *)
LEMMA RespawnSpawns ==
  ASSUME TaskInv, RespawnInit
  PROVE  Tree!SNext
  <1>0. TypeOK
    BY DEF TaskInv
  <1>1. PICK n \in Task :
          state[n] = "FREE" /\ state' = [state EXCEPT ![n] = "READY"] /\ parent' = parent
    BY DEF RespawnInit
  <1>2. \A t \in Task : state'[t] = IF t = n THEN "READY" ELSE state[t]
    BY <1>0, <1>1 DEF TypeOK
  <1>3. \A t \in Task : StatusIs(state'[t]) = IF t = n THEN "alive" ELSE StatusIs(state[t])
    BY <1>2, StatusValues DEF Living
  <1>4. status' = [status EXCEPT ![n] = "alive"]
    BY <1>3, StatusMoves
  <1>5. status[n] = "free"
    BY <1>1, StatusOf, StatusValues
  <1>6. Tree!SpawnRoot(n)
    BY <1>1, <1>4, <1>5 DEF Tree!SpawnRoot
  <1>7. status' # status
    BY <1>4, <1>5, StatusChanges
  <1> QED BY <1>6, <1>7 DEF Tree!SNext

(* The steps a program does not see in the tree.                           *)
LEMMA OthersStutter ==
  ASSUME TaskInv,
         \/ Exec \/ DeviceNotAvailable \/ Yield \/ WaitPid \/ Die \/ WaitBlock
         \/ \E ms \in 1..MaxSleep : Sleep(ms)
         \/ ExecSwitch \/ LeaveDirectory
         \/ CleanupEnter \/ CleanupReturn \/ RespawnFails \/ Switch \/ Continue \/ Tick
         \/ UNCHANGED vars
  PROVE  UNCHANGED Tree!svars
  <1>0. TypeOK
    BY DEF TaskInv
  <1>1. parent' = parent
    BY DEF Exec, ExecSwitch, LeaveDirectory, DeviceNotAvailable, Yield, WaitPid, Die, WaitBlock,
           Sleep, CleanupEnter,
           CleanupReturn, RespawnFails, Switch, Continue, Tick, vars
  <1>2. LifeStays
    <2>1. CASE state' = state
      BY <2>1 DEF LifeStays
    <2>2. CASE WaitBlock \/ \E ms \in 1..MaxSleep : Sleep(ms)
      <3>1. state' = [state EXCEPT ![current_task] = "SLEEPING"] /\ current_task \in Task
        BY <1>0, <2>2 DEF WaitBlock, Sleep, TypeOK
      <3>2. state[current_task] = "RUNNING"
        BY <2>2 DEF WaitBlock, Sleep, Calls, TaskInv, OnlyCurrentRuns
      <3> QED BY <1>0, <3>1, <3>2 DEF LifeStays, Living, TypeOK
    <2>3. CASE Switch
      <3>1. PICK n \in Task :
              /\ NextRunnable(n)
              /\ state' = [t \in Task |->
                   IF t = n THEN "RUNNING"
                   ELSE IF t = current_task /\ state[t] = "RUNNING" THEN "READY"
                   ELSE state[t]]
        BY <2>3 DEF Switch
      <3>2. state[n] = "READY"
        BY <1>0, <2>3, <3>1, NextIsReady, IsUp DEF Switch, TaskInv
      <3> QED BY <3>1, <3>2 DEF LifeStays, Living
    <2>4. CASE Tick
      BY <2>4 DEF Tick, Due, LifeStays, Living
    <2> QED
      BY <2>1, <2>2, <2>3, <2>4 DEF Exec, ExecSwitch, LeaveDirectory, DeviceNotAvailable, Yield, WaitPid, Die, CleanupEnter,
         CleanupReturn, RespawnFails, Continue, vars
  <1> QED BY <1>1, <1>2, StatusStays DEF Tree!svars

(* task.c implements Supervision: every step of the code is a birth, an    *)
(* exit, a wait, a kill or a freeing of the tree that programs see, or     *)
(* changes nothing in it.                                                  *)
THEOREM TreeIsSupervised == Spec => Lifecycle
  <1>1. Init => Tree!SInit
    <2> SUFFICES ASSUME Init PROVE Tree!SInit
      OBVIOUS
    <2>1. /\ \A t \in Task : state[t] = IF t = MainTask THEN "RUNNING"
                                        ELSE IF t = FirstInit THEN "READY" ELSE "FREE"
          /\ parent = [t \in Task |-> IF t = FirstInit THEN MainTask ELSE NULL]
      BY TaskAssumption DEF Init
    <2>2. \A t \in Task : StatusIs(state[t]) =
                            IF t \in {MainTask, FirstInit} THEN "alive" ELSE "free"
      BY <2>1, StatusValues DEF Living
    <2>3. status = [t \in Task |-> IF t \in {MainTask, FirstInit} THEN "alive" ELSE "free"]
      BY <2>2, StatusOf
    <2> QED BY <2>1, <2>3 DEF Tree!SInit
  <1>2. TaskInv /\ [Next]_vars => [Tree!SNext]_(Tree!svars)
    <2> SUFFICES ASSUME TaskInv, [Next]_vars PROVE [Tree!SNext]_(Tree!svars)
      OBVIOUS
    <2>1. CASE UserStep
      BY <2>1, ForkSpawns, ReapWaits, OthersStutter DEF UserStep
    <2>2. CASE KernelStep
      BY <2>2, ReapWaits, CleanupKills, BecomeZombieExits, ReaperFrees, RespawnSpawns,
         OthersStutter DEF KernelStep
    <2>3. CASE Tick \/ Stopped \/ UNCHANGED vars
      BY <2>3, OthersStutter DEF Stopped
    <2> QED BY <2>1, <2>2, <2>3 DEF Next
  <1> QED BY <1>1, <1>2, TaskInvariance, PTL DEF Spec, Lifecycle, Tree!SSpec
=============================================================================
