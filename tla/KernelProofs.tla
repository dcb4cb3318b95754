---------------------------- MODULE KernelProofs ----------------------------
(***************************************************************************)
(* Theorems about the kernel: the supervisor tree that the tasks of x86    *)
(* form (Tasks!Lifecycle), the tasks of the ARM port, and the kernel heap  *)
(* (Buddy).                                                                *)
(***************************************************************************)
EXTENDS Supervision, ArmTasks, Buddy, FiniteSetTheorems, WellFoundedInduction, TLAPS

-----------------------------------------------------------------------------
(***************************************************************************)
(* The supervisor tree of Supervision is kept for any number of processes. *)
(***************************************************************************)

(* What the constants stand for.                                           *)
SupervisionConstants ==
  /\ Kernel \in Process /\ FirstRoot \in Process /\ Kernel # FirstRoot
  /\ None \notin Process

(* Supervised is not inductive alone: a page that is free must have lost   *)
(* its supervisor, or the root that SpawnRoot makes of it would have one.  *)
SInv ==
  /\ STypeOK
  /\ \A c \in Process : status[c] = "free" => supervisor[c] = None
  /\ Supervised

LEMMA SInitInv == ASSUME SupervisionConstants, SInit PROVE SInv
  BY DEF SupervisionConstants, SInit, SInv, STypeOK, Supervised, Exists

LEMMA SStepInv == ASSUME SupervisionConstants, SInv, [SNext]_svars PROVE SInv'
  <1> USE DEF SupervisionConstants, SInv, STypeOK, Supervised, Exists
  <1>1. ASSUME NEW c \in Process, NEW p \in Process, Spawn(p, c) PROVE SInv'
    BY <1>1 DEF Spawn
  <1>2. ASSUME NEW c \in Process, SpawnRoot(c) PROVE SInv'
    BY <1>2 DEF SpawnRoot
  <1>3. ASSUME NEW c \in Process, Exit(c) PROVE SInv'
    BY <1>3 DEF Exit, Childless
  <1>4. ASSUME NEW c \in Process, Wait(c) PROVE SInv'
    BY <1>4 DEF Wait
  <1>5. ASSUME NEW c \in Process, Kill(c) PROVE SInv'
    BY <1>5 DEF Kill, Childless
  <1>6. ASSUME NEW c \in Process, Free(c) PROVE SInv'
    BY <1>6 DEF Free
  <1>7. CASE UNCHANGED svars
    BY <1>7 DEF svars
  <1> QED BY <1>1, <1>2, <1>3, <1>4, <1>5, <1>6, <1>7 DEF SNext

(* No process of the abstract tree outlives its supervisor, whatever the   *)
(* order of births, exits, waits and kills (task.c promises "monitor_      *)
(* children"; Tasks!Lifecycle carries it to the code).                     *)
THEOREM TreeIsKept ==
  ASSUME SupervisionConstants
  PROVE  SSpec => []Supervised
  <1>1. SInit => SInv
    BY SInitInv
  <1>2. SInv /\ [SNext]_svars => SInv'
    BY SStepInv
  <1>3. SInv => Supervised
    BY DEF SInv
  <1> QED BY <1>1, <1>2, <1>3, PTL DEF SSpec

-----------------------------------------------------------------------------
(***************************************************************************)
(* The ARM scheduler keeps its tasks apart for every number of tasks, any  *)
(* quantum and any sleeps: whoever has the CPU has it alone, on its own    *)
(* stack and in its own address space.                                     *)
(***************************************************************************)

States == {"FREE", "READY", "RUNNING", "SLEEPING"}

ArmTypeOK ==
  /\ tstate \in [Pid -> States] /\ saved \in [Pid -> Pid \cup {NoContext, Fresh}]
  /\ current \in Pid /\ halted \in BOOLEAN

ArmInv == ArmTypeOK /\ ContextsAreKept

(* Numbers of tasks: NoContext and Fresh are none.                         *)
LEMMA Numbering ==
  /\ Pid \subseteq Nat /\ 0 \in Pid /\ NumTasks \in Nat \ {0}
  /\ NumTasks \notin Pid /\ NoContext \notin Pid /\ Fresh \notin Pid /\ NoContext # Fresh
  BY ArmAssumption DEF ArmAssumption, Pid, NumTasks, NoContext, Fresh

(* The round robin's distances are natural numbers.                        *)
LEMMA Remainder == \A a \in Int, n \in Nat \ {0} : a % n \in Nat
  OBVIOUS

(* The round robin finds somebody if anybody is ready.                     *)
LEMMA SomebodyIsReady ==
  ASSUME current \in Pid, NEW s \in [Pid -> States], NEW r \in Pid, s[r] = "READY"
  PROVE  Candidate(s) \in Pid /\ s[Candidate(s)] = "READY"
  <1> DEFINE distance(i) == (i - current - 1) % NumTasks
             ready == {i \in Pid : s[i] = "READY"}
             away == {distance(i) : i \in ready}
  <1>1. \A i \in Pid : distance(i) \in Nat
    <2> TAKE i \in Pid
    <2>1. i - current - 1 \in Int
      BY Numbering
    <2> QED BY <2>1, Numbering, Remainder
  <1> HIDE DEF distance
  <1>2. away \subseteq Nat /\ away # {}
    BY <1>1
  <1>3. PICK x \in away : \A y \in away : ~ (<<y, x>> \in OpToRel(<, Nat))
    <2> HIDE DEF away
    <2> QED BY <1>2, NatLessThanWellFounded, WFMin
  <1>4. PICK i \in ready : x = distance(i)
    OBVIOUS
  <1>5. ASSUME NEW j \in Pid, s[j] = "READY" PROVE distance(i) <= distance(j)
    <2>1. distance(j) \in away
      BY <1>5
    <2>2. distance(i) \in Nat /\ distance(j) \in Nat
      BY <1>1
    <2>3. ~ (distance(j) < distance(i))
      BY <1>3, <1>4, <2>1, <2>2 DEF OpToRel
    <2> QED BY <2>2, <2>3
  <1>6. \E k \in Pid : s[k] = "READY" /\ \A j \in Pid : s[j] = "READY" => distance(k) <= distance(j)
    BY <1>4, <1>5
  <1>7. Candidate(s) = CHOOSE k \in Pid : /\ s[k] = "READY"
                                          /\ \A j \in Pid : s[j] = "READY" => distance(k) <= distance(j)
    BY DEF Candidate, distance
  <1> QED BY <1>6, <1>7

(* What the callers of schedule hand it: states in which at most the       *)
(* current task runs and idle could.                                       *)
Schedulable(s) ==
  /\ s \in [Pid -> States]
  /\ \A i \in Pid : s[i] = "RUNNING" => i = current
  /\ s[0] \in {"READY", "RUNNING"}
  /\ \A i \in Pid \ {0, current} : s[i] # "FREE" => tstate[i] # "FREE"

(* schedule chooses a task that is ready, or still is.                     *)
LEMMA ChosenIsReady ==
  ASSUME current \in Pid, NEW s, Schedulable(s)
  PROVE  /\ PutBack(s) \in [Pid -> States]
         /\ \A i \in Pid : PutBack(s)[i] # "RUNNING"
         /\ PutBack(s)[0] = "READY"
         /\ \A i \in Pid \ {current} : PutBack(s)[i] = s[i]
         /\ Chosen(s) \in Pid /\ PutBack(s)[Chosen(s)] = "READY"
  <1>1. /\ PutBack(s) \in [Pid -> States]
        /\ \A i \in Pid : PutBack(s)[i] # "RUNNING"
        /\ PutBack(s)[0] = "READY"
        /\ \A i \in Pid \ {current} : PutBack(s)[i] = s[i]
    BY Numbering DEF PutBack, Schedulable, States
  <1>2. /\ Candidate(PutBack(s)) \in Pid
        /\ PutBack(s)[Candidate(PutBack(s))] = "READY"
    BY <1>1, SomebodyIsReady, Numbering
  <1>3. Chosen(s) = Candidate(PutBack(s))
    BY <1>2, Numbering DEF Chosen
  <1> QED BY <1>1, <1>2, <1>3

(* Whatever schedule does, the context of everybody is kept.               *)
LEMMA ScheduleKeepsContexts ==
  ASSUME ArmInv, ~halted, NEW s, Schedulable(s), schedule(s)
  PROVE  ArmInv'
  <1> DEFINE next == Chosen(s)
             put == PutBack(s)
  <1>1. /\ put \in [Pid -> States]
        /\ \A i \in Pid : put[i] # "RUNNING"
        /\ put[0] = "READY"
        /\ \A i \in Pid \ {current} : put[i] = s[i]
        /\ next \in Pid /\ put[next] = "READY"
    BY ChosenIsReady DEF ArmInv, ArmTypeOK
  <1> HIDE DEF next, put
  <1>2. CASE next = current
    <2>1. /\ tstate' = [put EXCEPT ![next] = "RUNNING"]
          /\ UNCHANGED <<saved, current, bank, ttbr0, halted>>
      BY <1>1, <1>2 DEF schedule, next, put
    <2>2. ArmTypeOK'
      BY <1>1, <2>1 DEF ArmInv, ArmTypeOK, States
    <2>3. OneTaskRuns'
      BY <1>1, <1>2, <2>1 DEF OneTaskRuns, States
    <2>4. OwnContext'
      BY <1>1, <1>2, <2>1 DEF ArmInv, ContextsAreKept, OwnContext, Schedulable
    <2> QED BY <2>2, <2>3, <2>4 DEF ArmInv, ContextsAreKept
  <1>3. CASE next # current
    <2>1. saved[next] \in Pid \cup {Fresh} /\ (next # 0 => saved[next] \in {Fresh, next})
      <3>1. CASE next = 0
        BY <1>3, <3>1, Numbering DEF ArmInv, ArmTypeOK, ContextsAreKept, OwnContext
      <3>2. CASE next # 0
        <4>1. tstate[next] # "FREE"
          BY <1>1, <1>3, <3>2 DEF Schedulable
        <4> QED BY <1>1, <1>3, <3>2, <4>1 DEF ArmInv, ContextsAreKept, OwnContext
      <3> QED BY <3>1, <3>2
    <2>2. /\ tstate' = [put EXCEPT ![next] = "RUNNING"]
          /\ saved' = [saved EXCEPT ![current] = IF current = 0 THEN 0 ELSE bank]
          /\ current' = next /\ ttbr0' = next /\ bank' = Restored(saved[next], next)
          /\ UNCHANGED halted
      <3>1. saved[next] # NoContext
        BY <2>1, Numbering
      <3> QED BY <1>3, <3>1 DEF schedule, next, put
    <2>3. current # 0 => bank = current
      BY DEF ArmInv, ContextsAreKept, OwnContext
    <2>4. ArmTypeOK'
      BY <1>1, <2>2, <2>3 DEF ArmInv, ArmTypeOK, States
    <2>5. OneTaskRuns'
      BY <1>1, <2>2 DEF OneTaskRuns, States
    <2>6. OwnContext'
      <3>1. next # 0 => bank' = next
        BY <2>1, <2>2 DEF Restored
      <3>2. ASSUME NEW i \in Pid \ {0, next}, tstate'[i] # "FREE"
            PROVE  saved'[i] \in {Fresh, i}
        <4>1. CASE i = current
          BY <2>2, <2>3, <3>2, <4>1 DEF ArmInv, ArmTypeOK
        <4>2. CASE i # current
          <5>1. tstate[i] # "FREE"
            BY <1>1, <2>2, <3>2, <4>2 DEF Schedulable
          <5> QED BY <2>2, <4>2, <5>1 DEF ArmInv, ArmTypeOK, ContextsAreKept, OwnContext
        <4> QED BY <4>1, <4>2
      <3>3. next # 0 => saved'[0] # NoContext
        BY <2>2, Numbering DEF ArmInv, ArmTypeOK, ContextsAreKept, OwnContext
      <3> QED BY <2>2, <3>1, <3>2, <3>3 DEF OwnContext
    <2> QED BY <2>4, <2>5, <2>6 DEF ArmInv, ContextsAreKept
  <1> QED BY <1>2, <1>3

(* At first the idle task runs and no other has a context.                 *)
LEMMA ArmInitial == ArmInit => ArmInv
  BY Numbering DEF ArmInit, ArmInv, ArmTypeOK, ContextsAreKept, OneTaskRuns, OwnContext, States

(* One step per handler.                                                   *)
LEMMA ArmStep == ArmInv /\ [ArmNext]_avars => ArmInv'
  <1> SUFFICES ASSUME ArmInv, [ArmNext]_avars PROVE ArmInv'
    OBVIOUS
  <1>a. /\ ~halted => \A i \in Pid : tstate[i] = "RUNNING" <=> i = current
        /\ ~halted => tstate[0] \in {"READY", "RUNNING"}
        /\ tstate \in [Pid -> States] /\ current \in Pid
    BY DEF ArmInv, ArmTypeOK, ContextsAreKept, OneTaskRuns
  <1>1. CASE UserCall \/ \E o \in Outcome : WriteOut(o)
    BY <1>1 DEF UserCall, WriteOut, InUser, ArmInv, ArmTypeOK, ContextsAreKept, OneTaskRuns, OwnContext
  <1>2. CASE arm_yield
    <2>1. Schedulable(tstate) /\ ~halted
      BY <1>a, <1>2 DEF arm_yield, InUser, Schedulable
    <2> QED BY <1>2, <2>1, ScheduleKeepsContexts DEF arm_yield
  <1>3. CASE TaskExit \/ UserFault
    <2> DEFINE s == [tstate EXCEPT ![current] = "FREE", ![0] = IF @ = "RUNNING" THEN @ ELSE "READY"]
    <2>1. Schedulable(s) /\ ~halted
      BY <1>a, <1>3, Numbering DEF TaskExit, UserFault, InUser, Schedulable, States
    <2>2. schedule(s)
      BY <1>3 DEF TaskExit, UserFault, Dies
    <2> QED BY <2>1, <2>2, ScheduleKeepsContexts
  <1>4. ASSUME NEW ms \in 0 .. ArmMaxSleep, arm_sleep(ms) PROVE ArmInv'
    <2>1. CASE ms = 0
      BY <1>4, <2>1 DEF arm_sleep, ArmInv, ArmTypeOK, ContextsAreKept, OneTaskRuns, OwnContext
    <2>2. CASE ms # 0
      <3> DEFINE s == [tstate EXCEPT ![current] = "SLEEPING"]
      <3>1. Schedulable(s) /\ ~halted
        BY <1>a, <1>4, Numbering DEF arm_sleep, InUser, Schedulable, States
      <3>2. schedule(s)
        BY <1>4, <2>2 DEF arm_sleep
      <3> QED BY <3>1, <3>2, ScheduleKeepsContexts
    <2> QED BY <2>1, <2>2
  <1>5. CASE arm_timer_tick
    <2>1. Schedulable(Woken) /\ ~halted
      BY <1>a, <1>5, Numbering DEF arm_timer_tick, Interrupted, Schedulable, Woken, States
    <2>2. CASE schedule(Woken)
      BY <2>1, <2>2, ScheduleKeepsContexts
    <2>3. CASE tstate' = Woken /\ UNCHANGED <<saved, current, bank, ttbr0, halted>>
      BY <1>a, <2>1, <2>3 DEF Woken, States, ArmInv, ArmTypeOK, ContextsAreKept, OneTaskRuns, OwnContext, Schedulable
    <2> QED BY <1>5, <2>2, <2>3 DEF arm_timer_tick
  <1>6. CASE UNCHANGED avars
    BY <1>6 DEF avars, ArmInv, ArmTypeOK, ContextsAreKept, OneTaskRuns, OwnContext
  <1> QED BY <1>1, <1>2, <1>3, <1>4, <1>5, <1>6 DEF ArmNext

(* Through every order of system calls, faults and ticks one task has the  *)
(* CPU, and it and all that wait have their own registers and address      *)
(* space (arm_main.c:206, arm_vectors.S:380).                              *)
THEOREM ContextsAlwaysKept == ArmSpec => []ContextsAreKept
  <1>1. ArmSpec => []ArmInv
    BY ArmInitial, ArmStep, PTL DEF ArmSpec
  <1>2. ArmInv => ContextsAreKept
    BY DEF ArmInv
  <1> QED BY <1>1, <1>2, PTL

-----------------------------------------------------------------------------
(***************************************************************************)
(* The kernel heap, for every number of orders and of threads: the tree    *)
(* stays a partition of the heap that the headers and the count of blocks  *)
(* agree with, and the heap keeps its promise.                             *)
(***************************************************************************)
Least == INSTANCE FoldProofs WITH Op <- LAMBDA x, e : x, Good <- LAMBDA x : TRUE

-----------------------------------------------------------------------------
(* Powers of two.                                                          *)
Exponent == 0 .. MaxOrder + 1
Pow(o) == 2^o

LEMMA PowerStarts ==
  /\ MaxOrder \in Nat /\ MaxOrder \in Exponent
  /\ Pow(0) = 1 /\ \A o \in 0 .. MaxOrder : Pow(o + 1) = 2 * Pow(o)
  BY BuddyAssumption DEF BuddyAssumption, Pow, Exponent

LEMMA PowerIs == \A o \in Exponent : Pow(o) \in Nat \ {0}
  <1> DEFINE bad == {o \in Nat : o <= MaxOrder + 1 /\ Pow(o) \notin Nat \ {0}}
  <1>1. bad = {}
    <2>1. SUFFICES ASSUME bad # {} PROVE FALSE
      OBVIOUS
    <2>2. PICK b \in bad : \A o \in bad : ~(o < b)
      <3>1. bad \in SUBSET Nat
        OBVIOUS
      <3> HIDE DEF bad
      <3> QED BY <2>1, <3>1, Least!LeastExists
    <2>3. b \in Nat /\ b <= MaxOrder + 1 /\ Pow(b) \notin Nat \ {0}
      BY <2>2
    <2>4. b # 0
      BY <2>3, PowerStarts
    <2>5. PICK o \in Nat : b = o + 1
      BY <2>3, <2>4
    <2>6. o \notin bad /\ o \in 0 .. MaxOrder /\ o <= MaxOrder + 1
      BY <2>2, <2>3, <2>5, PowerStarts
    <2>7. Pow(o) \in Nat \ {0}
      BY <2>6
    <2>8. Pow(b) = 2 * Pow(o)
      BY <2>5, <2>6, PowerStarts
    <2> QED BY <2>3, <2>7, <2>8
  <1>2. \A o \in Exponent : o \in Nat /\ o <= MaxOrder + 1
    BY PowerStarts DEF Exponent
  <1> QED BY <1>1, <1>2

LEMMA PowerSum ==
  \A a, b \in Exponent : a + b \in Exponent => Pow(a + b) = Pow(a) * Pow(b)
  <1> SUFFICES ASSUME NEW a \in Exponent
               PROVE  \A b \in Exponent : a + b \in Exponent => Pow(a + b) = Pow(a) * Pow(b)
    OBVIOUS
  <1> DEFINE bad == {b \in Nat : b \in Exponent /\ a + b \in Exponent
                                 /\ Pow(a + b) # Pow(a) * Pow(b)}
  <1>1. bad = {}
    <2>1. SUFFICES ASSUME bad # {} PROVE FALSE
      OBVIOUS
    <2>2. PICK b \in bad : \A o \in bad : ~(o < b)
      <3>1. bad \in SUBSET Nat
        OBVIOUS
      <3> HIDE DEF bad
      <3> QED BY <2>1, <3>1, Least!LeastExists
    <2>3. b \in Nat /\ b \in Exponent /\ a + b \in Exponent /\ Pow(a + b) # Pow(a) * Pow(b)
      BY <2>2
    <2>4. b # 0
      <3>1. a + 0 = a /\ Pow(a) * 1 = Pow(a)
        BY PowerIs DEF Exponent
      <3> QED BY <2>3, <3>1, PowerStarts
    <2>5. PICK o \in Nat : b = o + 1
      BY <2>3, <2>4
    <2>6. /\ o \notin bad /\ o \in Exponent /\ a + o \in Exponent
          /\ o \in 0 .. MaxOrder /\ a + o \in 0 .. MaxOrder /\ a + b = (a + o) + 1
      BY <2>2, <2>3, <2>5, PowerStarts DEF Exponent
    <2>7. Pow(a + o) = Pow(a) * Pow(o)
      BY <2>6
    <2>8. Pow(a + b) = 2 * Pow(a + o) /\ Pow(b) = 2 * Pow(o)
      BY <2>5, <2>6, PowerStarts
    <2>9. \A x, y \in Nat : 2 * (x * y) = x * (2 * y)
      OBVIOUS
    <2> QED BY <2>3, <2>6, <2>7, <2>8, <2>9, PowerIs
  <1>2. \A o \in Exponent : o \in Nat
    BY PowerStarts DEF Exponent
  <1> QED BY <1>1, <1>2

LEMMA PowerGrows ==
  \A a, b \in Exponent : a < b => 2 * Pow(a) <= Pow(b) /\ Pow(a) < Pow(b)
  <1> SUFFICES ASSUME NEW a \in Exponent, NEW b \in Exponent, a < b
               PROVE  2 * Pow(a) <= Pow(b) /\ Pow(a) < Pow(b)
    OBVIOUS
  <1>1. PICK c \in Exponent : b = (a + 1) + c /\ a + 1 \in Exponent /\ a \in 0 .. MaxOrder
    <2>1. b - a - 1 \in Exponent /\ b = (a + 1) + (b - a - 1)
      BY PowerStarts DEF Exponent
    <2> QED BY <2>1, PowerStarts DEF Exponent
  <1>2. Pow(b) = (2 * Pow(a)) * Pow(c)
    BY <1>1, PowerSum, PowerStarts
  <1>3. \A x, y \in Nat \ {0} : x <= x * y
    OBVIOUS
  <1>4. Pow(a) \in Nat \ {0} /\ Pow(c) \in Nat \ {0} /\ 2 * Pow(a) \in Nat \ {0}
    BY PowerIs
  <1>5. 2 * Pow(a) <= (2 * Pow(a)) * Pow(c)
    BY <1>3, <1>4
  <1> QED BY <1>2, <1>4, <1>5

-----------------------------------------------------------------------------
(* Nodes and their depth.                                                  *)
LEMMA Quotient ==
  ASSUME NEW m \in Nat, NEW P \in Nat \ {0}
  PROVE  /\ m \div P \in Nat /\ (m \div P) * P <= m /\ m < (m \div P) * P + P
         /\ \A q \in Nat : q * P <= m /\ m < q * P + P => m \div P = q
  <1>1. \A a \in Nat, n \in Nat \ {0} : a \div n \in Nat /\ a % n \in 0 .. n - 1
                                         /\ a = (a \div n) * n + (a % n)
    OBVIOUS
  <1>2. PICK r \in Nat : r = m \div P /\ r * P <= m /\ m < r * P + P
    <2>1. m \div P \in Nat /\ m % P \in 0 .. P - 1 /\ m = (m \div P) * P + (m % P)
      BY <1>1
    <2>2. PICK r \in Nat, x \in 0 .. P - 1 : r = m \div P /\ m = r * P + x
      BY <2>1
    <2>3. r * P \in Nat
      OBVIOUS
    <2> QED BY <2>2, <2>3
  <1>3. ASSUME NEW q \in Nat, q * P <= m, m < q * P + P PROVE r = q
    <2>1. \A x, y \in Nat : x < y => x * P + P <= y * P
      <3>1. SUFFICES ASSUME NEW x \in Nat, NEW y \in Nat, x < y PROVE x * P + P <= y * P
        OBVIOUS
      <3>2. PICK d \in Nat : y = x + 1 + d
        <4>1. y - x - 1 \in Nat /\ y = x + 1 + (y - x - 1)
          BY <3>1
        <4> QED BY <4>1
      <3>3. y * P = x * P + P + d * P /\ d * P \in Nat /\ x * P \in Nat
        BY <3>2
      <3> QED BY <3>3
    <2>2. q * P \in Nat /\ r * P \in Nat
      OBVIOUS
    <2>3. ~(r < q)
      <3>1. SUFFICES ASSUME r < q PROVE FALSE
        OBVIOUS
      <3>2. r * P + P <= q * P
        BY <2>1, <3>1
      <3> QED BY <1>2, <1>3, <2>2, <3>2
    <2>4. ~(q < r)
      <3>1. SUFFICES ASSUME q < r PROVE FALSE
        OBVIOUS
      <3>2. q * P + P <= r * P
        BY <2>1, <3>1
      <3> QED BY <1>2, <1>3, <2>2, <3>2
    <2> QED BY <2>3, <2>4
  <1> QED BY <1>2, <1>3

LEMMA NodeIs ==
  /\ \A n : n \in Node <=> n \in Nat /\ 1 <= n /\ n < Pow(MaxOrder + 1)
  /\ Pow(MaxOrder + 1) \in Nat /\ 1 < Pow(MaxOrder + 1)
  /\ Pow(MaxOrder) \in Nat /\ Pow(MaxOrder + 1) = 2 * Pow(MaxOrder)
  <1>1. Pow(MaxOrder + 1) \in Nat /\ Pow(MaxOrder) \in Nat \ {0}
        /\ Pow(MaxOrder + 1) = 2 * Pow(MaxOrder)
    BY PowerIs, PowerStarts DEF Exponent
  <1>2. Node = 1 .. Pow(MaxOrder + 1) - 1
    BY DEF Node, Pow
  <1> QED BY <1>1, <1>2

AtDepth(n, d) == Pow(d) <= n /\ n < Pow(d + 1)

LEMMA DepthIs ==
  \A n \in Node : /\ get_depth[n] \in Order /\ AtDepth(n, get_depth[n])
                  /\ \A d \in Order : AtDepth(n, d) => d = get_depth[n]
  <1> SUFFICES ASSUME NEW n \in Node
               PROVE  /\ get_depth[n] \in Order /\ AtDepth(n, get_depth[n])
                      /\ \A d \in Order : AtDepth(n, d) => d = get_depth[n]
    OBVIOUS
  <1>1. get_depth[n] = CHOOSE d \in Order : AtDepth(n, d)
    BY DEF get_depth, AtDepth, Pow
  <1>2. \E d \in Order : AtDepth(n, d)
    <2> DEFINE over == {d \in Nat : d \in Order /\ n < Pow(d + 1)}
    <2>1. over # {}
      <3>1. MaxOrder \in Nat /\ MaxOrder \in Order /\ n < Pow(MaxOrder + 1)
        BY PowerStarts, NodeIs DEF Order
      <3> QED BY <3>1
    <2>2. PICK d \in over : \A e \in over : ~(e < d)
      <3>1. over \in SUBSET Nat
        OBVIOUS
      <3> HIDE DEF over
      <3> QED BY <2>1, <3>1, Least!LeastExists
    <2>3. d \in Nat /\ d \in Order /\ n < Pow(d + 1)
      BY <2>2
    <2>4. CASE d = 0
      <3>1. Pow(d) <= n
        BY <2>4, NodeIs, PowerStarts
      <3> QED BY <2>3, <3>1 DEF AtDepth
    <2>5. CASE d # 0
      <3>1. PICK e \in Nat : d = e + 1
        BY <2>3, <2>5
      <3>2. e \notin over /\ e \in Order /\ d \in Exponent
        BY <2>2, <2>3, <3>1, PowerStarts DEF Order, Exponent
      <3>3. Pow(d) \in Nat /\ ~(n < Pow(e + 1)) /\ n \in Nat
        BY <3>2, PowerIs, NodeIs
      <3> QED BY <2>3, <3>1, <3>3 DEF AtDepth
    <2> QED BY <2>4, <2>5
  <1>3. ASSUME NEW d \in Order, NEW e \in Order, AtDepth(n, d), AtDepth(n, e), d < e PROVE FALSE
    <2>1. d + 1 \in Exponent /\ e \in Exponent /\ d + 1 <= e
      BY <1>3, PowerStarts DEF Order, Exponent
    <2>2. Pow(d + 1) <= Pow(e)
      <3>1. Pow(d + 1) \in Nat /\ Pow(e) \in Nat
        BY <2>1, PowerIs
      <3>2. CASE d + 1 = e
        BY <3>1, <3>2
      <3>3. CASE d + 1 # e
        <4>1. d + 1 < e
          BY <2>1, <3>3 DEF Exponent
        <4> QED BY <2>1, <3>1, <4>1, PowerGrows
      <3> QED BY <3>2, <3>3
    <2>3. n \in Nat /\ Pow(d + 1) \in Nat /\ Pow(e) \in Nat
      BY <2>1, PowerIs, NodeIs
    <2> QED BY <1>3, <2>2, <2>3 DEF AtDepth
  <1>4. \A d, e \in Order : AtDepth(n, d) /\ AtDepth(n, e) => d = e
    <2>1. \A d \in Order : d \in Int
      BY DEF Order
    <2> QED BY <1>3, <2>1
  <1> QED BY <1>1, <1>2, <1>4

-----------------------------------------------------------------------------
(* The tree: parents, children, siblings.                                  *)
Above(n) == n \div 2
D(n) == get_depth[n]

LEMMA Multiples ==
  \A P \in Nat \ {0}, x, y \in Nat : /\ x < y => x * P + P <= y * P
                                     /\ x <= y => x * P <= y * P
                                     /\ x * P \in Nat
  <1> SUFFICES ASSUME NEW P \in Nat \ {0}, NEW x \in Nat, NEW y \in Nat
               PROVE  /\ x < y => x * P + P <= y * P
                      /\ x <= y => x * P <= y * P
                      /\ x * P \in Nat
    OBVIOUS
  <1>1. x < y => x * P + P <= y * P
    <2>1. SUFFICES ASSUME x < y PROVE x * P + P <= y * P
      OBVIOUS
    <2>2. PICK d \in Nat : y = x + 1 + d
      <3>1. y - x - 1 \in Nat /\ y = x + 1 + (y - x - 1)
        BY <2>1
      <3> QED BY <3>1
    <2>3. y * P = x * P + P + d * P /\ d * P \in Nat /\ x * P \in Nat
      BY <2>2
    <2> QED BY <2>3
  <1>2. x * P \in Nat /\ y * P \in Nat
    OBVIOUS
  <1>3. x = y => x * P <= y * P
    BY <1>2
  <1> QED BY <1>1, <1>2, <1>3

LEMMA Depth ==
  \A n \in Node : /\ n \in Nat \ {0} /\ D(n) \in 0 .. MaxOrder
                  /\ Pow(D(n)) <= n /\ n < Pow(D(n) + 1)
                  /\ \A d \in 0 .. MaxOrder : Pow(d) <= n /\ n < Pow(d + 1) => d = D(n)
                  /\ (D(n) = 0 <=> n = 1)
  <1>1. ASSUME NEW n \in Node
        PROVE  /\ n \in Nat \ {0} /\ D(n) \in 0 .. MaxOrder
               /\ Pow(D(n)) <= n /\ n < Pow(D(n) + 1)
               /\ \A d \in 0 .. MaxOrder : Pow(d) <= n /\ n < Pow(d + 1) => d = D(n)
    BY DepthIs, NodeIs DEF AtDepth, Order, D
  <1>2. ASSUME NEW n \in Node PROVE D(n) = 0 <=> n = 1
    <2>1. 0 \in 0 .. MaxOrder /\ Pow(0) = 1 /\ Pow(0 + 1) = 2
      BY PowerStarts
    <2> QED BY <1>1, <2>1
  <1> QED BY <1>1, <1>2

LEMMA NodeAtDepth ==
  ASSUME NEW n \in Nat, NEW d \in 0 .. MaxOrder, Pow(d) <= n, n < Pow(d + 1)
  PROVE  n \in Node /\ D(n) = d
  <1>1. d \in Exponent /\ d + 1 \in Exponent /\ MaxOrder + 1 \in Exponent
    BY PowerStarts DEF Exponent
  <1>2. Pow(d) \in Nat \ {0} /\ Pow(d + 1) \in Nat /\ Pow(MaxOrder + 1) \in Nat
    BY <1>1, PowerIs
  <1>3. Pow(d + 1) <= Pow(MaxOrder + 1)
    <2>1. CASE d = MaxOrder
      BY <1>2, <2>1
    <2>2. CASE d # MaxOrder
      <3>1. d + 1 < MaxOrder + 1
        BY <2>2, PowerStarts
      <3>2. Pow(d + 1) < Pow(MaxOrder + 1)
        BY <1>1, <3>1, PowerGrows
      <3> QED BY <1>2, <3>2
    <2> QED BY <2>1, <2>2
  <1>4. n \in Node
    BY <1>2, <1>3, NodeIs
  <1> QED BY <1>4, Depth

LEMMA UpIs ==
  ASSUME NEW n \in Node, NEW h \in 0 .. D(n)
  PROVE  /\ Up(n, h) \in Node /\ D(Up(n, h)) = D(n) - h
         /\ h = 0 => Up(n, h) = n
         /\ h = D(n) => Up(n, h) = 1
         /\ h > 0 => Up(n, h) = Above(Up(n, h - 1))
  <1>1. /\ n \in Nat /\ D(n) \in 0 .. MaxOrder /\ Pow(D(n)) <= n /\ n < Pow(D(n) + 1)
        /\ h \in Nat /\ h <= D(n) /\ D(n) - h \in 0 .. MaxOrder
    BY Depth, PowerStarts
  <1>2. PICK d \in Nat, e \in Nat : d = D(n) /\ e = d - h /\ d = e + h
    BY <1>1
  <1>3. /\ d \in 0 .. MaxOrder /\ e \in 0 .. MaxOrder /\ h \in Exponent /\ e \in Exponent
        /\ e + 1 \in Exponent /\ d \in Exponent /\ d + 1 \in Exponent /\ d + 1 = (e + 1) + h
    BY <1>1, <1>2, PowerStarts DEF Exponent
  <1>4. PICK P \in Nat \ {0}, E \in Nat \ {0} : P = Pow(h) /\ E = Pow(e) /\ Pow(e + 1) = 2 * E
    BY <1>3, PowerIs, PowerStarts
  <1>5. Pow(d) = E * P /\ Pow(d + 1) = (2 * E) * P
    <2>1. e + h \in Exponent /\ (e + 1) + h \in Exponent
      BY <1>2, <1>3
    <2>2. Pow(e + h) = Pow(e) * Pow(h) /\ Pow((e + 1) + h) = Pow(e + 1) * Pow(h)
      BY <1>3, <2>1, PowerSum
    <2> QED BY <1>2, <1>3, <1>4, <2>2
  <1>6. PICK q \in Nat : q = Up(n, h) /\ q * P <= n /\ n < q * P + P
    BY <1>1, <1>4, Quotient DEF Up, Pow
  <1>7. E <= q /\ q < 2 * E
    <2>1. ASSUME q < E PROVE FALSE
      <3>1. q * P + P <= E * P
        BY <2>1, Multiples
      <3>2. q * P \in Nat /\ E * P \in Nat
        BY Multiples
      <3> QED BY <1>1, <1>2, <1>5, <1>6, <3>1, <3>2
    <2>2. ASSUME 2 * E <= q PROVE FALSE
      <3>1. (2 * E) * P <= q * P /\ 2 * E \in Nat
        BY <2>2, Multiples
      <3>2. q * P \in Nat /\ (2 * E) * P \in Nat
        BY <3>1, Multiples
      <3> QED BY <1>1, <1>2, <1>5, <1>6, <3>1, <3>2
    <2> QED BY <2>1, <2>2
  <1>8. q \in Node /\ D(q) = e
    BY <1>3, <1>4, <1>7, NodeAtDepth
  <1>9. ASSUME h = 0 PROVE q = n
    <2>1. P = 1
      BY <1>4, <1>9, PowerStarts
    <2> QED BY <1>1, <1>6, <2>1
  <1>10. ASSUME h = D(n) PROVE q = 1
    BY <1>2, <1>8, <1>10, Depth
  <1>11. ASSUME h > 0 PROVE q = Above(Up(n, h - 1))
    <2>1. h - 1 \in 0 .. MaxOrder /\ h - 1 \in Exponent /\ (h - 1) + 1 = h
      BY <1>1, <1>11, PowerStarts DEF Exponent
    <2>2. PICK R \in Nat \ {0} : R = Pow(h - 1) /\ P = 2 * R
      BY <1>4, <2>1, PowerIs, PowerStarts
    <2>3. PICK r \in Nat : r = Up(n, h - 1) /\ r * R <= n /\ n < r * R + R
      BY <1>1, <2>2, Quotient DEF Up, Pow
    <2>4. PICK a \in Nat : a = Above(r) /\ 2 * a <= r /\ r <= 2 * a + 1
      BY <2>3 DEF Above
    <2>5. a * P = (2 * a) * R /\ a * P + P = (2 * a + 1) * R + R
      BY <2>2
    <2>6. (2 * a) * R <= r * R /\ r * R <= (2 * a + 1) * R
      BY <2>3, <2>4, Multiples
    <2>7. (2 * a) * R \in Nat /\ r * R \in Nat /\ (2 * a + 1) * R \in Nat /\ a * P \in Nat
      OBVIOUS
    <2>8. a * P <= n /\ n < a * P + P
      BY <1>1, <2>3, <2>5, <2>6, <2>7
    <2>9. n \div P = a
      BY <1>1, <2>8, Quotient
    <2> QED BY <1>4, <1>6, <2>3, <2>4, <2>9 DEF Up, Pow
  <1> QED BY <1>1, <1>2, <1>6, <1>8, <1>9, <1>10, <1>11

LEMMA ChildrenAre ==
  ASSUME NEW n \in Node, D(n) < MaxOrder
  PROVE  /\ 2 * n \in Node /\ 2 * n + 1 \in Node
         /\ D(2 * n) = D(n) + 1 /\ D(2 * n + 1) = D(n) + 1
         /\ Above(2 * n) = n /\ Above(2 * n + 1) = n
  <1>1. n \in Nat \ {0} /\ D(n) \in 0 .. MaxOrder /\ Pow(D(n)) <= n /\ n < Pow(D(n) + 1)
    BY Depth
  <1>2. D(n) + 1 \in 0 .. MaxOrder /\ D(n) \in Exponent /\ D(n) + 1 \in Exponent
    BY <1>1, PowerStarts DEF Exponent
  <1>3. /\ Pow(D(n)) \in Nat /\ Pow(D(n) + 1) = 2 * Pow(D(n))
        /\ Pow((D(n) + 1) + 1) = 2 * Pow(D(n) + 1)
    BY <1>1, <1>2, PowerIs, PowerStarts
  <1>4. /\ Pow(D(n) + 1) <= 2 * n /\ 2 * n + 1 < Pow((D(n) + 1) + 1)
        /\ 2 * n < Pow((D(n) + 1) + 1) /\ Pow(D(n) + 1) <= 2 * n + 1
    BY <1>1, <1>3
  <1>5. 2 * n \in Nat /\ 2 * n + 1 \in Nat
    BY <1>1
  <1>6. /\ 2 * n \in Node /\ 2 * n + 1 \in Node
        /\ D(2 * n) = D(n) + 1 /\ D(2 * n + 1) = D(n) + 1
    BY <1>2, <1>4, <1>5, NodeAtDepth
  <1>7. Above(2 * n) = n /\ Above(2 * n + 1) = n
    BY <1>1 DEF Above
  <1> QED BY <1>6, <1>7

LEMMA ParentIs ==
  ASSUME NEW c \in Node, c # 1
  PROVE  /\ Above(c) \in Node /\ D(c) = D(Above(c)) + 1 /\ D(Above(c)) < MaxOrder
         /\ c = 2 * Above(c) \/ c = 2 * Above(c) + 1
         /\ Sibling(c) \in Node /\ Sibling(c) # c /\ Sibling(Sibling(c)) = c /\ Sibling(c) # 1
         /\ Above(Sibling(c)) = Above(c) /\ D(Sibling(c)) = D(c)
         /\ Sibling(c) = 2 * Above(c) \/ Sibling(c) = 2 * Above(c) + 1
  <1>1. D(c) # 0 /\ D(c) \in 0 .. MaxOrder /\ c \in Nat
    BY Depth
  <1>2. 1 \in 0 .. D(c) /\ 0 \in 0 .. D(c)
    BY <1>1
  <1>3. Up(c, 1) = Above(c)
    <2>1. Up(c, 0) = c /\ Up(c, 1) = Above(Up(c, 1 - 1)) /\ 1 - 1 = 0
      BY <1>2, UpIs
    <2> QED BY <2>1
  <1>4. Above(c) \in Node /\ D(Above(c)) = D(c) - 1
    BY <1>2, <1>3, UpIs
  <1>5. D(c) = D(Above(c)) + 1 /\ D(Above(c)) < MaxOrder
    BY <1>1, <1>4, PowerStarts
  <1>6. PICK a \in Node : a = Above(c) /\ a \in Nat
    BY <1>4, Depth
  <1>7. c = 2 * a \/ c = 2 * a + 1
    BY <1>1, <1>6 DEF Above
  <1>8. /\ 2 * a \in Node /\ 2 * a + 1 \in Node /\ D(2 * a) = D(c) /\ D(2 * a + 1) = D(c)
        /\ Above(2 * a) = a /\ Above(2 * a + 1) = a
    BY <1>5, <1>6, ChildrenAre
  <1>9. Sibling(2 * a) = 2 * a + 1 /\ Sibling(2 * a + 1) = 2 * a
    BY <1>6 DEF Sibling
  <1>10. 2 * a # 1 /\ 2 * a + 1 # 1
    BY <1>6, Depth
  <1> QED BY <1>4, <1>5, <1>6, <1>7, <1>8, <1>9, <1>10

LEMMA DownIs ==
  ASSUME NEW n \in Node, NEW k \in 0 .. MaxOrder - D(n)
  PROVE  /\ n * Pow(k) \in Node /\ D(n * Pow(k)) = D(n) + k
         /\ k = 0 => n * Pow(k) = n
         /\ k > 0 => n * Pow(k) = 2 * (n * Pow(k - 1))
  <1>1. n \in Nat /\ D(n) \in 0 .. MaxOrder /\ Pow(D(n)) <= n /\ n < Pow(D(n) + 1)
    BY Depth
  <1>2. /\ k \in Exponent /\ D(n) \in Exponent /\ D(n) + 1 \in Exponent /\ D(n) + k \in 0 .. MaxOrder
        /\ D(n) + k \in Exponent /\ (D(n) + k) + 1 = (D(n) + 1) + k /\ (D(n) + 1) + k \in Exponent
    BY <1>1, PowerStarts DEF Exponent
  <1>3. PICK P \in Nat \ {0}, E \in Nat \ {0}, F \in Nat \ {0} :
          P = Pow(k) /\ E = Pow(D(n)) /\ F = Pow(D(n) + 1)
    BY <1>2, PowerIs
  <1>4. Pow(D(n) + k) = E * P /\ Pow((D(n) + k) + 1) = F * P
    BY <1>2, <1>3, PowerSum
  <1>5. E * P <= n * P /\ n * P < F * P /\ n * P \in Nat
    <2>1. E * P <= n * P /\ n * P + P <= F * P /\ n * P \in Nat /\ F * P \in Nat
      BY <1>1, <1>3, Multiples
    <2> QED BY <2>1
  <1>6. n * P \in Node /\ D(n * P) = D(n) + k
    BY <1>2, <1>4, <1>5, NodeAtDepth
  <1>7. k = 0 => n * P = n
    BY <1>1, <1>3, PowerStarts
  <1>8. ASSUME k > 0 PROVE n * P = 2 * (n * Pow(k - 1))
    <2>1. k - 1 \in 0 .. MaxOrder /\ k - 1 \in Exponent /\ (k - 1) + 1 = k
      BY <1>1, <1>8, PowerStarts DEF Exponent
    <2>2. PICK R \in Nat : R = Pow(k - 1) /\ P = 2 * R
      BY <1>3, <2>1, PowerIs, PowerStarts
    <2>3. \A x, y \in Nat : x * (2 * y) = 2 * (x * y)
      OBVIOUS
    <2> QED BY <1>1, <2>2, <2>3
  <1> QED BY <1>3, <1>6, <1>7, <1>8

-----------------------------------------------------------------------------
(* The tree of heap.c node by node: a node is used just when the one above *)
(* it is split.                                                            *)
TreeState == {"UNUSED", "FREE", "ALLOC", "SPLIT"}

TreeShape(t) ==
  /\ t \in [Node -> TreeState]
  /\ t[1] # "UNUSED"
  /\ \A n \in Node : D(n) = MaxOrder => t[n] # "SPLIT"
  /\ \A c \in Node : c # 1 => (t[c] # "UNUSED" <=> t[Above(c)] = "SPLIT")
  /\ \A c \in Node : c # 1 => ~(t[c] = "FREE" /\ t[Sibling(c)] = "FREE")

LEMMA OrderIs ==
  \A n \in Node : /\ OrderOf(n) \in 0 .. MaxOrder /\ OrderOf(n) = MaxOrder - D(n)
                  /\ D(n) = MaxOrder - OrderOf(n)
  <1> SUFFICES ASSUME NEW n \in Node
               PROVE  /\ OrderOf(n) \in 0 .. MaxOrder /\ OrderOf(n) = MaxOrder - D(n)
                      /\ D(n) = MaxOrder - OrderOf(n)
    OBVIOUS
  <1>1. D(n) \in 0 .. MaxOrder /\ MaxOrder \in Nat
    BY Depth, PowerStarts
  <1>2. OrderOf(n) = MaxOrder - D(n)
    BY DEF OrderOf, D
  <1> QED BY <1>1, <1>2

(* The left spine below n and what hangs to its right.                     *)
LEMMA SpineIs ==
  ASSUME NEW n \in Node, NEW d \in Nat, D(n) + d <= MaxOrder
  PROVE  /\ \A k \in 0 .. d : n * Pow(k) \in Node /\ D(n * Pow(k)) = D(n) + k
         /\ n * Pow(0) = n
         /\ \A k \in 1 .. d :
              /\ n * Pow(k) # 1 /\ Above(n * Pow(k)) = n * Pow(k - 1)
              /\ Sibling(n * Pow(k)) = n * Pow(k) + 1
              /\ n * Pow(k) + 1 \in Node /\ D(n * Pow(k) + 1) = D(n) + k
              /\ n * Pow(k) + 1 # 1 /\ Above(n * Pow(k) + 1) = n * Pow(k - 1)
              /\ Sibling(n * Pow(k) + 1) = n * Pow(k)
  <1>1. D(n) \in 0 .. MaxOrder /\ MaxOrder \in Nat
    BY Depth, PowerStarts
  <1>2. ASSUME NEW k \in 0 .. d
        PROVE  /\ n * Pow(k) \in Node /\ D(n * Pow(k)) = D(n) + k
               /\ k = 0 => n * Pow(k) = n
               /\ k > 0 => n * Pow(k) = 2 * (n * Pow(k - 1))
    <2>1. k \in 0 .. MaxOrder - D(n)
      BY <1>1
    <2> QED BY <2>1, DownIs
  <1>3. ASSUME NEW k \in 1 .. d
        PROVE  /\ n * Pow(k) # 1 /\ Above(n * Pow(k)) = n * Pow(k - 1)
               /\ Sibling(n * Pow(k)) = n * Pow(k) + 1
               /\ n * Pow(k) + 1 \in Node /\ D(n * Pow(k) + 1) = D(n) + k
               /\ n * Pow(k) + 1 # 1 /\ Above(n * Pow(k) + 1) = n * Pow(k - 1)
               /\ Sibling(n * Pow(k) + 1) = n * Pow(k)
    <2>1. k \in 0 .. d /\ k - 1 \in 0 .. d /\ k > 0
      OBVIOUS
    <2>2. PICK a \in Node : a = n * Pow(k - 1) /\ D(a) = D(n) + (k - 1)
      BY <1>2, <2>1
    <2>3. n * Pow(k) = 2 * a
      BY <1>2, <2>1, <2>2
    <2>4. D(a) < MaxOrder /\ a \in Nat \ {0} /\ D(a) + 1 = D(n) + k
      BY <1>1, <2>1, <2>2, Depth
    <2>5. /\ 2 * a \in Node /\ 2 * a + 1 \in Node
          /\ D(2 * a) = D(a) + 1 /\ D(2 * a + 1) = D(a) + 1
          /\ Above(2 * a) = a /\ Above(2 * a + 1) = a
      BY <2>4, ChildrenAre
    <2>6. Sibling(2 * a) = 2 * a + 1 /\ Sibling(2 * a + 1) = 2 * a /\ 2 * a # 1 /\ 2 * a + 1 # 1
      BY <2>4 DEF Sibling
    <2> QED BY <2>2, <2>3, <2>4, <2>5, <2>6
  <1>4. n * Pow(0) = n
    BY <1>2
  <1> QED BY <1>2, <1>3, <1>4

(* Nothing below a block is used.                                          *)
LEMMA SpineIsUnused ==
  ASSUME TreeShape(tree), NEW n \in Node, tree[n] \in {"FREE", "ALLOC"},
         NEW d \in Nat, D(n) + d <= MaxOrder
  PROVE  \A k \in 1 .. d : tree[n * Pow(k)] = "UNUSED" /\ tree[n * Pow(k) + 1] = "UNUSED"
  <1>1. ASSUME NEW k \in 1 .. d, tree[n * Pow(k - 1)] # "SPLIT"
        PROVE  tree[n * Pow(k)] = "UNUSED" /\ tree[n * Pow(k) + 1] = "UNUSED"
    <2>1. /\ n * Pow(k) \in Node /\ n * Pow(k) # 1 /\ Above(n * Pow(k)) = n * Pow(k - 1)
          /\ n * Pow(k) + 1 \in Node /\ n * Pow(k) + 1 # 1
          /\ Above(n * Pow(k) + 1) = n * Pow(k - 1)
      <3>1. k \in 0 .. d
        OBVIOUS
      <3> QED BY <3>1, SpineIs
    <2> QED BY <1>1, <2>1 DEF TreeShape
  <1> DEFINE bad == {k \in Nat : k <= d /\ tree[n * Pow(k)] = "SPLIT"}
  <1>2. bad = {}
    <2>1. SUFFICES ASSUME bad # {} PROVE FALSE
      OBVIOUS
    <2>2. PICK b \in bad : \A k \in bad : ~(k < b)
      <3>1. bad \in SUBSET Nat
        OBVIOUS
      <3> HIDE DEF bad
      <3> QED BY <2>1, <3>1, Least!LeastExists
    <2>3. b \in Nat /\ b <= d /\ tree[n * Pow(b)] = "SPLIT"
      BY <2>2
    <2>4. b # 0
      BY <2>3, SpineIs
    <2>5. b - 1 \in Nat /\ b - 1 <= d /\ b - 1 \notin bad /\ b \in 1 .. d
      BY <2>2, <2>3, <2>4
    <2>6. tree[n * Pow(b - 1)] # "SPLIT"
      BY <2>5
    <2> QED BY <1>1, <2>3, <2>5, <2>6
  <1>3. ASSUME NEW k \in 1 .. d PROVE tree[n * Pow(k - 1)] # "SPLIT"
    <2>1. k - 1 \in Nat /\ k - 1 <= d /\ k - 1 \notin bad
      BY <1>2
    <2> QED BY <2>1
  <1> QED BY <1>1, <1>3

(* What splitting does to the tree.                                        *)
LEMMA SplitNodes ==
  ASSUME NEW n \in Node, NEW o \in 0 .. OrderOf(n)
  PROVE  LET d == OrderOf(n) - o
             T == SplitTo(n, o)
         IN /\ T = [m \in Node |-> T[m]] /\ d \in Nat /\ D(n) + d <= MaxOrder
            /\ T[n * Pow(d)] = "ALLOC"
            /\ \A k \in 0 .. d - 1 : T[n * Pow(k)] = "SPLIT"
            /\ \A k \in 1 .. d : T[n * Pow(k) + 1] = "FREE"
            /\ \A m \in Node : \/ \E k \in 0 .. d : m = n * Pow(k)
                               \/ \E k \in 1 .. d : m = n * Pow(k) + 1
                               \/ T[m] = tree[m]
  <1> DEFINE d == OrderOf(n) - o
             T == SplitTo(n, o)
  <1>1. /\ d \in Nat /\ D(n) + d <= MaxOrder /\ D(n) \in Nat
    BY OrderIs, PowerStarts, Depth
  <1> HIDE DEF d
  <1>2. T = [m \in Node |->
               IF m = n * Pow(d) THEN "ALLOC"
               ELSE IF \E k \in 0 .. d - 1 : m = n * Pow(k) THEN "SPLIT"
               ELSE IF \E k \in 1 .. d : m = n * Pow(k) + 1 THEN "FREE"
               ELSE tree[m]]
    BY DEF SplitTo, Pow, d
  <1> HIDE DEF T
  <1>3. \A k \in 0 .. d : n * Pow(k) \in Node /\ D(n * Pow(k)) = D(n) + k
    BY <1>1, SpineIs
  <1>4. T[n * Pow(d)] = "ALLOC"
    <2>1. n * Pow(d) \in Node
      BY <1>1, <1>3
    <2> QED BY <1>2, <2>1
  <1>5. ASSUME NEW k \in 0 .. d - 1 PROVE T[n * Pow(k)] = "SPLIT"
    <2>1. k \in 0 .. d /\ d \in 0 .. d /\ k # d
      BY <1>1
    <2>2. D(n * Pow(k)) # D(n * Pow(d))
      BY <1>1, <1>3, <2>1
    <2>3. n * Pow(k) \in Node /\ n * Pow(k) # n * Pow(d)
      BY <1>3, <2>1, <2>2
    <2> QED BY <1>2, <2>3
  <1>6. ASSUME NEW k \in 1 .. d PROVE T[n * Pow(k) + 1] = "FREE"
    <2>1. /\ n * Pow(k) + 1 \in Node /\ D(n * Pow(k) + 1) = D(n) + k
          /\ Sibling(n * Pow(k)) = n * Pow(k) + 1 /\ n * Pow(k) # 1 /\ n * Pow(k) \in Node
      BY <1>1, <1>3, SpineIs
    <2>2. ASSUME NEW j \in 0 .. d PROVE n * Pow(k) + 1 # n * Pow(j)
      <3>1. CASE j = k
        BY <2>1, <3>1, ParentIs
      <3>2. CASE j # k
        BY <1>1, <1>3, <2>1, <3>2
      <3> QED BY <3>1, <3>2
    <2>3. d \in 0 .. d /\ \A j \in 0 .. d - 1 : j \in 0 .. d
      BY <1>1
    <2> QED BY <1>2, <2>1, <2>2, <2>3
  <1>7. ASSUME NEW m \in Node
        PROVE  \/ \E k \in 0 .. d : m = n * Pow(k)
               \/ \E k \in 1 .. d : m = n * Pow(k) + 1
               \/ T[m] = tree[m]
    <2>1. d \in 0 .. d /\ \A j \in 0 .. d - 1 : j \in 0 .. d
      BY <1>1
    <2> QED BY <1>2, <2>1
  <1>8. T = [m \in Node |-> T[m]]
    BY <1>2
  <1> QED BY <1>1, <1>4, <1>5, <1>6, <1>7, <1>8 DEF d, T

AllocatedIn(t) == {n \in Node : t[n] = "ALLOC"}

LEMMA SplitKeeps ==
  ASSUME TreeShape(tree), NEW n \in Node, tree[n] = "FREE", NEW o \in 0 .. OrderOf(n)
  PROVE  LET b == n * Pow(OrderOf(n) - o)
         IN /\ TreeShape(SplitTo(n, o))
            /\ b \in Node /\ OrderOf(b) = o
            /\ b \notin AllocatedIn(tree)
            /\ AllocatedIn(SplitTo(n, o)) = AllocatedIn(tree) \cup {b}
  <1> DEFINE d == OrderOf(n) - o
             T == SplitTo(n, o)
             S(k) == n * Pow(k)
             R(k) == n * Pow(k) + 1
  <1>1. /\ T = [m \in Node |-> T[m]] /\ d \in Nat /\ D(n) + d <= MaxOrder
        /\ T[S(d)] = "ALLOC"
        /\ \A k \in 0 .. d - 1 : T[S(k)] = "SPLIT"
        /\ \A k \in 1 .. d : T[R(k)] = "FREE"
        /\ \A m \in Node : \/ \E k \in 0 .. d : m = S(k)
                           \/ \E k \in 1 .. d : m = R(k)
                           \/ T[m] = tree[m]
    BY SplitNodes
  <1>0. OrderOf(n) - d = o /\ D(n) \in 0 .. MaxOrder /\ MaxOrder \in Nat
        /\ OrderOf(n) = MaxOrder - D(n) /\ o \in Nat
    BY OrderIs, PowerStarts, Depth
  <1>2. tree \in [Node -> TreeState] /\ tree[1] # "UNUSED"
        /\ (\A m \in Node : D(m) = MaxOrder => tree[m] # "SPLIT")
        /\ (\A c \in Node : c # 1 => (tree[c] # "UNUSED" <=> tree[Above(c)] = "SPLIT"))
        /\ \A c \in Node : c # 1 => ~(tree[c] = "FREE" /\ tree[Sibling(c)] = "FREE")
    BY DEF TreeShape
  <1> HIDE DEF d, T
  <1>3. /\ \A k \in 0 .. d : S(k) \in Node /\ D(S(k)) = D(n) + k
        /\ S(0) = n
        /\ \A k \in 1 .. d :
              /\ S(k) # 1 /\ Above(S(k)) = S(k - 1) /\ Sibling(S(k)) = R(k)
              /\ R(k) \in Node /\ D(R(k)) = D(n) + k
              /\ R(k) # 1 /\ Above(R(k)) = S(k - 1) /\ Sibling(R(k)) = S(k)
    BY <1>1, SpineIs
  <1>4. \A k \in 1 .. d : tree[S(k)] = "UNUSED" /\ tree[R(k)] = "UNUSED"
    BY <1>1, SpineIsUnused
  <1>5. \A k \in 0 .. d - 1 : 2 * S(k) = S(k + 1) /\ 2 * S(k) + 1 = R(k + 1)
    <2>1. SUFFICES ASSUME NEW k \in 0 .. d - 1 PROVE 2 * S(k) = S(k + 1)
      BY DEF R, S
    <2>2. k + 1 \in 0 .. MaxOrder - D(n) /\ (k + 1) - 1 = k /\ k + 1 > 0
      BY <1>0, <1>1
    <2> QED BY <2>2, DownIs
  <1> HIDE DEF S, R
  <1>6. \A m \in Node : T[m] \in TreeState /\ (T[m] # tree[m] => T[m] # "UNUSED")
    <2> SUFFICES ASSUME NEW m \in Node
                 PROVE  T[m] \in TreeState /\ (T[m] # tree[m] => T[m] # "UNUSED")
      OBVIOUS
    <2>1. CASE \E k \in 0 .. d : m = S(k)
      <3>1. PICK k \in 0 .. d : m = S(k)
        BY <2>1
      <3>2. k = d \/ k \in 0 .. d - 1
        BY <1>1
      <3> QED BY <1>1, <3>1, <3>2 DEF TreeState
    <2>2. CASE \E k \in 1 .. d : m = R(k)
      BY <1>1, <2>2 DEF TreeState
    <2>3. CASE T[m] = tree[m]
      BY <1>2, <2>3
    <2> QED BY <1>1, <2>1, <2>2, <2>3
  <1>7. T[1] # "UNUSED" /\ 1 \in Node
    <2>1. 1 \in Node
      BY NodeIs
    <2> QED BY <1>2, <1>6, <2>1
  <1>8. ASSUME NEW m \in Node, D(m) = MaxOrder PROVE T[m] # "SPLIT"
    <2>1. CASE \E k \in 0 .. d : m = S(k)
      <3>1. PICK k \in 0 .. d : m = S(k)
        BY <2>1
      <3>2. k = d
        BY <1>0, <1>1, <1>3, <1>8, <3>1
      <3> QED BY <1>1, <3>1, <3>2
    <2>2. CASE \E k \in 1 .. d : m = R(k)
      BY <1>1, <2>2
    <2>3. CASE T[m] = tree[m]
      BY <1>2, <1>8, <2>3
    <2> QED BY <1>1, <2>1, <2>2, <2>3
  <1>9. ASSUME NEW c \in Node, c # 1 PROVE T[c] # "UNUSED" <=> T[Above(c)] = "SPLIT"
    <2>1. CASE \E k \in 1 .. d : c = S(k) \/ c = R(k)
      <3>1. PICK k \in 1 .. d : c = S(k) \/ c = R(k)
        BY <2>1
      <3>2. k - 1 \in 0 .. d - 1 /\ k \in 0 .. d /\ (k = d \/ k \in 0 .. d - 1)
        BY <1>1
      <3>3. Above(c) = S(k - 1)
        BY <1>3, <3>1
      <3>4. T[Above(c)] = "SPLIT"
        BY <1>1, <3>2, <3>3
      <3>5. T[c] # "UNUSED"
        BY <1>1, <3>1, <3>2
      <3> QED BY <3>4, <3>5
    <2>2. CASE c = n
      <3>1. Above(n) \in Node /\ D(Above(n)) < D(n)
        BY <1>9, <2>2, ParentIs, Depth
      <3>2. T[Above(n)] = tree[Above(n)]
        <4>1. ASSUME NEW k \in 0 .. d PROVE Above(n) # S(k) /\ (k # 0 => Above(n) # R(k))
          <5>1. k # 0 => k \in 1 .. d
            BY <1>1
          <5> QED BY <1>0, <1>3, <3>1, <5>1
        <4>2. \A k \in 1 .. d : k \in 0 .. d /\ k # 0
          OBVIOUS
        <4> QED BY <1>1, <3>1, <4>1, <4>2
      <3>3. tree[Above(n)] = "SPLIT"
        BY <1>2, <1>9, <2>2
      <3>4. 0 \in 0 .. d /\ (d = 0 \/ 0 \in 0 .. d - 1)
        BY <1>1
      <3>5. T[n] # "UNUSED"
        BY <1>1, <1>3, <3>4
      <3> QED BY <2>2, <3>2, <3>3, <3>5
    <2>3. CASE c # n /\ \A k \in 1 .. d : c # S(k) /\ c # R(k)
      <3>1. T[c] = tree[c]
        <4>1. \A k \in 0 .. d : k = 0 \/ k \in 1 .. d
          BY <1>1
        <4> QED BY <1>1, <1>3, <2>3, <4>1
      <3>2. Above(c) \in Node /\ (c = 2 * Above(c) \/ c = 2 * Above(c) + 1)
        BY <1>9, ParentIs
      <3>3. CASE \E k \in 0 .. d : Above(c) = S(k)
        <4>1. PICK k \in 0 .. d : Above(c) = S(k)
          BY <3>3
        <4>2. k = d
          <5>1. SUFFICES ASSUME k # d PROVE FALSE
            OBVIOUS
          <5>2. k \in 0 .. d - 1 /\ k + 1 \in 1 .. d
            BY <1>1, <5>1
          <5>3. c = S(k + 1) \/ c = R(k + 1)
            BY <1>5, <3>2, <4>1, <5>2
          <5> QED BY <2>3, <5>2, <5>3
        <4>3. T[Above(c)] = "ALLOC"
          BY <1>1, <4>1, <4>2
        <4>4. tree[Above(c)] # "SPLIT"
          <5>1. d = 0 \/ d \in 1 .. d
            BY <1>1
          <5> QED BY <1>3, <1>4, <4>1, <4>2, <5>1
        <4> QED BY <1>2, <1>9, <3>1, <4>3, <4>4
      <3>4. CASE \E k \in 1 .. d : Above(c) = R(k)
        <4>1. T[Above(c)] = "FREE" /\ tree[Above(c)] = "UNUSED"
          BY <1>1, <1>4, <3>4
        <4> QED BY <1>2, <1>9, <3>1, <4>1
      <3>5. CASE T[Above(c)] = tree[Above(c)]
        BY <1>2, <1>9, <3>1, <3>5
      <3> QED BY <1>1, <3>2, <3>3, <3>4, <3>5
    <2> QED BY <2>1, <2>2, <2>3
  <1>10. ASSUME NEW c \in Node, c # 1, T[c] = "FREE", T[Sibling(c)] = "FREE" PROVE FALSE
    <2>1. \A m \in Node : T[m] = "FREE" => (\E k \in 1 .. d : m = R(k)) \/ tree[m] = "FREE"
      <3>1. \A k \in 0 .. d : k = d \/ k \in 0 .. d - 1
        BY <1>1
      <3> QED BY <1>1, <3>1
    <2>2. \A k \in 1 .. d : T[S(k)] # "FREE"
      <3>1. \A k \in 1 .. d : k = d \/ k \in 0 .. d - 1
        BY <1>1
      <3> QED BY <1>1, <3>1
    <2>3. Sibling(c) \in Node /\ Sibling(Sibling(c)) = c
      BY <1>10, ParentIs
    <2>4. ~(\E k \in 1 .. d : c = R(k))
      BY <1>3, <1>10, <2>2
    <2>5. ~(\E k \in 1 .. d : Sibling(c) = R(k))
      BY <1>3, <1>10, <2>2, <2>3
    <2> QED BY <1>2, <1>10, <2>1, <2>3, <2>4, <2>5
  <1>11. TreeShape(T)
    <2>1. T \in [Node -> TreeState]
      BY <1>1, <1>6
    <2> QED BY <1>7, <1>8, <1>9, <1>10, <2>1 DEF TreeShape
  <1>12. d \in 0 .. d
    BY <1>1
  <1>13. S(d) \in Node /\ OrderOf(S(d)) = o
    <2>1. S(d) \in Node /\ D(S(d)) = D(n) + d
      BY <1>3, <1>12
    <2>2. OrderOf(S(d)) = MaxOrder - D(S(d))
      BY <2>1, OrderIs
    <2> QED BY <1>0, <1>1, <2>1, <2>2
  <1>14. S(d) \notin AllocatedIn(tree)
    <2>1. d = 0 \/ d \in 1 .. d
      BY <1>1
    <2> QED BY <1>3, <1>4, <2>1 DEF AllocatedIn
  <1>15. AllocatedIn(T) = AllocatedIn(tree) \cup {S(d)}
    <2>1. ASSUME NEW m \in Node, T[m] = "ALLOC", m # S(d) PROVE tree[m] = "ALLOC"
      <3>1. \A k \in 0 .. d : k = d \/ k \in 0 .. d - 1
        BY <1>1
      <3> QED BY <1>1, <2>1, <3>1
    <2>2. ASSUME NEW m \in Node, tree[m] = "ALLOC" PROVE T[m] = "ALLOC"
      <3>1. \A k \in 0 .. d : k = 0 \/ k \in 1 .. d
        BY <1>1
      <3>2. \A k \in 0 .. d : m # S(k)
        BY <1>3, <1>4, <2>2, <3>1
      <3>3. \A k \in 1 .. d : m # R(k)
        BY <1>4, <2>2
      <3> QED BY <1>1, <2>2, <3>2, <3>3
    <2> QED BY <1>1, <1>13, <2>1, <2>2 DEF AllocatedIn
  <1> QED BY <1>11, <1>13, <1>14, <1>15 DEF d, T, S

(* The way from a node in use up to the root is split.                     *)
LEMMA PathIsSplit ==
  ASSUME TreeShape(tree), NEW n \in Node, tree[n] # "UNUSED"
  PROVE  \A k \in 1 .. D(n) : tree[Up(n, k)] = "SPLIT"
  <1>1. D(n) \in Nat /\ D(n) <= MaxOrder /\ MaxOrder \in Nat
    BY Depth, PowerStarts
  <1> DEFINE bad == {k \in Nat : k \in 1 .. D(n) /\ tree[Up(n, k)] # "SPLIT"}
  <1>2. bad = {}
    <2>1. SUFFICES ASSUME bad # {} PROVE FALSE
      OBVIOUS
    <2>2. PICK b \in bad : \A k \in bad : ~(k < b)
      <3>1. bad \in SUBSET Nat
        OBVIOUS
      <3> HIDE DEF bad
      <3> QED BY <2>1, <3>1, Least!LeastExists
    <2>3. b \in 1 .. D(n) /\ tree[Up(n, b)] # "SPLIT"
      BY <2>2
    <2>4. b \in 0 .. D(n) /\ b - 1 \in 0 .. D(n) /\ b > 0 /\ b - 1 < D(n)
      BY <1>1, <2>3
    <2>5. Up(n, b) = Above(Up(n, b - 1)) /\ Up(n, b - 1) \in Node /\ D(Up(n, b - 1)) = D(n) - (b - 1)
      BY <2>4, UpIs
    <2>6. tree[Up(n, b - 1)] # "UNUSED"
      <3>1. CASE b = 1
        <4>1. Up(n, b - 1) = n
          BY <2>4, <3>1, UpIs
        <4> QED BY <4>1
      <3>2. CASE b # 1
        <4>1. b - 1 \in Nat /\ b - 1 \in 1 .. D(n) /\ b - 1 \notin bad
          BY <1>1, <2>2, <2>3, <3>2
        <4> QED BY <4>1
      <3> QED BY <3>1, <3>2
    <2>7. Up(n, b - 1) # 1
      BY <1>1, <2>4, <2>5, Depth
    <2> QED BY <2>3, <2>5, <2>6, <2>7 DEF TreeShape
  <1>3. \A k \in 1 .. D(n) : k \in Nat
    OBVIOUS
  <1> QED BY <1>2, <1>3

LEMMA PathIs ==
  ASSUME NEW n \in Node
  PROVE  /\ D(n) \in 0 .. MaxOrder /\ Up(n, 0) = n /\ Up(n, D(n)) = 1
         /\ \A k \in 0 .. D(n) : Up(n, k) \in Node /\ D(Up(n, k)) = D(n) - k
         /\ \A k \in 0 .. D(n) - 1 :
              /\ Up(n, k) # 1 /\ Sibling(Up(n, k)) \in Node /\ Sibling(Up(n, k)) # 1
              /\ D(Sibling(Up(n, k))) = D(n) - k /\ Sibling(Up(n, k)) # Up(n, k)
              /\ Sibling(Sibling(Up(n, k))) = Up(n, k)
              /\ Above(Up(n, k)) = Up(n, k + 1) /\ Above(Sibling(Up(n, k))) = Up(n, k + 1)
              /\ \A c \in Node : c # 1 /\ Above(c) = Up(n, k + 1)
                                   => c = Up(n, k) \/ c = Sibling(Up(n, k))
  <1>1. D(n) \in 0 .. MaxOrder /\ D(n) \in Nat /\ 0 \in 0 .. D(n) /\ D(n) \in 0 .. D(n)
    BY Depth, PowerStarts
  <1>2. Up(n, 0) = n /\ Up(n, D(n)) = 1
    BY <1>1, UpIs
  <1>3. \A k \in 0 .. D(n) : Up(n, k) \in Node /\ D(Up(n, k)) = D(n) - k
    BY UpIs
  <1>4. ASSUME NEW k \in 0 .. D(n) - 1
        PROVE  /\ Up(n, k) # 1 /\ Sibling(Up(n, k)) \in Node /\ Sibling(Up(n, k)) # 1
               /\ D(Sibling(Up(n, k))) = D(n) - k /\ Sibling(Up(n, k)) # Up(n, k)
               /\ Sibling(Sibling(Up(n, k))) = Up(n, k)
               /\ Above(Up(n, k)) = Up(n, k + 1) /\ Above(Sibling(Up(n, k))) = Up(n, k + 1)
               /\ \A c \in Node : c # 1 /\ Above(c) = Up(n, k + 1)
                                    => c = Up(n, k) \/ c = Sibling(Up(n, k))
    <2>1. k \in 0 .. D(n) /\ k + 1 \in 0 .. D(n) /\ k + 1 > 0 /\ (k + 1) - 1 = k /\ D(n) - k # 0
      BY <1>1
    <2>2. PICK a \in Node : a = Up(n, k) /\ D(a) = D(n) - k /\ a # 1
      BY <1>3, <2>1, Depth
    <2>3. Above(a) = Up(n, k + 1)
      BY <2>1, <2>2, UpIs
    <2>4. \A c \in Node : c # 1 /\ Above(c) = Above(a) => c = a \/ c = Sibling(a)
      BY <2>2, ParentIs
    <2> QED BY <2>2, <2>3, <2>4, ParentIs
  <1> QED BY <1>1, <1>2, <1>3, <1>4

(* What freeing and merging does to the tree.                              *)
LEMMA MergeNodes ==
  ASSUME NEW n \in Node
  PROVE  \E top \in 0 .. D(n) :
           LET T == FreedAndMerged(n)
           IN /\ \A k \in 0 .. top - 1 : tree[Sibling(Up(n, k))] = "FREE"
              /\ top < D(n) => tree[Sibling(Up(n, top))] # "FREE"
              /\ T = [m \in Node |-> T[m]]
              /\ T[Up(n, top)] = "FREE"
              /\ \A k \in 0 .. top - 1 :
                   T[Up(n, k)] = "UNUSED" /\ T[Sibling(Up(n, k))] = "UNUSED"
              /\ \A m \in Node : \/ m = Up(n, top)
                                 \/ \E k \in 0 .. top - 1 : m = Up(n, k) \/ m = Sibling(Up(n, k))
                                 \/ T[m] = tree[m]
  <1> DEFINE Merging(h) == Merges(n, h) /\ \A k \in 0 .. h - 1 : tree[Sibling(Up(n, k))] = "FREE"
  <1>1. D(n) \in Nat /\ D(n) \in 0 .. MaxOrder
    BY Depth, PowerStarts
  <1>2. \A h \in Nat : Merges(n, h) <=> h <= D(n)
    BY <1>1 DEF Merges, D
  <1>3. \E h \in 0 .. D(n) : Merging(h) /\ ~Merging(h + 1)
    <2> DEFINE last == {h \in Nat : h <= D(n) /\ ~Merging(h + 1)}
    <2>1. D(n) \in last
      BY <1>1, <1>2
    <2>2. PICK h \in last : \A g \in last : ~(g < h)
      <3>1. last \in SUBSET Nat /\ last # {}
        BY <2>1
      <3> HIDE DEF last
      <3> QED BY <3>1, Least!LeastExists
    <2>3. h \in Nat /\ h <= D(n) /\ ~Merging(h + 1)
      BY <2>2
    <2>4. Merging(h)
      <3>1. CASE h = 0
        BY <1>1, <1>2, <3>1
      <3>2. CASE h # 0
        <4>1. h - 1 \in Nat /\ h - 1 <= D(n) /\ (h - 1) + 1 = h /\ h - 1 < h
          <5> HIDE DEF last, Merging
          <5> QED BY <1>1, <2>3, <3>2
        <4>2. h - 1 \notin last
          <5> HIDE DEF last, Merging
          <5> QED BY <2>2, <4>1
        <4> HIDE DEF Merging
        <4> QED BY <4>1, <4>2
      <3> QED BY <3>1, <3>2
    <2>5. h \in 0 .. D(n)
      BY <1>1, <2>3
    <2> QED BY <2>3, <2>4, <2>5
  <1> DEFINE top == CHOOSE h \in 0 .. D(n) : Merging(h) /\ ~Merging(h + 1)
             T == FreedAndMerged(n)
  <1>4. T = [m \in Node |->
               IF m = Up(n, top) THEN "FREE"
               ELSE IF \E k \in 0 .. top - 1 : m \in {Up(n, k), Sibling(Up(n, k))} THEN "UNUSED"
               ELSE tree[m]]
    BY DEF FreedAndMerged, D
  <1>5. top \in 0 .. D(n) /\ Merging(top) /\ ~Merging(top + 1)
    BY <1>3
  <1> HIDE DEF top, T
  <1>6. /\ top \in Nat /\ \A k \in 0 .. top - 1 : tree[Sibling(Up(n, k))] = "FREE"
        /\ top < D(n) => tree[Sibling(Up(n, top))] # "FREE"
    <2>1. top \in Nat /\ top + 1 \in Nat /\ \A k \in 0 .. (top + 1) - 1 : k = top \/ k \in 0 .. top - 1
      BY <1>5
    <2>2. \A k \in 0 .. top - 1 : tree[Sibling(Up(n, k))] = "FREE"
      BY <1>5
    <2>3. ASSUME top < D(n) PROVE tree[Sibling(Up(n, top))] # "FREE"
      <3>1. Merges(n, top + 1)
        BY <1>1, <1>2, <2>1, <2>3
      <3>2. PICK k \in 0 .. (top + 1) - 1 : tree[Sibling(Up(n, k))] # "FREE"
        BY <1>5, <3>1
      <3> QED BY <2>1, <2>2, <3>2
    <2> QED BY <2>1, <2>2, <2>3
  <1>7. /\ \A k \in 0 .. D(n) : Up(n, k) \in Node /\ D(Up(n, k)) = D(n) - k
        /\ \A k \in 0 .. D(n) - 1 : /\ Sibling(Up(n, k)) \in Node
                                    /\ D(Sibling(Up(n, k))) = D(n) - k
    BY PathIs
  <1>8. T[Up(n, top)] = "FREE"
    BY <1>4, <1>5, <1>7
  <1>9. ASSUME NEW k \in 0 .. top - 1
        PROVE  T[Up(n, k)] = "UNUSED" /\ T[Sibling(Up(n, k))] = "UNUSED"
    <2>1. k \in 0 .. D(n) /\ k \in 0 .. D(n) - 1 /\ D(n) - k # D(n) - top
      BY <1>1, <1>5, <1>6
    <2>2. /\ Up(n, k) \in Node /\ Up(n, k) # Up(n, top)
          /\ Sibling(Up(n, k)) \in Node /\ Sibling(Up(n, k)) # Up(n, top)
      BY <1>5, <1>7, <2>1
    <2> QED BY <1>4, <2>2
  <1>10. \A m \in Node : \/ m = Up(n, top)
                         \/ \E k \in 0 .. top - 1 : m = Up(n, k) \/ m = Sibling(Up(n, k))
                         \/ T[m] = tree[m]
    BY <1>4
  <1>11. T = [m \in Node |-> T[m]]
    BY <1>4
  <1> QED BY <1>5, <1>6, <1>8, <1>9, <1>10, <1>11 DEF T

LEMMA MergeKeeps ==
  ASSUME TreeShape(tree), NEW n \in Node, tree[n] = "ALLOC"
  PROVE  /\ TreeShape(FreedAndMerged(n))
         /\ AllocatedIn(FreedAndMerged(n)) = AllocatedIn(tree) \ {n}
  <1> DEFINE T == FreedAndMerged(n)
             A(k) == Up(n, k)
             B(k) == Sibling(Up(n, k))
  <1>1. PICK top \in 0 .. D(n) :
          /\ \A k \in 0 .. top - 1 : tree[B(k)] = "FREE"
          /\ top < D(n) => tree[B(top)] # "FREE"
          /\ T = [m \in Node |-> T[m]]
          /\ T[A(top)] = "FREE"
          /\ \A k \in 0 .. top - 1 : T[A(k)] = "UNUSED" /\ T[B(k)] = "UNUSED"
          /\ \A m \in Node : \/ m = A(top)
                             \/ \E k \in 0 .. top - 1 : m = A(k) \/ m = B(k)
                             \/ T[m] = tree[m]
    BY MergeNodes
  <1>2. tree \in [Node -> TreeState] /\ tree[1] # "UNUSED"
        /\ (\A m \in Node : D(m) = MaxOrder => tree[m] # "SPLIT")
        /\ (\A c \in Node : c # 1 => (tree[c] # "UNUSED" <=> tree[Above(c)] = "SPLIT"))
        /\ \A c \in Node : c # 1 => ~(tree[c] = "FREE" /\ tree[Sibling(c)] = "FREE")
    BY DEF TreeShape
  <1>3. /\ D(n) \in 0 .. MaxOrder /\ A(0) = n /\ A(D(n)) = 1
        /\ \A k \in 0 .. D(n) : A(k) \in Node /\ D(A(k)) = D(n) - k
        /\ \A k \in 0 .. D(n) - 1 :
             /\ A(k) # 1 /\ B(k) \in Node /\ B(k) # 1
             /\ D(B(k)) = D(n) - k /\ B(k) # A(k)
             /\ Sibling(B(k)) = A(k) /\ Sibling(A(k)) = B(k)
             /\ Above(A(k)) = A(k + 1) /\ Above(B(k)) = A(k + 1)
             /\ \A c \in Node : c # 1 /\ Above(c) = A(k + 1) => c = A(k) \/ c = B(k)
    BY PathIs
  <1>4. \A k \in 1 .. D(n) : tree[A(k)] = "SPLIT"
    BY PathIsSplit
  <1> HIDE DEF T, A, B
  <1>5. /\ D(n) \in Nat /\ MaxOrder \in Nat /\ top \in Nat /\ top <= D(n)
        /\ \A k \in 0 .. top - 1 : k \in 0 .. D(n) - 1 /\ k \in 0 .. D(n)
    BY <1>1, <1>3, PowerStarts
  <1>6. ASSUME NEW m \in Node, T[m] # tree[m], m # A(top) PROVE T[m] = "UNUSED"
    BY <1>1, <1>6
  <1>7. T \in [Node -> TreeState]
    <2>1. \A m \in Node : T[m] \in TreeState
      BY <1>1, <1>2, <1>6 DEF TreeState
    <2> QED BY <1>1, <2>1
  <1>8. T[1] # "UNUSED"
    <2>1. ASSUME NEW k \in 0 .. top - 1 PROVE 1 # A(k) /\ 1 # B(k)
      BY <1>3, <1>5
    <2>2. 1 \in Node
      BY NodeIs
    <2> QED BY <1>1, <1>2, <2>1, <2>2
  <1>9. \A m \in Node : D(m) = MaxOrder => T[m] # "SPLIT"
    BY <1>1, <1>2, <1>6
  <1>10. ASSUME NEW c \in Node, c # 1 PROVE T[c] # "UNUSED" <=> T[Above(c)] = "SPLIT"
    <2>1. CASE \E k \in 0 .. top - 1 : c = A(k) \/ c = B(k)
      <3>1. PICK k \in 0 .. top - 1 : c = A(k) \/ c = B(k)
        BY <2>1
      <3>2. T[c] = "UNUSED" /\ Above(c) = A(k + 1)
        <4>1. T[c] = "UNUSED"
          BY <1>1, <3>1
        <4>2. k \in 0 .. D(n) - 1
          BY <1>5
        <4>3. Above(A(k)) = A(k + 1) /\ Above(B(k)) = A(k + 1)
          BY <1>3, <4>2
        <4> QED BY <3>1, <4>1, <4>3
      <3>3. k + 1 = top \/ k + 1 \in 0 .. top - 1
        BY <1>5
      <3>4. T[A(k + 1)] # "SPLIT"
        BY <1>1, <3>3
      <3> QED BY <3>2, <3>4
    <2>2. CASE c = A(top)
      <3>1. top # D(n)
        BY <1>3, <1>10, <2>2
      <3>2. top \in 0 .. D(n) - 1 /\ top + 1 \in 0 .. D(n) /\ top + 1 \in 1 .. D(n)
        BY <1>5, <3>1
      <3>3. /\ Above(c) = A(top + 1) /\ tree[A(top + 1)] = "SPLIT"
            /\ A(top + 1) \in Node /\ D(A(top + 1)) = D(n) - (top + 1)
        BY <1>3, <1>4, <2>2, <3>2
      <3>4. D(A(top)) = D(n) - top
        BY <1>3
      <3>5. \A k \in 0 .. top - 1 : D(A(k)) = D(n) - k /\ D(B(k)) = D(n) - k
        BY <1>3, <1>5
      <3>6. A(top + 1) # A(top)
        BY <1>5, <3>3, <3>4
      <3>7. ASSUME NEW k \in 0 .. top - 1 PROVE A(top + 1) # A(k) /\ A(top + 1) # B(k)
        <4>1. D(n) - k # D(n) - (top + 1)
          BY <1>5
        <4> QED BY <3>3, <3>5, <4>1
      <3>8. T[A(top + 1)] = "SPLIT"
        BY <1>1, <3>3, <3>6, <3>7
      <3> QED BY <1>1, <2>2, <3>3, <3>8
    <2>3. CASE c # A(top) /\ \A k \in 0 .. top - 1 : c # A(k) /\ c # B(k)
      <3>1. T[c] = tree[c] /\ Above(c) \in Node
        BY <1>1, <1>10, <2>3, ParentIs
      <3>2. CASE \E k \in 0 .. top : Above(c) = A(k)
        <4>1. PICK k \in 0 .. top : Above(c) = A(k)
          BY <3>2
        <4>2. k = 0
          <5>1. SUFFICES ASSUME k # 0 PROVE FALSE
            OBVIOUS
          <5>2. k - 1 \in 0 .. top - 1 /\ (k - 1) + 1 = k
            BY <1>5, <5>1
          <5>3. c = A(k - 1) \/ c = B(k - 1)
            BY <1>3, <1>5, <1>10, <4>1, <5>2
          <5> QED BY <2>3, <5>2, <5>3
        <4>3. tree[c] = "UNUSED"
          BY <1>2, <1>3, <1>10, <4>1, <4>2
        <4>4. 0 = top \/ 0 \in 0 .. top - 1
          BY <1>5
        <4>5. T[Above(c)] # "SPLIT"
          BY <1>1, <4>1, <4>2, <4>4
        <4> QED BY <3>1, <4>3, <4>5
      <3>3. CASE \E k \in 0 .. top - 1 : Above(c) = B(k)
        <4>1. PICK k \in 0 .. top - 1 : Above(c) = B(k)
          BY <3>3
        <4>2. tree[Above(c)] = "FREE" /\ T[Above(c)] = "UNUSED"
          BY <1>1, <4>1
        <4> QED BY <1>2, <1>10, <3>1, <4>2
      <3>4. CASE T[Above(c)] = tree[Above(c)]
        BY <1>2, <1>10, <3>1, <3>4
      <3>5. top \in 0 .. top /\ \A k \in 0 .. top - 1 : k \in 0 .. top
        BY <1>5
      <3> QED BY <1>1, <3>1, <3>2, <3>3, <3>4, <3>5
    <2> QED BY <2>1, <2>2, <2>3
  <1>11. ASSUME NEW c \in Node, c # 1, T[c] = "FREE", T[Sibling(c)] = "FREE" PROVE FALSE
    <2>1. \A m \in Node : T[m] = "FREE" => m = A(top) \/ tree[m] = "FREE"
      BY <1>6
    <2>2. ASSUME A(top) # 1 PROVE T[Sibling(A(top))] # "FREE"
      <3>1. top # D(n)
        BY <1>3, <2>2
      <3>2. top \in 0 .. D(n) - 1 /\ top < D(n)
        BY <1>5, <3>1
      <3>3. B(top) \in Node /\ Sibling(A(top)) = B(top) /\ B(top) # A(top) /\ tree[B(top)] # "FREE"
        BY <1>1, <1>3, <3>2
      <3> QED BY <2>1, <3>3
    <2>3. Sibling(c) \in Node /\ Sibling(Sibling(c)) = c /\ Sibling(c) # 1
      BY <1>11, ParentIs
    <2>4. c # A(top) /\ Sibling(c) # A(top)
      BY <1>11, <2>2, <2>3
    <2> QED BY <1>2, <1>11, <2>1, <2>3, <2>4
  <1>12. TreeShape(T)
    BY <1>7, <1>8, <1>9, <1>10, <1>11 DEF TreeShape
  <1>13. AllocatedIn(T) = AllocatedIn(tree) \ {n}
    <2>1. ASSUME NEW m \in Node, T[m] = "ALLOC" PROVE tree[m] = "ALLOC" /\ m # n
      <3>1. tree[m] = "ALLOC"
        BY <1>1, <1>6, <2>1
      <3>2. T[n] # "ALLOC"
        <4>1. 0 = top \/ 0 \in 0 .. top - 1
          BY <1>5
        <4> QED BY <1>1, <1>3, <4>1
      <3> QED BY <2>1, <3>1, <3>2
    <2>2. ASSUME NEW m \in Node, tree[m] = "ALLOC", m # n PROVE T[m] = "ALLOC"
      <3>1. \A k \in 0 .. D(n) : m # A(k)
        <4>1. \A k \in 0 .. D(n) : k = 0 \/ k \in 1 .. D(n)
          OBVIOUS
        <4> QED BY <1>3, <1>4, <2>2, <4>1
      <3>2. \A k \in 0 .. top - 1 : m # B(k)
        BY <1>1, <2>2
      <3> QED BY <1>1, <1>5, <2>2, <3>1, <3>2
    <2> QED BY <2>1, <2>2 DEF AllocatedIn
  <1> QED BY <1>12, <1>13 DEF T

-----------------------------------------------------------------------------
(* The search.                                                             *)
Search(f, o, n) ==
  IF tree[n] = "FREE" THEN n
  ELSE IF tree[n] = "SPLIT" /\ OrderOf(n) > o THEN LeftOrRight(f[2 * n], f[2 * n + 1])
  ELSE 0
Found(o) == CHOOSE f : f = [n \in Node |-> Search(f, o, n)]

LEMMA SearchIsDefined ==
  ASSUME NEW o \in Order
  PROVE  Found(o) = [n \in Node |-> Search(Found(o), o, n)] /\ find_free(o) = Found(o)[1]
  <1> DEFINE SolvedAt(f, k) == \A n \in Node : D(n) + k >= MaxOrder + 1 => f[n] = Search(f, o, n)
             Solved(k) == \E f : f = [n \in Node |-> f[n]] /\ SolvedAt(f, k)
             bad == {k \in Nat : ~Solved(k)}
  <1>1. bad = {}
    <2>1. SUFFICES ASSUME bad # {} PROVE FALSE
      OBVIOUS
    <2>2. PICK b \in bad : \A k \in bad : ~(k < b)
      <3>1. bad \in SUBSET Nat
        OBVIOUS
      <3> HIDE DEF bad
      <3> QED BY <2>1, <3>1, Least!LeastExists
    <2>3. b \in Nat /\ ~Solved(b)
      <3> HIDE DEF Solved
      <3> QED BY <2>2
    <2>4. CASE b = 0
      <3> DEFINE z == [n \in Node |-> 0]
      <3>1. z = [n \in Node |-> z[n]]
        OBVIOUS
      <3>2. \A n \in Node : ~(D(n) + 0 >= MaxOrder + 1)
        BY Depth, PowerStarts
      <3>3. SolvedAt(z, 0)
        BY <3>2
      <3> HIDE DEF z, SolvedAt
      <3>4. Solved(0)
        BY <3>1, <3>3
      <3> QED BY <2>3, <2>4, <3>4
    <2>5. CASE b # 0
      <3>1. PICK k \in Nat : b = k + 1
        <4> HIDE DEF bad, Solved, SolvedAt
        <4>1. b - 1 \in Nat /\ b = (b - 1) + 1
          BY <2>3, <2>5
        <4> QED BY <4>1
      <3>2. k \notin bad
        <4> HIDE DEF bad, Solved
        <4> QED BY <2>2, <2>3, <3>1
      <3>3. PICK f : f = [n \in Node |-> f[n]] /\ SolvedAt(f, k)
        BY <3>2
      <3> DEFINE g == [n \in Node |-> Search(f, o, n)]
      <3>4. g = [n \in Node |-> g[n]]
        OBVIOUS
      <3>5. ASSUME NEW n \in Node, D(n) + (k + 1) >= MaxOrder + 1 PROVE g[n] = Search(g, o, n)
        <4>1. CASE tree[n] = "SPLIT" /\ OrderOf(n) > o
          <5>1. D(n) < MaxOrder /\ D(n) \in Nat
            BY <4>1, OrderIs, Depth, PowerStarts DEF Order
          <5>2. /\ 2 * n \in Node /\ 2 * n + 1 \in Node
                /\ D(2 * n) = D(n) + 1 /\ D(2 * n + 1) = D(n) + 1
            BY <5>1, ChildrenAre
          <5>3. D(2 * n) + k >= MaxOrder + 1 /\ D(2 * n + 1) + k >= MaxOrder + 1
            BY <3>5, <5>1, <5>2, PowerStarts
          <5>4. f[2 * n] = Search(f, o, 2 * n) /\ f[2 * n + 1] = Search(f, o, 2 * n + 1)
            BY <3>3, <5>2, <5>3
          <5>5. g[2 * n] = f[2 * n] /\ g[2 * n + 1] = f[2 * n + 1]
            BY <5>2, <5>4
          <5>6. g[n] = Search(f, o, n)
            OBVIOUS
          <5> HIDE DEF g
          <5> QED BY <5>5, <5>6 DEF Search
        <4>2. CASE ~(tree[n] = "SPLIT" /\ OrderOf(n) > o)
          <5>1. g[n] = Search(f, o, n)
            OBVIOUS
          <5> HIDE DEF g
          <5> QED BY <4>2, <5>1 DEF Search
        <4> QED BY <4>1, <4>2
      <3> HIDE DEF g
      <3>6. SolvedAt(g, k + 1)
        BY <3>5
      <3> HIDE DEF SolvedAt
      <3>7. Solved(k + 1)
        BY <3>4, <3>6
      <3> QED BY <2>3, <3>1, <3>7
    <2> QED BY <2>4, <2>5
  <1>2. PICK f : f = [n \in Node |-> f[n]] /\ SolvedAt(f, MaxOrder + 1)
    <2>1. MaxOrder + 1 \in Nat /\ MaxOrder + 1 \notin bad
      <3> HIDE DEF bad
      <3> QED BY <1>1, PowerStarts
    <2>2. Solved(MaxOrder + 1)
      <3> HIDE DEF Solved
      <3> QED BY <2>1
    <2> HIDE DEF SolvedAt
    <2> QED BY <2>2
  <1>3. \A n \in Node : f[n] = Search(f, o, n)
    <2>1. \A n \in Node : D(n) + (MaxOrder + 1) >= MaxOrder + 1
      BY Depth, PowerStarts
    <2> QED BY <1>2, <2>1
  <1>4. f = [n \in Node |-> Search(f, o, n)]
    <2> HIDE DEF SolvedAt
    <2> QED BY <1>2, <1>3
  <1>5. Found(o) = [n \in Node |-> Search(Found(o), o, n)]
    <2> DEFINE Is(g) == g = [n \in Node |-> Search(g, o, n)]
    <2>1. Found(o) = CHOOSE g : Is(g)
      BY DEF Found
    <2>2. Is(f)
      BY <1>4
    <2> HIDE DEF Is
    <2>3. Is(Found(o))
      BY <2>1, <2>2
    <2> QED BY <2>3 DEF Is
  <1>6. find_free(o) = Found(o)[1]
    BY DEF find_free, Found, Search
  <1> QED BY <1>5, <1>6

LEMMA SearchIs ==
  ASSUME TreeShape(tree), NEW o \in Order
  PROVE  /\ find_free(o) # 0 => /\ find_free(o) \in Node /\ tree[find_free(o)] = "FREE"
                                /\ OrderOf(find_free(o)) >= o
         /\ find_free(o) = 0 => \A m \in Node : tree[m] = "FREE" => OrderOf(m) < o
  <1> DEFINE F == Found(o)
             Fits(n) == F[n] # 0 => /\ F[n] \in Node /\ tree[F[n]] = "FREE"
                                    /\ OrderOf(F[n]) >= o
  <1>1. /\ find_free(o) = F[1] /\ 1 \in Node
        /\ \A n \in Node : F[n] = Search(F, o, n)
    <2>1. F = [n \in Node |-> Search(F, o, n)] /\ find_free(o) = F[1]
      BY SearchIsDefined
    <2> HIDE DEF F
    <2> QED BY <2>1, NodeIs
  <1> HIDE DEF F
  <1>2. o \in Nat /\ o <= MaxOrder /\ MaxOrder \in Nat
    BY PowerStarts DEF Order
  <1>3. ASSUME NEW n \in Node, tree[n] = "SPLIT", OrderOf(n) > o
        PROVE  /\ 2 * n \in Node /\ 2 * n + 1 \in Node
               /\ OrderOf(2 * n) = OrderOf(n) - 1 /\ OrderOf(2 * n + 1) = OrderOf(n) - 1
               /\ F[n] = IF F[2 * n] # 0 THEN F[2 * n] ELSE F[2 * n + 1]
    <2>1. D(n) < MaxOrder /\ D(n) \in Nat
      BY <1>2, <1>3, OrderIs, Depth
    <2>2. /\ 2 * n \in Node /\ 2 * n + 1 \in Node
          /\ D(2 * n) = D(n) + 1 /\ D(2 * n + 1) = D(n) + 1
      BY <2>1, ChildrenAre
    <2>3. OrderOf(2 * n) = OrderOf(n) - 1 /\ OrderOf(2 * n + 1) = OrderOf(n) - 1
      BY <1>2, <2>1, <2>2, OrderIs
    <2>4. F[n] = IF F[2 * n] # 0 THEN F[2 * n] ELSE F[2 * n + 1]
      BY <1>1, <1>3 DEF Search, LeftOrRight
    <2> QED BY <2>2, <2>3, <2>4
  <1> DEFINE bad == {h \in Nat : \E n \in Node : OrderOf(n) = h /\ h >= o /\ ~Fits(n)}
  <1>4. bad = {}
    <2>1. SUFFICES ASSUME bad # {} PROVE FALSE
      OBVIOUS
    <2>2. PICK b \in bad : \A k \in bad : ~(k < b)
      <3>1. bad \in SUBSET Nat
        OBVIOUS
      <3> HIDE DEF bad
      <3> QED BY <2>1, <3>1, Least!LeastExists
    <2>3. PICK n \in Node : b \in Nat /\ OrderOf(n) = b /\ b >= o /\ ~Fits(n)
      <3> HIDE DEF Fits
      <3> QED BY <2>2
    <2>4. CASE tree[n] = "SPLIT" /\ OrderOf(n) > o
      <3>1. ASSUME NEW c \in Node, OrderOf(c) = b - 1 PROVE Fits(c)
        <4>1. b - 1 \in Nat /\ b - 1 >= o /\ b - 1 < b
          BY <1>2, <2>3, <2>4
        <4>2. b - 1 \notin bad
          <5> HIDE DEF bad
          <5> QED BY <2>2, <4>1
        <4> HIDE DEF Fits
        <4> QED BY <3>1, <4>1, <4>2
      <3>2. Fits(2 * n) /\ Fits(2 * n + 1)
        <4> HIDE DEF Fits
        <4> QED BY <1>3, <2>3, <2>4, <3>1
      <3>3. F[n] = IF F[2 * n] # 0 THEN F[2 * n] ELSE F[2 * n + 1]
        BY <1>3, <2>4
      <3> QED BY <2>3, <3>2, <3>3
    <2>5. CASE tree[n] = "FREE"
      <3>1. F[n] = n
        BY <1>1, <2>5 DEF Search
      <3> QED BY <2>3, <2>5, <3>1
    <2>6. CASE tree[n] # "FREE" /\ ~(tree[n] = "SPLIT" /\ OrderOf(n) > o)
      <3>1. F[n] = 0
        BY <1>1, <2>6 DEF Search
      <3> QED BY <2>3, <3>1
    <2> QED BY <2>4, <2>5, <2>6
  <1>5. Fits(1)
    <2>1. OrderOf(1) = MaxOrder
      BY <1>1, <1>2, OrderIs, Depth
    <2>2. OrderOf(1) \notin bad /\ OrderOf(1) \in Nat /\ OrderOf(1) >= o
      <3> HIDE DEF bad
      <3> QED BY <1>2, <1>4, <2>1
    <2> HIDE DEF Fits
    <2> QED BY <1>1, <2>2
  <1>6. ASSUME NEW m \in Node, tree[m] = "FREE", OrderOf(m) >= o PROVE F[1] # 0
    <2>1. /\ D(m) \in 0 .. MaxOrder /\ D(m) \in Nat /\ Up(m, 0) = m /\ Up(m, D(m)) = 1
          /\ \A k \in 0 .. D(m) : Up(m, k) \in Node /\ D(Up(m, k)) = D(m) - k
          /\ \A k \in 0 .. D(m) - 1 : Up(m, k) # 1 /\ Above(Up(m, k)) = Up(m, k + 1)
      BY PathIs
    <2>2. \A k \in 1 .. D(m) : tree[Up(m, k)] = "SPLIT"
      BY <1>6, PathIsSplit
    <2> DEFINE lost == {k \in Nat : k \in 0 .. D(m) /\ F[Up(m, k)] = 0}
    <2>3. lost = {}
      <3>1. SUFFICES ASSUME lost # {} PROVE FALSE
        OBVIOUS
      <3>2. PICK b \in lost : \A k \in lost : ~(k < b)
        <4>1. lost \in SUBSET Nat
          OBVIOUS
        <4> HIDE DEF lost
        <4> QED BY <3>1, <4>1, Least!LeastExists
      <3>3. b \in Nat /\ b \in 0 .. D(m) /\ F[Up(m, b)] = 0
        BY <3>2
      <3>4. b # 0
        <4>1. F[m] = m
          BY <1>1, <1>6 DEF Search
        <4>2. m # 0
          BY Depth
        <4> QED BY <2>1, <3>3, <4>1, <4>2
      <3>5. b - 1 \in Nat /\ b - 1 \in 0 .. D(m) /\ b - 1 \in 0 .. D(m) - 1 /\ (b - 1) + 1 = b
            /\ b \in 1 .. D(m) /\ b - 1 < b
        BY <2>1, <3>3, <3>4
      <3>6. F[Up(m, b - 1)] # 0
        <4>1. b - 1 \notin lost
          <5> HIDE DEF lost
          <5> QED BY <3>2, <3>5
        <4> QED BY <3>5, <4>1
      <3>7. PICK p \in Node, c \in Node :
              p = Up(m, b) /\ c = Up(m, b - 1) /\ c # 1 /\ Above(c) = p /\ D(p) = D(m) - b
        BY <2>1, <3>3, <3>5
      <3>8. OrderOf(p) > o /\ tree[p] = "SPLIT"
        <4>1. OrderOf(p) = MaxOrder - D(p) /\ OrderOf(m) = MaxOrder - D(m)
          BY OrderIs
        <4> QED BY <1>2, <1>6, <2>1, <2>2, <3>5, <3>7, <4>1
      <3>9. c = 2 * p \/ c = 2 * p + 1
        BY <3>7, ParentIs
      <3>10. F[2 * p] # 0 \/ F[2 * p + 1] # 0
        BY <3>6, <3>7, <3>9
      <3>11. F[p] # 0
        BY <1>3, <3>8, <3>10
      <3> QED BY <3>3, <3>7, <3>11
    <2>4. D(m) \notin lost
      <3> HIDE DEF lost
      <3> QED BY <2>3
    <2> QED BY <2>1, <2>4
  <1>7. \A m \in Node : OrderOf(m) \in Nat
    BY OrderIs, PowerStarts
  <1> QED BY <1>1, <1>2, <1>5, <1>6, <1>7

-----------------------------------------------------------------------------
(* The pages of a node and the nodes over a page.                          *)
LEMMA PageIs ==
  /\ \A p : p \in HeapPage <=> p \in Nat /\ p < Pow(MaxOrder)
  /\ \A p \in HeapPage, o \in 0 .. MaxOrder :
       NodeAt(p, o) \in Node /\ D(NodeAt(p, o)) = MaxOrder - o /\ OrderOf(NodeAt(p, o)) = o
  /\ \A n \in Node : FirstPage(n) \in HeapPage /\ FirstPage(n) \in PagesOf(n)
  /\ \A n \in Node, p \in HeapPage : p \in PagesOf(n) <=> NodeAt(p, OrderOf(n)) = n
  <1>1. MaxOrder \in Nat /\ Pow(MaxOrder) \in Nat
    BY PowerStarts, NodeIs
  <1>2. ASSUME NEW p PROVE p \in HeapPage <=> p \in Nat /\ p < Pow(MaxOrder)
    <2>1. HeapPage = 0 .. Pow(MaxOrder) - 1
      BY DEF HeapPage, Pow
    <2> QED BY <1>1, <2>1
  <1>3. ASSUME NEW o \in 0 .. MaxOrder
        PROVE  /\ Pow(o) \in Nat \ {0} /\ Pow(MaxOrder - o) \in Nat \ {0}
               /\ Pow(MaxOrder) = Pow(MaxOrder - o) * Pow(o)
               /\ Pow(MaxOrder - o + 1) = 2 * Pow(MaxOrder - o)
    <2>1. /\ o \in Exponent /\ MaxOrder - o \in Exponent /\ MaxOrder - o \in 0 .. MaxOrder
          /\ (MaxOrder - o) + o = MaxOrder /\ (MaxOrder - o) + o \in Exponent
      BY <1>1 DEF Exponent
    <2> QED BY <2>1, PowerIs, PowerSum, PowerStarts
  <1>4. ASSUME NEW p \in HeapPage, NEW o \in 0 .. MaxOrder
        PROVE  /\ NodeAt(p, o) \in Node /\ D(NodeAt(p, o)) = MaxOrder - o
               /\ OrderOf(NodeAt(p, o)) = o
    <2>1. PICK P \in Nat \ {0}, E \in Nat \ {0} :
            /\ P = Pow(o) /\ E = Pow(MaxOrder - o) /\ Pow(MaxOrder) = E * P
            /\ Pow(MaxOrder - o + 1) = 2 * E
      BY <1>3
    <2>2. p \in Nat /\ p < E * P
      BY <1>2, <2>1
    <2>3. PICK q \in Nat : q = p \div P /\ q * P <= p
      BY <2>2, Quotient
    <2>4. q < E
      <3>1. SUFFICES ASSUME E <= q PROVE FALSE
        OBVIOUS
      <3>2. E * P <= q * P /\ E * P \in Nat /\ q * P \in Nat
        BY <3>1, Multiples
      <3> QED BY <2>2, <2>3, <3>2
    <2>5. NodeAt(p, o) = E + q
      BY <2>1, <2>3 DEF NodeAt, Pow
    <2>6. E + q \in Node /\ D(E + q) = MaxOrder - o
      <3>1. E + q \in Nat /\ MaxOrder - o \in 0 .. MaxOrder /\ E <= E + q /\ E + q < 2 * E
        BY <1>1, <2>4
      <3> QED BY <2>1, <3>1, NodeAtDepth
    <2>7. OrderOf(E + q) = MaxOrder - D(E + q)
      BY <2>6, OrderIs
    <2> QED BY <1>1, <2>5, <2>6, <2>7
  <1>5. ASSUME NEW n \in Node
        PROVE  /\ FirstPage(n) \in HeapPage /\ FirstPage(n) \in PagesOf(n)
               /\ \A p \in HeapPage : p \in PagesOf(n) <=> NodeAt(p, OrderOf(n)) = n
    <2>1. /\ OrderOf(n) \in 0 .. MaxOrder /\ D(n) = MaxOrder - OrderOf(n)
          /\ n \in Nat /\ Pow(D(n)) <= n /\ n < Pow(D(n) + 1)
      BY OrderIs, Depth
    <2>2. PICK P \in Nat \ {0}, E \in Nat \ {0} :
            /\ P = Pow(OrderOf(n)) /\ E = Pow(D(n)) /\ Pow(MaxOrder) = E * P
            /\ Pow(D(n) + 1) = 2 * E
      BY <1>3, <2>1
    <2>3. PICK q \in Nat : n = E + q /\ q < E
      <3>1. n - E \in Nat /\ n = E + (n - E) /\ n - E < E
        BY <2>1, <2>2
      <3> QED BY <3>1
    <2>4. FirstPage(n) = q * P
      <3>1. FirstPage(n) = (n - E) * P
        BY <2>2 DEF FirstPage, Pow, D
      <3>2. n - E = q
        BY <2>3
      <3> QED BY <3>1, <3>2
    <2>5. q * P \in Nat /\ q * P + P <= E * P /\ E * P \in Nat
      BY <2>3, Multiples
    <2>6. q * P \in HeapPage
      BY <1>2, <2>2, <2>5
    <2>7. PagesOf(n) = q * P .. q * P + P - 1
      BY <2>2, <2>4 DEF PagesOf, Pow
    <2>8. ASSUME NEW p \in HeapPage PROVE p \in PagesOf(n) <=> NodeAt(p, OrderOf(n)) = n
      <3>1. p \in Nat
        BY <1>2
      <3>2. NodeAt(p, OrderOf(n)) = E + (p \div P)
        BY <2>1, <2>2 DEF NodeAt, Pow
      <3>3. p \in PagesOf(n) <=> q * P <= p /\ p < q * P + P
        BY <2>5, <2>7, <3>1
      <3>4. PICK r \in Nat : r = p \div P /\ r * P <= p /\ p < r * P + P
                             /\ (q * P <= p /\ p < q * P + P => r = q)
        BY <3>1, Quotient
      <3>5. E + r = E + q <=> r = q
        OBVIOUS
      <3> QED BY <2>3, <3>2, <3>3, <3>4, <3>5
    <2>9. q * P \in PagesOf(n)
      BY <2>5, <2>7
    <2> QED BY <2>4, <2>6, <2>8, <2>9
  <1> QED BY <1>2, <1>4, <1>5

LEMMA PathOfPage ==
  ASSUME NEW p \in HeapPage
  PROVE  /\ NodeAt(p, MaxOrder) = 1
         /\ \A o \in 0 .. MaxOrder - 1 : /\ NodeAt(p, o) # 1
                                         /\ NodeAt(p, o + 1) = Above(NodeAt(p, o))
         /\ \A o, k \in 0 .. MaxOrder : o + k <= MaxOrder => Up(NodeAt(p, o), k) = NodeAt(p, o + k)
  <1>1. MaxOrder \in Nat /\ p \in Nat
    BY PowerStarts, PageIs
  <1>2. \A o \in 0 .. MaxOrder : /\ NodeAt(p, o) \in Node /\ D(NodeAt(p, o)) = MaxOrder - o
    BY PageIs
  <1>3. NodeAt(p, MaxOrder) = 1
    <2>1. MaxOrder \in 0 .. MaxOrder /\ MaxOrder - MaxOrder = 0
      BY <1>1
    <2> QED BY <1>2, <2>1, Depth
  <1>4. ASSUME NEW o \in 0 .. MaxOrder - 1
        PROVE  NodeAt(p, o) # 1 /\ NodeAt(p, o + 1) = Above(NodeAt(p, o))
    <2>1. o \in 0 .. MaxOrder /\ o + 1 \in 0 .. MaxOrder /\ MaxOrder - o # 0
      BY <1>1
    <2>2. NodeAt(p, o) # 1
      BY <1>2, <2>1, Depth
    <2>3. PICK P \in Nat \ {0}, E \in Nat \ {0} :
            /\ P = Pow(o) /\ Pow(o + 1) = 2 * P
            /\ E = Pow(MaxOrder - (o + 1)) /\ Pow(MaxOrder - o) = 2 * E
      <3>1. /\ o \in Exponent /\ MaxOrder - (o + 1) \in Exponent /\ MaxOrder - (o + 1) \in 0 .. MaxOrder
            /\ (MaxOrder - (o + 1)) + 1 = MaxOrder - o
        BY <1>1 DEF Exponent
      <3> QED BY <2>1, <3>1, PowerIs, PowerStarts
    <2>4. PICK q \in Nat : q = p \div P /\ q * P <= p /\ p < q * P + P
      BY <1>1, Quotient
    <2>5. NodeAt(p, o) = 2 * E + q /\ NodeAt(p, o + 1) = E + (p \div (2 * P))
      BY <2>3, <2>4 DEF NodeAt, Pow
    <2>6. PICK a \in Nat : a = q \div 2 /\ 2 * a <= q /\ q <= 2 * a + 1
      OBVIOUS
    <2>7. p \div (2 * P) = a
      <3>1. a * (2 * P) = (2 * a) * P /\ a * (2 * P) + 2 * P = (2 * a + 1) * P + P
        OBVIOUS
      <3>2. /\ (2 * a) * P <= q * P /\ q * P <= (2 * a + 1) * P
            /\ (2 * a) * P \in Nat /\ q * P \in Nat /\ (2 * a + 1) * P \in Nat
        BY <2>6, Multiples
      <3>3. a * (2 * P) <= p /\ p < a * (2 * P) + 2 * P
        BY <1>1, <2>4, <3>1, <3>2
      <3>4. 2 * P \in Nat \ {0}
        OBVIOUS
      <3> QED BY <1>1, <3>3, <3>4, Quotient
    <2>8. (2 * E + q) \div 2 = E + a
      BY <2>6
    <2> QED BY <2>2, <2>5, <2>7, <2>8 DEF Above
  <1>5. ASSUME NEW o \in 0 .. MaxOrder, NEW h \in 0 .. MaxOrder, o + h <= MaxOrder
        PROVE  Up(NodeAt(p, o), h) = NodeAt(p, o + h)
    <2> DEFINE bad == {k \in Nat : k <= MaxOrder - o /\ Up(NodeAt(p, o), k) # NodeAt(p, o + k)}
    <2>1. bad = {}
      <3>1. SUFFICES ASSUME bad # {} PROVE FALSE
        OBVIOUS
      <3>2. PICK b \in bad : \A k \in bad : ~(k < b)
        <4>1. bad \in SUBSET Nat
          OBVIOUS
        <4> HIDE DEF bad
        <4> QED BY <3>1, <4>1, Least!LeastExists
      <3>3. b \in Nat /\ b <= MaxOrder - o /\ Up(NodeAt(p, o), b) # NodeAt(p, o + b)
        BY <3>2
      <3>4. b # 0
        <4>1. 0 \in 0 .. D(NodeAt(p, o))
          BY <1>1, <1>2
        <4>2. Up(NodeAt(p, o), 0) = NodeAt(p, o)
          BY <1>2, <4>1, UpIs
        <4>3. o + 0 = o
          OBVIOUS
        <4> QED BY <3>3, <4>2, <4>3
      <3>5. /\ b - 1 \in Nat /\ b - 1 <= MaxOrder - o /\ b - 1 < b
            /\ o + (b - 1) \in 0 .. MaxOrder - 1 /\ (o + (b - 1)) + 1 = o + b
        BY <1>1, <3>3, <3>4
      <3>6. b - 1 \notin bad
        <4> HIDE DEF bad
        <4> QED BY <3>2, <3>5
      <3>7. Up(NodeAt(p, o), b - 1) = NodeAt(p, o + (b - 1))
        BY <3>5, <3>6
      <3>8. b \in 0 .. D(NodeAt(p, o)) /\ b > 0
        BY <1>1, <1>2, <3>3, <3>4
      <3>9. Up(NodeAt(p, o), b) = Above(Up(NodeAt(p, o), b - 1))
        BY <1>2, <3>8, UpIs
      <3> QED BY <1>4, <3>3, <3>5, <3>7, <3>9
    <2>2. h \in Nat /\ h <= MaxOrder - o
      BY <1>1, <1>5
    <2>3. h \notin bad
      <3> HIDE DEF bad
      <3> QED BY <2>1
    <2> QED BY <2>2, <2>3
  <1> QED BY <1>3, <1>4, <1>5

Used(t, n) == t[n] \in {"FREE", "ALLOC"}

(* Every page is in exactly one block.                                     *)
LEMMA PageInOneBlock ==
  ASSUME TreeShape(tree), NEW p \in HeapPage
  PROVE  /\ \E n \in Node : Used(tree, n) /\ p \in PagesOf(n)
         /\ \A m, n \in Node :
              Used(tree, m) /\ Used(tree, n) /\ p \in PagesOf(m) /\ p \in PagesOf(n) => m = n
  <1>1. MaxOrder \in Nat
    BY PowerStarts
  <1>2. /\ \A o \in 0 .. MaxOrder : /\ NodeAt(p, o) \in Node /\ D(NodeAt(p, o)) = MaxOrder - o
                                    /\ OrderOf(NodeAt(p, o)) = o
        /\ \A n \in Node : p \in PagesOf(n) <=> NodeAt(p, OrderOf(n)) = n
    BY PageIs
  <1>3. \E n \in Node : Used(tree, n) /\ p \in PagesOf(n)
    <2> DEFINE used == {o \in Nat : o <= MaxOrder /\ tree[NodeAt(p, o)] # "UNUSED"}
    <2>1. MaxOrder \in used
      BY <1>1, PathOfPage DEF TreeShape
    <2>2. PICK b \in used : \A k \in used : ~(k < b)
      <3>1. used \in SUBSET Nat /\ used # {}
        BY <2>1
      <3> HIDE DEF used
      <3> QED BY <3>1, Least!LeastExists
    <2>3. b \in 0 .. MaxOrder /\ tree[NodeAt(p, b)] # "UNUSED"
      BY <1>1, <2>2
    <2>4. tree[NodeAt(p, b)] # "SPLIT"
      <3>1. SUFFICES ASSUME tree[NodeAt(p, b)] = "SPLIT" PROVE FALSE
        OBVIOUS
      <3>2. b # 0
        <4>1. SUFFICES ASSUME b = 0 PROVE FALSE
          OBVIOUS
        <4>2. D(NodeAt(p, b)) = MaxOrder
          BY <1>1, <1>2, <2>3, <4>1
        <4> QED BY <1>2, <2>3, <3>1, <4>2 DEF TreeShape
      <3>3. b - 1 \in 0 .. MaxOrder - 1 /\ b - 1 \in 0 .. MaxOrder /\ (b - 1) + 1 = b
            /\ b - 1 \in Nat /\ b - 1 <= MaxOrder /\ b - 1 < b
        BY <1>1, <2>3, <3>2
      <3>4. NodeAt(p, b - 1) # 1 /\ NodeAt(p, b) = Above(NodeAt(p, b - 1)) /\ NodeAt(p, b - 1) \in Node
        BY <1>2, <3>3, PathOfPage
      <3>5. tree[NodeAt(p, b - 1)] # "UNUSED"
        BY <3>1, <3>4 DEF TreeShape
      <3>6. b - 1 \in used
        BY <3>3, <3>5
      <3> HIDE DEF used
      <3> QED BY <2>2, <3>3, <3>6
    <2>5. NodeAt(p, b) \in Node /\ p \in PagesOf(NodeAt(p, b))
      BY <1>2, <2>3
    <2>6. tree[NodeAt(p, b)] \in TreeState
      BY <2>5 DEF TreeShape
    <2> QED BY <2>3, <2>4, <2>5, <2>6 DEF Used, TreeState
  <1>4. ASSUME NEW m \in Node, NEW n \in Node, Used(tree, m), Used(tree, n),
               p \in PagesOf(m), p \in PagesOf(n), OrderOf(m) < OrderOf(n)
        PROVE  FALSE
    <2>1. PICK a \in 0 .. MaxOrder, b \in 0 .. MaxOrder :
            a = OrderOf(m) /\ b = OrderOf(n) /\ m = NodeAt(p, a) /\ n = NodeAt(p, b) /\ a < b
      BY <1>2, <1>4, OrderIs
    <2>2. b - a \in 0 .. MaxOrder /\ a + (b - a) = b /\ a + (b - a) <= MaxOrder
          /\ b - a \in 1 .. MaxOrder - a
      BY <1>1, <2>1
    <2>3. n = Up(m, b - a) /\ b - a \in 1 .. D(m)
      BY <1>2, <2>1, <2>2, PathOfPage
    <2>4. tree[n] = "SPLIT"
      <3>1. tree[m] # "UNUSED"
        BY <1>4 DEF Used
      <3> QED BY <2>3, <3>1, PathIsSplit
    <2> QED BY <1>4, <2>4 DEF Used
  <1>5. ASSUME NEW m \in Node, NEW n \in Node, Used(tree, m), Used(tree, n),
               p \in PagesOf(m), p \in PagesOf(n)
        PROVE  m = n
    <2>1. OrderOf(m) \in Int /\ OrderOf(n) \in Int
      BY OrderIs
    <2>2. OrderOf(m) = OrderOf(n)
      BY <1>4, <1>5, <2>1
    <2> QED BY <1>2, <1>5, <2>2
  <1> QED BY <1>3, <1>5

LEMMA ShapePartitions ==
  ASSUME TreeShape(tree) PROVE BlocksPartitionHeap /\ FreeSiblingsMerge
  <1>1. \A n : n \in Blocks("FREE") \cup Blocks("ALLOC") <=> n \in Node /\ Used(tree, n)
    BY DEF Blocks, Used
  <1>2. \A p \in HeapPage : \E n \in Blocks("FREE") \cup Blocks("ALLOC") :
          /\ p \in PagesOf(n)
          /\ \A m \in Blocks("FREE") \cup Blocks("ALLOC") : p \in PagesOf(m) => m = n
    BY <1>1, PageInOneBlock
  <1>3. MaxOrder \in Nat
    BY PowerStarts
  <1>4. ASSUME NEW n \in Node, NEW m \in Node, Used(tree, m), NEW h \in 1 .. MaxOrder, Up(m, h) = n
        PROVE  tree[n] = "SPLIT"
    <2>1. m \in Nat /\ D(m) \in 0 .. MaxOrder /\ m < Pow(D(m) + 1) /\ n # 0
      BY Depth
    <2>2. h \in 1 .. D(m)
      <3>1. SUFFICES ASSUME D(m) < h PROVE FALSE
        BY <2>1
      <3>2. PICK P \in Nat \ {0} : P = Pow(h) /\ Pow(D(m) + 1) <= P
        <4>1. h \in Exponent /\ D(m) + 1 \in Exponent
          BY <1>3, <2>1 DEF Exponent
        <4>2. Pow(h) \in Nat \ {0} /\ Pow(D(m) + 1) \in Nat
          BY <4>1, PowerIs
        <4>3. D(m) + 1 = h \/ D(m) + 1 < h
          BY <2>1, <3>1
        <4>4. Pow(D(m) + 1) <= Pow(h)
          <5>1. PICK e \in Exponent : e = D(m) + 1
            BY <4>1
          <5>2. Pow(e) \in Nat /\ Pow(h) \in Nat /\ (e = h \/ e < h)
            BY <4>2, <4>3, <5>1
          <5>3. e < h => Pow(e) < Pow(h)
            BY <4>1, PowerGrows
          <5> QED BY <5>1, <5>2, <5>3
        <4> QED BY <4>2, <4>4
      <3>3. m < P
        <4>1. Pow(D(m) + 1) \in Nat
          <5>1. D(m) + 1 \in Exponent
            BY <1>3, <2>1 DEF Exponent
          <5> QED BY <5>1, PowerIs
        <4> QED BY <2>1, <3>2, <4>1
      <3>4. 0 * P = 0 /\ 0 * P <= m /\ m < 0 * P + P
        BY <2>1, <3>3
      <3>5. m \div P = 0
        BY <2>1, <3>4, Quotient
      <3> QED BY <1>4, <2>1, <3>2, <3>5 DEF Up, Pow
    <2>3. tree[m] # "UNUSED"
      BY <1>4 DEF Used
    <2> QED BY <1>4, <2>2, <2>3, PathIsSplit
  <1>5. ASSUME NEW n \in Node, tree[n] = "SPLIT"
        PROVE  \E m \in Node, h \in 1 .. MaxOrder : Used(tree, m) /\ Up(m, h) = n
    <2>1. PICK p \in HeapPage : p \in PagesOf(n) /\ n = NodeAt(p, OrderOf(n))
      BY PageIs
    <2>2. PICK m \in Node : Used(tree, m) /\ p \in PagesOf(m) /\ m = NodeAt(p, OrderOf(m))
      BY PageInOneBlock, PageIs
    <2>3. PICK a \in 0 .. MaxOrder, b \in 0 .. MaxOrder : a = OrderOf(m) /\ b = OrderOf(n)
      BY OrderIs
    <2>4. a # b
      BY <1>5, <2>1, <2>2, <2>3 DEF Used
    <2>5. ~(b < a)
      <3>1. SUFFICES ASSUME b < a PROVE FALSE
        OBVIOUS
      <3>2. a - b \in 0 .. MaxOrder /\ b + (a - b) = a /\ b + (a - b) <= MaxOrder /\ a - b \in 1 .. MaxOrder - b
        BY <1>3, <3>1
      <3>3. m = Up(n, a - b) /\ D(n) = MaxOrder - b
        BY <2>1, <2>2, <2>3, <3>2, PathOfPage, OrderIs
      <3>4. tree[m] = "SPLIT"
        BY <1>5, <3>2, <3>3, PathIsSplit
      <3> QED BY <2>2, <3>4 DEF Used
    <2>6. b - a \in 0 .. MaxOrder /\ b - a \in 1 .. MaxOrder /\ a + (b - a) = b /\ a + (b - a) <= MaxOrder
      BY <1>3, <2>4, <2>5
    <2>7. Up(m, b - a) = n
      BY <2>1, <2>2, <2>3, <2>6, PathOfPage
    <2> QED BY <2>2, <2>6, <2>7
  <1>6. \A n \in Node : tree[n] = "SPLIT" <=>
          \E m \in Blocks("FREE") \cup Blocks("ALLOC"), h \in 1 .. MaxOrder : Up(m, h) = n
    BY <1>1, <1>4, <1>5
  <1>7. FreeSiblingsMerge
    <2>1. \A n \in Node : n > 1 => n # 1
      BY NodeIs
    <2> QED BY <2>1 DEF FreeSiblingsMerge, Blocks, TreeShape
  <1> QED BY <1>2, <1>6, <1>7 DEF BlocksPartitionHeap

-----------------------------------------------------------------------------
(* The headers: each is that of an allocated block and stands on its first *)
(* page, and an allocated block that is not waiting for its header has it. *)
Headed(t, h, w) ==
  /\ \A p \in HeapPage : h[p] # NoBlock => /\ NodeAt(p, h[p]) \in AllocatedIn(t)
                                           /\ FirstPage(NodeAt(p, h[p])) = p
  /\ \A n \in AllocatedIn(t) :
       h[FirstPage(n)] = IF \E u \in Thread : w[u] = n THEN NoBlock ELSE OrderOf(n)
  /\ \A u \in Thread : w[u] # NoBlock => w[u] \in AllocatedIn(t)
  /\ \A u, v \in Thread : w[u] = w[v] /\ w[u] # NoBlock => u = v

BuddyInv ==
  /\ header \in [HeapPage -> Order \cup {NoBlock}]
  /\ writing \in [Thread -> Node \cup {NoBlock}]
  /\ refused \in 0 .. MaxOrder + 1 \cup {NoBlock}
  /\ TreeShape(tree)
  /\ Headed(tree, header, writing)
  /\ balance = Cardinality(AllocatedIn(tree))

LEMMA NoBlockIs == NoBlock \notin Nat /\ NoBlock \notin Node /\ NoBlock \notin Order
  <1>1. NoBlock \notin Nat
    BY BuddyAssumption DEF BuddyAssumption
  <1>2. \A n \in Node : n \in Nat
    BY NodeIs
  <1>3. \A o \in Order : o \in Nat
    BY PowerStarts DEF Order
  <1> QED BY <1>1, <1>2, <1>3

LEMMA AllocatedIsFinite ==
  ASSUME NEW t PROVE IsFiniteSet(AllocatedIn(t)) /\ Cardinality(AllocatedIn(t)) \in Nat
  <1>1. Node = 1 .. Pow(MaxOrder + 1) - 1 /\ Pow(MaxOrder + 1) - 1 \in Int
    BY NodeIs DEF Node, Pow
  <1>2. IsFiniteSet(Node)
    BY <1>1, FS_Interval, 1 \in Int
  <1>3. AllocatedIn(t) \subseteq Node
    BY DEF AllocatedIn
  <1> QED BY <1>2, <1>3, FS_Subset, FS_CardinalityType

(* Two allocated blocks do not begin on one page.                          *)
LEMMA FirstPagesDiffer ==
  ASSUME TreeShape(tree)
  PROVE  \A m, n \in Node : /\ Used(tree, m) /\ Used(tree, n) /\ FirstPage(m) = FirstPage(n)
                            => m = n
  BY PageInOneBlock, PageIs

LEMMA AllocatedFits ==
  ASSUME TreeShape(tree) PROVE Cardinality(AllocatedIn(tree)) \in 0 .. Pow(MaxOrder)
  <1> DEFINE S == AllocatedIn(tree)
             f == [n \in S |-> FirstPage(n)]
  <1>1. HeapPage = 0 .. Pow(MaxOrder) - 1 /\ Pow(MaxOrder) \in Nat /\ Pow(MaxOrder) - 1 \in Int
    BY NodeIs DEF HeapPage, Pow
  <1>2. IsFiniteSet(HeapPage) /\ Cardinality(HeapPage) = Pow(MaxOrder)
    <2>1. /\ IsFiniteSet(0 .. Pow(MaxOrder) - 1)
          /\ Cardinality(0 .. Pow(MaxOrder) - 1) =
               IF 0 > Pow(MaxOrder) - 1 THEN 0 ELSE Pow(MaxOrder) - 1 - 0 + 1
      BY <1>1, FS_Interval, 0 \in Int
    <2> QED BY <1>1, <2>1
  <1>3. \A n \in S : n \in Node /\ Used(tree, n) /\ FirstPage(n) \in HeapPage
    BY PageIs DEF AllocatedIn, Used
  <1>4. f \in Injection(S, HeapPage)
    <2>1. f \in [S -> HeapPage]
      BY <1>3
    <2>2. \A m, n \in S : f[m] = f[n] => m = n
      BY <1>3, FirstPagesDiffer
    <2> QED BY <2>1, <2>2 DEF Injection, IsInjective
  <1>5. Cardinality(S) <= Cardinality(HeapPage)
    BY <1>2, <1>4, AllocatedIsFinite, FS_Injection
  <1> QED BY <1>1, <1>2, <1>5, AllocatedIsFinite

LEMMA HeapInvIsSound == BuddyInv => HeapIsSound
  <1> SUFFICES ASSUME BuddyInv PROVE HeapIsSound
    OBVIOUS
  <1>1. TreeShape(tree) /\ Headed(tree, header, writing)
    BY DEF BuddyInv
  <1>2. \A n : n \in Blocks("ALLOC") <=> n \in AllocatedIn(tree)
    BY DEF Blocks, AllocatedIn
  <1>3. BlocksPartitionHeap /\ FreeSiblingsMerge
    BY <1>1, ShapePartitions
  <1>4. BTypeOK
    <2>1. balance \in 0 .. 2^MaxOrder
      BY <1>1, AllocatedFits DEF BuddyInv, Pow
    <2> QED BY <1>1, <2>1 DEF BuddyInv, BTypeOK, TreeShape, TreeState
  <1>5. \A n \in Node : n \in Pending <=> \E t \in Thread : writing[t] = n
    BY DEF Pending
  <1>6. HeadersTellBlocks
    <2>1. \A p \in HeapPage : header[p] # NoBlock => tree[NodeAt(p, header[p])] = "ALLOC"
      BY <1>1 DEF Headed, AllocatedIn
    <2>2. \A n \in Blocks("ALLOC") :
            header[FirstPage(n)] = IF n \in Pending THEN NoBlock ELSE OrderOf(n)
      <3>1. \A n \in AllocatedIn(tree) : n \in Node
        BY DEF AllocatedIn
      <3> QED BY <1>1, <1>2, <1>5, <3>1 DEF Headed
    <2>3. Pending \subseteq Blocks("ALLOC")
      BY <1>1, <1>2, NoBlockIs DEF Headed, Pending
    <2> QED BY <1>1, <2>1, <2>2, <2>3 DEF HeadersTellBlocks, Headed
  <1>7. BalanceCountsBlocks
    <2>1. Blocks("ALLOC") = AllocatedIn(tree)
      BY DEF Blocks, AllocatedIn
    <2> QED BY <2>1 DEF BuddyInv, BalanceCountsBlocks
  <1> QED BY <1>3, <1>4, <1>6, <1>7 DEF HeapIsSound

LEMMA HeapStarts == BuddyInit => BuddyInv
  <1> SUFFICES ASSUME BuddyInit PROVE BuddyInv
    OBVIOUS
  <1>1. tree = [n \in Node |-> IF n = 1 THEN "FREE" ELSE "UNUSED"] /\ 1 \in Node
    BY NodeIs DEF BuddyInit
  <1>2. AllocatedIn(tree) = {}
    BY <1>1 DEF AllocatedIn
  <1>3. TreeShape(tree)
    <2>1. tree \in [Node -> TreeState] /\ tree[1] # "UNUSED" /\ \A n \in Node : tree[n] # "SPLIT"
      BY <1>1 DEF TreeState
    <2>2. \A c \in Node : c # 1 => tree[c] = "UNUSED" /\ Above(c) \in Node
      BY <1>1, ParentIs
    <2> QED BY <2>1, <2>2 DEF TreeShape
  <1>4. Headed(tree, header, writing)
    BY <1>2 DEF Headed, BuddyInit
  <1>5. balance = Cardinality(AllocatedIn(tree))
    BY <1>2, FS_EmptySet DEF BuddyInit
  <1> QED BY <1>3, <1>4, <1>5 DEF BuddyInv, BuddyInit

LEMMA OrderForIs ==
  ASSUME NEW pages \in 1 .. 2^MaxOrder + 1
  PROVE  OrderFor(pages) \in 0 .. MaxOrder + 1
  <1> DEFINE Fit(o) == pages <= Pow(o) /\ (o > 0 => pages > Pow(o - 1))
  <1>1. MaxOrder \in Nat /\ Pow(MaxOrder) \in Nat \ {0} /\ Pow(MaxOrder + 1) = 2 * Pow(MaxOrder)
        /\ pages \in Nat /\ pages <= Pow(MaxOrder) + 1
    <2>1. pages \in 1 .. Pow(MaxOrder) + 1
      BY DEF Pow
    <2> QED BY <2>1, PowerStarts, NodeIs, PowerIs
  <1> DEFINE big == {o \in Nat : o <= MaxOrder + 1 /\ pages <= Pow(o)}
  <1>2. MaxOrder + 1 \in big
    BY <1>1
  <1>3. PICK b \in big : \A k \in big : ~(k < b)
    <2>1. big \in SUBSET Nat /\ big # {}
      BY <1>2
    <2> HIDE DEF big
    <2> QED BY <2>1, Least!LeastExists
  <1>4. b \in 0 .. MaxOrder + 1 /\ pages <= Pow(b)
    BY <1>1, <1>3
  <1>5. ASSUME b > 0 PROVE pages > Pow(b - 1)
    <2>1. b - 1 \in Nat /\ b - 1 <= MaxOrder + 1 /\ b - 1 < b /\ b - 1 \in Exponent
      BY <1>1, <1>4, <1>5 DEF Exponent
    <2>2. b - 1 \notin big
      <3> HIDE DEF big
      <3> QED BY <1>3, <2>1
    <2>3. ~(pages <= Pow(b - 1)) /\ Pow(b - 1) \in Nat
      BY <2>1, <2>2, PowerIs
    <2> QED BY <1>1, <2>3
  <1>6. Fit(b)
    BY <1>4, <1>5
  <1>7. OrderFor(pages) = CHOOSE o \in 0 .. MaxOrder + 1 : Fit(o)
    BY DEF OrderFor, Pow
  <1> HIDE DEF Fit
  <1> QED BY <1>4, <1>6, <1>7

(* The left descendants begin on the page of their ancestor.               *)
LEMMA SpineBegins ==
  ASSUME NEW n \in Node, NEW o \in 0 .. OrderOf(n)
  PROVE  FirstPage(n * Pow(OrderOf(n) - o)) = FirstPage(n)
  <1>1. /\ MaxOrder \in Nat /\ D(n) \in 0 .. MaxOrder /\ OrderOf(n) \in 0 .. MaxOrder
        /\ D(n) + OrderOf(n) = MaxOrder /\ n \in Nat /\ Pow(D(n)) <= n
    BY PowerStarts, OrderIs, Depth
  <1>2. PICK k \in Nat : k = OrderOf(n) - o /\ k + o = OrderOf(n)
    BY <1>1
  <1>3. /\ k \in Exponent /\ o \in Exponent /\ k + o \in Exponent /\ D(n) \in Exponent
        /\ D(n) + k \in Exponent /\ k \in 0 .. MaxOrder - D(n)
    BY <1>1, <1>2 DEF Exponent
  <1>4. PICK K \in Nat \ {0}, P \in Nat \ {0}, E \in Nat \ {0} :
          /\ K = Pow(k) /\ P = Pow(o) /\ E = Pow(D(n))
          /\ Pow(OrderOf(n)) = K * P /\ Pow(D(n) + k) = E * K
    <2>1. Pow(k + o) = Pow(k) * Pow(o) /\ Pow(D(n) + k) = Pow(D(n)) * Pow(k)
      BY <1>3, PowerSum
    <2>2. Pow(k) \in Nat \ {0} /\ Pow(o) \in Nat \ {0} /\ Pow(D(n)) \in Nat \ {0}
      BY <1>3, PowerIs
    <2> QED BY <1>2, <2>1, <2>2
  <1>5. n * K \in Node /\ D(n * K) = D(n) + k
    BY <1>3, <1>4, DownIs
  <1>6. OrderOf(n * K) = o
    BY <1>1, <1>2, <1>5, OrderIs
  <1>7. FirstPage(n * K) = (n * K - E * K) * P
    BY <1>4, <1>5, <1>6 DEF FirstPage, Pow, D
  <1>8. FirstPage(n) = (n - E) * (K * P)
    BY <1>4 DEF FirstPage, Pow, D
  <1>9. PICK q \in Nat : n = E + q
    <2>1. n - E \in Nat /\ n = E + (n - E)
      BY <1>1, <1>4
    <2> QED BY <2>1
  <1>10. n * K - E * K = q * K /\ n - E = q
    <2>1. (E + q) * K = E * K + q * K /\ E * K \in Nat /\ q * K \in Nat
      OBVIOUS
    <2> QED BY <1>9, <2>1
  <1>11. (q * K) * P = q * (K * P)
    OBVIOUS
  <1> QED BY <1>2, <1>4, <1>7, <1>8, <1>10, <1>11

(* A free node that is large enough gives a block that none is part of.    *)
LEMMA KmallocKeeps ==
  ASSUME BuddyInv, NEW t \in Thread, NEW pages \in 1 .. 2^MaxOrder + 1, Kmalloc(t, pages)
  PROVE  BuddyInv'
  <1> DEFINE o == OrderFor(pages)
             n == IF o \in Order THEN find_free(o) ELSE 0
             b == n * Pow(OrderOf(n) - o)
             S == AllocatedIn(tree)
  <1>1. o \in 0 .. MaxOrder + 1
    BY OrderForIs
  <1>2. /\ writing[t] = NoBlock /\ header' = header
        /\ IF n = 0 THEN refused' = o /\ UNCHANGED <<tree, writing, balance>>
           ELSE /\ tree' = SplitTo(n, o) /\ writing' = [writing EXCEPT ![t] = b]
                /\ refused' = NoBlock /\ balance' = balance + 1
    BY DEF Kmalloc, Pow
  <1>3. o \in Order => /\ find_free(o) # 0 => /\ find_free(o) \in Node /\ tree[find_free(o)] = "FREE"
                                              /\ OrderOf(find_free(o)) >= o
    BY SearchIs DEF BuddyInv
  <1> HIDE DEF o, n
  <1>4. CASE n = 0
    BY <1>1, <1>2, <1>4 DEF BuddyInv
  <1>5. CASE n # 0
    <2>1. n \in Node /\ tree[n] = "FREE" /\ o \in 0 .. OrderOf(n) /\ o \in Order
      <3>1. o \in Order
        BY <1>5 DEF n
      <3>2. n \in Node /\ tree[n] = "FREE" /\ OrderOf(n) >= o
        BY <1>3, <1>5, <3>1 DEF n
      <3> QED BY <3>1, <3>2, OrderIs, PowerStarts DEF Order
    <2>2. /\ TreeShape(tree') /\ b \in Node /\ OrderOf(b) = o /\ b \notin S
          /\ AllocatedIn(tree') = S \cup {b}
      BY <1>2, <1>5, <2>1, SplitKeeps DEF BuddyInv
    <2>3. FirstPage(b) = FirstPage(n) /\ FirstPage(b) \in HeapPage
      BY <2>1, SpineBegins, PageIs
    <2> HIDE DEF b
    <2>4. Headed(tree, header, writing) /\ TreeShape(tree)
      BY DEF BuddyInv
    <2>5. header[FirstPage(b)] = NoBlock
      <3>1. SUFFICES ASSUME header[FirstPage(b)] # NoBlock PROVE FALSE
        OBVIOUS
      <3>2. PICK m \in Node : tree[m] = "ALLOC" /\ FirstPage(m) = FirstPage(b)
        BY <2>3, <2>4, <3>1 DEF Headed, AllocatedIn
      <3>3. m = n
        BY <2>1, <2>3, <2>4, <3>2, FirstPagesDiffer DEF Used
      <3> QED BY <2>1, <3>2, <3>3
    <2>6. /\ writing' = [writing EXCEPT ![t] = b] /\ writing' \in [Thread -> Node \cup {NoBlock}]
          /\ writing'[t] = b /\ \A u \in Thread : u # t => writing'[u] = writing[u]
      BY <1>2, <1>5, <2>2 DEF BuddyInv
    <2>7. \A u \in Thread : writing[u] # b
      BY <2>2, <2>4, NoBlockIs DEF Headed
    <2>8. Headed(tree', header', writing')
      <3>1. \A p \in HeapPage : header[p] # NoBlock => /\ NodeAt(p, header[p]) \in S \cup {b}
                                                       /\ FirstPage(NodeAt(p, header[p])) = p
        BY <2>4 DEF Headed
      <3>2. ASSUME NEW m \in S \cup {b}
            PROVE  header[FirstPage(m)] =
                     IF \E u \in Thread : writing'[u] = m THEN NoBlock ELSE OrderOf(m)
        <4>1. CASE m = b
          BY <2>5, <2>6, <4>1
        <4>2. CASE m \in S /\ m # b
          <5>1. (\E u \in Thread : writing'[u] = m) <=> \E u \in Thread : writing[u] = m
            <6>1. m # NoBlock
              BY <4>2, NoBlockIs DEF AllocatedIn
            <6> QED BY <1>2, <2>6, <4>2, <6>1
          <5> QED BY <2>4, <4>2, <5>1 DEF Headed
        <4> QED BY <4>1, <4>2
      <3>3. \A u \in Thread : writing'[u] # NoBlock => writing'[u] \in S \cup {b}
        BY <2>4, <2>6 DEF Headed
      <3>4. \A u, v \in Thread : writing'[u] = writing'[v] /\ writing'[u] # NoBlock => u = v
        BY <2>4, <2>6, <2>7 DEF Headed
      <3> QED BY <1>2, <2>2, <3>1, <3>2, <3>3, <3>4 DEF Headed
    <2>9. balance' = Cardinality(AllocatedIn(tree'))
      <3>1. Cardinality(S \cup {b}) = Cardinality(S) + 1
        BY <2>2, AllocatedIsFinite, FS_AddElement
      <3> QED BY <1>2, <1>5, <2>2, <3>1 DEF BuddyInv
    <2>10. header' \in [HeapPage -> Order \cup {NoBlock}] /\ refused' = NoBlock
      BY <1>2, <1>5 DEF BuddyInv
    <2> QED BY <2>2, <2>6, <2>8, <2>9, <2>10 DEF BuddyInv
  <1> QED BY <1>4, <1>5

LEMMA WriteHeaderKeeps ==
  ASSUME BuddyInv, NEW t \in Thread, WriteHeader(t)
  PROVE  BuddyInv'
  <1> DEFINE n == writing[t]
             S == AllocatedIn(tree)
  <1>1. Headed(tree, header, writing) /\ TreeShape(tree)
    BY DEF BuddyInv
  <1>2. /\ n # NoBlock /\ n \in S /\ n \in Node /\ tree[n] = "ALLOC"
        /\ header' = [header EXCEPT ![FirstPage(n)] = OrderOf(n)]
        /\ writing' = [writing EXCEPT ![t] = NoBlock]
        /\ UNCHANGED <<tree, refused, balance>>
    BY <1>1 DEF WriteHeader, HeaderOf, Headed, AllocatedIn
  <1>3. /\ FirstPage(n) \in HeapPage /\ NodeAt(FirstPage(n), OrderOf(n)) = n
        /\ OrderOf(n) \in Order /\ OrderOf(n) # NoBlock
    BY <1>2, PageIs, OrderIs, NoBlockIs DEF Order
  <1>4. /\ header' \in [HeapPage -> Order \cup {NoBlock}]
        /\ writing' \in [Thread -> Node \cup {NoBlock}]
        /\ header'[FirstPage(n)] = OrderOf(n)
        /\ \A p \in HeapPage : p # FirstPage(n) => header'[p] = header[p]
        /\ writing'[t] = NoBlock /\ \A u \in Thread : u # t => writing'[u] = writing[u]
    BY <1>2, <1>3 DEF BuddyInv
  <1>5. \A u \in Thread : writing[u] = n => u = t
    BY <1>1, <1>2 DEF Headed
  <1> HIDE DEF n
  <1>6. \A p \in HeapPage : header'[p] # NoBlock => /\ NodeAt(p, header'[p]) \in S
                                                    /\ FirstPage(NodeAt(p, header'[p])) = p
    BY <1>1, <1>2, <1>3, <1>4 DEF Headed
  <1>7. ASSUME NEW m \in S
        PROVE  header'[FirstPage(m)] =
                 IF \E u \in Thread : writing'[u] = m THEN NoBlock ELSE OrderOf(m)
    <2>1. m \in Node /\ Used(tree, m) /\ FirstPage(m) \in HeapPage /\ m # NoBlock
      BY PageIs, NoBlockIs DEF AllocatedIn, Used
    <2>2. CASE m = n
      <3>1. \A u \in Thread : writing'[u] # m
        BY <1>4, <1>5, <2>1, <2>2
      <3> QED BY <1>4, <2>2, <3>1
    <2>3. CASE m # n
      <3>1. FirstPage(m) # FirstPage(n)
        BY <1>1, <1>2, <2>1, <2>3, FirstPagesDiffer DEF Used
      <3>2. (\E u \in Thread : writing'[u] = m) <=> \E u \in Thread : writing[u] = m
        BY <1>4, <2>1, <2>3 DEF n
      <3> QED BY <1>1, <1>4, <2>1, <3>1, <3>2 DEF Headed
    <2> QED BY <2>2, <2>3
  <1>8. /\ \A u \in Thread : writing'[u] # NoBlock => writing'[u] \in S
        /\ \A u, v \in Thread : writing'[u] = writing'[v] /\ writing'[u] # NoBlock => u = v
    BY <1>1, <1>4 DEF Headed
  <1>9. Headed(tree', header', writing')
    BY <1>2, <1>6, <1>7, <1>8 DEF Headed
  <1> QED BY <1>1, <1>2, <1>4, <1>9 DEF BuddyInv

(* The header tells the block that was handed out on the page.             *)
LEMMA KfreeKeeps ==
  ASSUME BuddyInv, NEW p \in HeapPage, Kfree(p)
  PROVE  BuddyInv'
  <1> DEFINE n == NodeAt(p, header[p])
             S == AllocatedIn(tree)
  <1>1. Headed(tree, header, writing) /\ TreeShape(tree)
    BY DEF BuddyInv
  <1>2. CASE header[p] = NoBlock
    BY <1>2 DEF Kfree, Rejected, bvars, BuddyInv
  <1>3. CASE header[p] # NoBlock
    <2>1. /\ tree' = FreedAndMerged(n) /\ header' = [header EXCEPT ![p] = NoBlock]
          /\ balance' = balance - 1 /\ UNCHANGED <<writing, refused>>
      BY <1>3 DEF Kfree, Unmagic
    <2>2. n \in S /\ n \in Node /\ tree[n] = "ALLOC" /\ FirstPage(n) = p
      BY <1>1, <1>3 DEF Headed, AllocatedIn
    <2> HIDE DEF n
    <2>3. TreeShape(tree') /\ AllocatedIn(tree') = S \ {n}
      BY <1>1, <2>1, <2>2, MergeKeeps
    <2>4. /\ header' \in [HeapPage -> Order \cup {NoBlock}]
          /\ header'[p] = NoBlock /\ \A q \in HeapPage : q # p => header'[q] = header[q]
      BY <2>1 DEF BuddyInv
    <2>5. \A u \in Thread : writing[u] # n
      BY <1>1, <1>3, <2>2 DEF Headed
    <2>6. ASSUME NEW q \in HeapPage, header'[q] # NoBlock
          PROVE  NodeAt(q, header'[q]) \in S \ {n} /\ FirstPage(NodeAt(q, header'[q])) = q
      <3>1. q # p /\ header'[q] = header[q]
        BY <2>4, <2>6
      <3>2. NodeAt(q, header[q]) \in S /\ FirstPage(NodeAt(q, header[q])) = q
        BY <1>1, <2>6, <3>1 DEF Headed
      <3> QED BY <2>2, <3>1, <3>2
    <2>7. ASSUME NEW m \in S \ {n}
          PROVE  header'[FirstPage(m)] =
                   IF \E u \in Thread : writing[u] = m THEN NoBlock ELSE OrderOf(m)
      <3>1. m \in Node /\ Used(tree, m) /\ FirstPage(m) \in HeapPage /\ m # n
        BY PageIs DEF AllocatedIn, Used
      <3>2. FirstPage(m) # p
        BY <1>1, <2>2, <3>1, FirstPagesDiffer DEF Used
      <3> QED BY <1>1, <2>4, <3>1, <3>2 DEF Headed
    <2>8. \A u \in Thread : writing[u] # NoBlock => writing[u] \in S \ {n}
      BY <1>1, <2>5 DEF Headed
    <2>9. \A u, v \in Thread : writing[u] = writing[v] /\ writing[u] # NoBlock => u = v
      BY <1>1 DEF Headed
    <2>10. Headed(tree', header', writing')
      BY <2>1, <2>3, <2>6, <2>7, <2>8, <2>9 DEF Headed
    <2>11. balance' = Cardinality(AllocatedIn(tree'))
      <3>1. Cardinality(S \ {n}) = Cardinality(S) - 1
        BY <2>2, AllocatedIsFinite, FS_RemoveElement
      <3> QED BY <2>1, <2>3, <3>1 DEF BuddyInv
    <2> QED BY <2>1, <2>3, <2>4, <2>10, <2>11 DEF BuddyInv
  <1> QED BY <1>2, <1>3

LEMMA HeapInvHolds == BuddySpec => []BuddyInv
  <1>1. BuddyInv /\ [BuddyNext]_bvars => BuddyInv'
    <2> SUFFICES ASSUME BuddyInv, [BuddyNext]_bvars PROVE BuddyInv'
      OBVIOUS
    <2>1. CASE UNCHANGED bvars
      BY <2>1 DEF bvars, BuddyInv
    <2>2. CASE BuddyNext
      BY <2>2, KmallocKeeps, WriteHeaderKeeps, KfreeKeeps DEF BuddyNext
    <2> QED BY <2>1, <2>2
  <1> QED BY <1>1, HeapStarts, PTL DEF BuddySpec

(* Every page of the kernel heap is in exactly one block, whatever the     *)
(* order of kmalloc and kfree; free siblings are merged; the headers that  *)
(* kfree trusts and the count of blocks in use agree with the tree, also   *)
(* while a thread that lost the CPU has yet to write its header.           *)
THEOREM HeapStaysSound == BuddySpec => []HeapIsSound
  BY HeapInvHolds, HeapInvIsSound, PTL

-----------------------------------------------------------------------------
(* The promise of Allocator.                                               *)
Handed(t) == {<<FirstPage(n), OrderOf(n)>> : n \in AllocatedIn(t)}

LEMMA PagesAre ==
  \A n \in Node : /\ PagesOf(n) = Promise!Run(FirstPage(n), OrderOf(n))
                  /\ FirstPage(n) \in Promise!Runs(OrderOf(n)) /\ PagesOf(n) \subseteq HeapPage
  <1> SUFFICES ASSUME NEW n \in Node
               PROVE  /\ PagesOf(n) = Promise!Run(FirstPage(n), OrderOf(n))
                      /\ FirstPage(n) \in Promise!Runs(OrderOf(n)) /\ PagesOf(n) \subseteq HeapPage
    OBVIOUS
  <1>1. /\ MaxOrder \in Nat /\ OrderOf(n) \in 0 .. MaxOrder /\ D(n) = MaxOrder - OrderOf(n)
        /\ D(n) \in 0 .. MaxOrder /\ n \in Nat /\ Pow(D(n)) <= n /\ n < Pow(D(n) + 1)
    BY PowerStarts, OrderIs, Depth
  <1>2. PICK P \in Nat \ {0}, E \in Nat \ {0} :
          /\ P = Pow(OrderOf(n)) /\ E = Pow(D(n)) /\ Pow(MaxOrder) = E * P
          /\ Pow(D(n) + 1) = 2 * E
    <2>1. /\ OrderOf(n) \in Exponent /\ D(n) \in Exponent /\ D(n) + OrderOf(n) = MaxOrder
          /\ D(n) + OrderOf(n) \in Exponent
      BY <1>1 DEF Exponent
    <2>2. Pow(D(n) + OrderOf(n)) = Pow(D(n)) * Pow(OrderOf(n))
      BY <2>1, PowerSum
    <2> QED BY <1>1, <2>1, <2>2, PowerIs, PowerStarts
  <1>3. PICK q \in Nat : n = E + q /\ q < E
    <2>1. n - E \in Nat /\ n = E + (n - E) /\ n - E < E
      BY <1>1, <1>2
    <2> QED BY <2>1
  <1>4. FirstPage(n) = q * P
    <2>1. FirstPage(n) = (n - E) * P
      BY <1>2 DEF FirstPage, Pow, D
    <2>2. n - E = q
      BY <1>3
    <2> QED BY <2>1, <2>2
  <1>5. q * P \in Nat /\ q * P + P <= E * P /\ E * P \in Nat
    BY <1>3, Multiples
  <1>6. (q * P) % P = 0
    OBVIOUS
  <1>7. HeapPage = 0 .. E * P - 1 /\ Promise!Page = HeapPage
    BY <1>2 DEF HeapPage, Promise!Page, Pow
  <1>8. q * P \in HeapPage /\ q * P + P - 1 \in HeapPage
    BY <1>5, <1>7
  <1>9. q * P \in Promise!Runs(OrderOf(n))
    BY <1>2, <1>6, <1>7, <1>8 DEF Promise!Runs, Pow
  <1>10. PagesOf(n) = q * P .. q * P + P - 1 /\ PagesOf(n) = Promise!Run(q * P, OrderOf(n))
    BY <1>2, <1>4 DEF PagesOf, Promise!Run, Pow
  <1>11. PagesOf(n) \subseteq HeapPage
    BY <1>5, <1>7, <1>10
  <1> QED BY <1>4, <1>9, <1>10, <1>11

(* An aligned run is the pages of a node.                                  *)
LEMMA RunsAreNodes ==
  ASSUME NEW o \in Order, NEW p \in Promise!Runs(o)
  PROVE  /\ p \in HeapPage /\ NodeAt(p, o) \in Node /\ OrderOf(NodeAt(p, o)) = o
         /\ Promise!Run(p, o) = PagesOf(NodeAt(p, o))
  <1>1. o \in 0 .. MaxOrder /\ p \in HeapPage /\ p \in Nat
    <2>1. p \in HeapPage
      BY DEF Promise!Runs, Promise!Page, HeapPage
    <2> QED BY <2>1, PageIs DEF Order
  <1>2. NodeAt(p, o) \in Node /\ OrderOf(NodeAt(p, o)) = o /\ D(NodeAt(p, o)) = MaxOrder - o
    BY <1>1, PageIs
  <1>3. PICK P \in Nat \ {0}, E \in Nat : P = Pow(o) /\ E = Pow(MaxOrder - o)
    <2>1. o \in Exponent /\ MaxOrder - o \in Exponent
      BY <1>1, PowerStarts DEF Exponent
    <2> QED BY <2>1, PowerIs
  <1>4. PICK q \in Nat : q = p \div P /\ p = q * P
    <2>1. p % P = 0
      BY <1>3 DEF Promise!Runs, Pow
    <2>2. \A a \in Int, n \in Nat \ {0} : a = (a \div n) * n + (a % n)
      OBVIOUS
    <2>3. p = (p \div P) * P + (p % P) /\ p \div P \in Nat
      BY <1>1, <2>2, Quotient
    <2>4. PICK q \in Nat : q = p \div P
      BY <2>3
    <2>5. q * P \in Nat
      OBVIOUS
    <2> QED BY <2>1, <2>3, <2>4, <2>5
  <1>5. FirstPage(NodeAt(p, o)) = p
    <2>1. NodeAt(p, o) = E + q
      BY <1>3, <1>4 DEF NodeAt, Pow
    <2>2. FirstPage(NodeAt(p, o)) = (NodeAt(p, o) - E) * P
      BY <1>2, <1>3 DEF FirstPage, Pow, D
    <2>3. (E + q) - E = q
      OBVIOUS
    <2> QED BY <1>4, <2>1, <2>2, <2>3
  <1> QED BY <1>1, <1>2, <1>5, PagesAre

(* The pages of a part of a free node are in no allocated block.           *)
LEMMA PartIsFree ==
  ASSUME TreeShape(tree), NEW n \in Node, tree[n] = "FREE", NEW o \in 0 .. OrderOf(n),
         NEW b \in Node, b = n * Pow(OrderOf(n) - o), OrderOf(b) = o,
         NEW m \in Node, tree[m] = "ALLOC"
  PROVE  PagesOf(m) \cap PagesOf(b) = {}
  <1> SUFFICES ASSUME NEW x \in PagesOf(m) \cap PagesOf(b) PROVE FALSE
    OBVIOUS
  <1>1. x \in HeapPage
    BY PagesAre
  <1>2. /\ MaxOrder \in Nat /\ o \in 0 .. MaxOrder /\ OrderOf(n) \in 0 .. MaxOrder
        /\ OrderOf(n) - o \in 0 .. MaxOrder /\ o + (OrderOf(n) - o) = OrderOf(n)
        /\ o + (OrderOf(n) - o) <= MaxOrder
    BY PowerStarts, OrderIs
  <1>3. NodeAt(x, o) = b
    BY <1>1, PageIs
  <1>4. Up(b, OrderOf(n) - o) = n
    <2>1. PICK P \in Nat \ {0} : P = Pow(OrderOf(n) - o)
      <3>1. OrderOf(n) - o \in Exponent
        BY <1>2 DEF Exponent
      <3> QED BY <3>1, PowerIs
    <2>2. n \in Nat /\ n * P \in Nat
      BY Depth, <2>1
    <2>3. n * P <= n * P /\ n * P < n * P + P
      BY <2>2
    <2>4. (n * P) \div P = n
      BY <2>2, <2>3, Quotient
    <2> QED BY <2>1, <2>4 DEF Up, Pow
  <1>5. NodeAt(x, OrderOf(n)) = n
    BY <1>1, <1>2, <1>3, <1>4, PathOfPage
  <1>6. x \in PagesOf(n)
    BY <1>1, <1>5, PageIs
  <1>7. m = n
    BY <1>1, <1>6, PageInOneBlock DEF Used
  <1> QED BY <1>7

(* Where no free node is large enough every aligned run is partly in use:  *)
(* siblings of which both are free would have been merged.                 *)
LEMMA NoRunIsFree ==
  ASSUME TreeShape(tree), NEW o \in Order,
         \A m \in Node : tree[m] = "FREE" => OrderOf(m) < o,
         NEW p \in Promise!Runs(o)
  PROVE  \E m \in Node : tree[m] = "ALLOC" /\ PagesOf(m) \cap Promise!Run(p, o) # {}
  <1> DEFINE r == NodeAt(p, o)
  <1>1. p \in HeapPage /\ r \in Node /\ OrderOf(r) = o /\ Promise!Run(p, o) = PagesOf(r)
    BY RunsAreNodes
  <1>2. MaxOrder \in Nat /\ o \in 0 .. MaxOrder
    BY PowerStarts DEF Order
  <1>3. p \in PagesOf(r)
    BY <1>1, PageIs
  <1>4. PICK m \in Node : Used(tree, m) /\ p \in PagesOf(m) /\ m = NodeAt(p, OrderOf(m))
    BY <1>1, PageInOneBlock, PageIs
  <1>5. CASE tree[m] = "ALLOC"
    BY <1>1, <1>3, <1>4, <1>5
  <1>6. CASE tree[m] # "ALLOC"
    <2>1. PICK a \in 0 .. MaxOrder : a = OrderOf(m) /\ a < o
      BY <1>4, <1>6, OrderIs DEF Used
    <2>2. o - a \in 0 .. MaxOrder /\ a + (o - a) = o /\ a + (o - a) <= MaxOrder
          /\ o - a \in 1 .. MaxOrder - a
      BY <1>2, <2>1
    <2>3. Up(m, o - a) = r /\ o - a \in 1 .. D(m)
      BY <1>1, <1>4, <2>1, <2>2, PathOfPage, OrderIs
    <2>4. tree[r] = "SPLIT"
      <3>1. tree[m] # "UNUSED"
        BY <1>4 DEF Used
      <3> QED BY <2>3, <3>1, PathIsSplit
    <2> HIDE DEF r
    <2> DEFINE split == {h \in Nat : h <= o /\ \E x \in HeapPage :
                                       x \in PagesOf(r) /\ tree[NodeAt(x, h)] = "SPLIT"}
    <2>5. o \in split
      <3>1. tree[NodeAt(p, o)] = "SPLIT"
        BY <2>4 DEF r
      <3> QED BY <1>1, <1>2, <1>3, <3>1
    <2>6. PICK h \in split : \A k \in split : ~(k < h)
      <3>1. split \in SUBSET Nat /\ split # {}
        BY <2>5
      <3> HIDE DEF split
      <3> QED BY <3>1, Least!LeastExists
    <2>7. PICK x \in HeapPage : /\ h \in Nat /\ h <= o /\ h \in 0 .. MaxOrder
                                /\ x \in PagesOf(r) /\ tree[NodeAt(x, h)] = "SPLIT"
      BY <1>2, <2>6
    <2>8. PICK s \in Node : s = NodeAt(x, h) /\ tree[s] = "SPLIT" /\ D(s) = MaxOrder - h
      BY <2>7, PageIs
    <2>9. h # 0 /\ D(s) < MaxOrder
      <3>1. h # 0
        BY <1>2, <2>8 DEF TreeShape
      <3> QED BY <1>2, <2>7, <2>8, <3>1
    <2>10. h - 1 \in 0 .. MaxOrder - 1 /\ h - 1 \in Nat /\ h - 1 < h /\ h - 1 <= o
           /\ h - 1 \in 0 .. MaxOrder /\ (h - 1) + 1 = h
           /\ o - h \in 0 .. MaxOrder /\ h + (o - h) = o /\ h + (o - h) <= MaxOrder
      BY <1>2, <2>7, <2>9
    <2>11. ASSUME NEW c \in Node, c # 1, Above(c) = s, D(c) = D(s) + 1
           PROVE  Used(tree, c) /\ PagesOf(c) \cap PagesOf(r) # {}
      <3>1. OrderOf(c) = h - 1
        BY <1>2, <2>8, <2>10, <2>11, OrderIs
      <3>2. PICK y \in HeapPage : y \in PagesOf(c) /\ NodeAt(y, h - 1) = c
        BY <3>1, PageIs
      <3>3. NodeAt(y, h) = s
        BY <2>10, <2>11, <3>2, PathOfPage
      <3>4. NodeAt(y, o) = Up(s, o - h) /\ NodeAt(x, o) = Up(s, o - h)
        BY <1>2, <2>7, <2>8, <2>10, <3>3, PathOfPage
      <3>5. NodeAt(x, o) = r
        BY <1>1, <2>7, PageIs
      <3>6. y \in PagesOf(r)
        BY <1>1, <3>4, <3>5, PageIs
      <3>7. tree[c] # "SPLIT"
        <4>1. SUFFICES ASSUME tree[c] = "SPLIT" PROVE FALSE
          OBVIOUS
        <4>2. h - 1 \in split
          BY <2>10, <3>2, <3>6, <4>1
        <4> HIDE DEF split
        <4> QED BY <2>6, <2>10, <4>2
      <3>8. tree[c] # "UNUSED" /\ tree[c] \in TreeState
        BY <2>8, <2>11 DEF TreeShape
      <3> QED BY <3>2, <3>6, <3>7, <3>8 DEF Used, TreeState
    <2>12. /\ 2 * s \in Node /\ 2 * s + 1 \in Node
           /\ D(2 * s) = D(s) + 1 /\ D(2 * s + 1) = D(s) + 1
           /\ Above(2 * s) = s /\ Above(2 * s + 1) = s
      BY <2>9, ChildrenAre
    <2>13. s \in Nat \ {0} /\ 2 * s # 1 /\ 2 * s + 1 # 1 /\ Sibling(2 * s) = 2 * s + 1
      <3>1. s \in Nat \ {0}
        BY Depth
      <3> QED BY <3>1 DEF Sibling
    <2>14. tree[2 * s] = "ALLOC" \/ tree[2 * s + 1] = "ALLOC"
      BY <2>11, <2>12, <2>13 DEF Used, TreeShape
    <2>15. PICK c \in Node : tree[c] = "ALLOC" /\ PagesOf(c) \cap PagesOf(r) # {}
      BY <2>11, <2>12, <2>13, <2>14
    <2> QED BY <1>1, <2>15
  <1> QED BY <1>5, <1>6

(* kmalloc hands out an aligned run of which no page is in use, and fails  *)
(* only if there is none; kfree gives back the run it handed out.          *)
THEOREM HeapKeepsItsPromise == BuddySpec => AllocatesWhatIsFree
  <1>1. Handed(tree) = {<<FirstPage(n), OrderOf(n)>> : n \in Blocks("ALLOC")}
        /\ Handed(tree)' = {<<FirstPage(n), OrderOf(n)>> : n \in Blocks("ALLOC")}'
    BY DEF Handed, Blocks, AllocatedIn
  <1>2. BuddyInit => Promise!Init
    <2> SUFFICES ASSUME BuddyInit PROVE Promise!Init
      OBVIOUS
    <2>1. Blocks("ALLOC") = {}
      BY DEF BuddyInit, Blocks
    <2>2. {<<FirstPage(n), OrderOf(n)>> : n \in Blocks("ALLOC")} = {}
      BY <2>1
    <2> QED BY <2>2 DEF Promise!Init, BuddyInit
  <1>3. ASSUME BuddyInv, NEW t \in Thread, NEW pages \in 1 .. 2^MaxOrder + 1, Kmalloc(t, pages)
        PROVE  \/ Handed(tree)' # Handed(tree) /\ \E o \in 0 .. MaxOrder : Promise!Alloc(o)
               \/ \E o \in 0 .. MaxOrder + 1 : Promise!Refuse(o)
    <2> DEFINE o == OrderFor(pages)
               n == IF o \in Order THEN find_free(o) ELSE 0
               b == n * Pow(OrderOf(n) - o)
    <2>1. TreeShape(tree) /\ o \in 0 .. MaxOrder + 1 /\ MaxOrder \in Nat
      BY <1>3, OrderForIs, PowerStarts DEF BuddyInv
    <2>2. /\ n = 0 => refused' = o /\ tree' = tree
          /\ n # 0 => tree' = SplitTo(n, o) /\ refused' = NoBlock
      BY <1>3 DEF Kmalloc
    <2>3. o \in Order => /\ find_free(o) # 0 => /\ find_free(o) \in Node /\ tree[find_free(o)] = "FREE"
                                                /\ OrderOf(find_free(o)) >= o
                         /\ find_free(o) = 0 => \A m \in Node : tree[m] = "FREE" => OrderOf(m) < o
      BY <2>1, SearchIs
    <2> HIDE DEF o, n
    <2>4. CASE n # 0
      <3>1. n \in Node /\ tree[n] = "FREE" /\ o \in 0 .. OrderOf(n) /\ o \in Order
        <4>1. o \in Order
          BY <2>4 DEF n
        <4>2. n \in Node /\ tree[n] = "FREE" /\ OrderOf(n) >= o
          BY <2>3, <2>4, <4>1 DEF n
        <4> QED BY <4>1, <4>2, OrderIs, PowerStarts DEF Order
      <3>2. b \in Node /\ OrderOf(b) = o /\ AllocatedIn(tree') = AllocatedIn(tree) \cup {b}
        BY <2>1, <2>2, <2>4, <3>1, SplitKeeps
      <3>3. \A m \in Node : tree[m] = "ALLOC" => PagesOf(m) \cap PagesOf(b) = {}
        BY <2>1, <3>1, <3>2, PartIsFree
      <3> HIDE DEF b
      <3>4. FirstPage(b) \in Promise!Runs(o)
        BY <3>2, PagesAre
      <3>5. Handed(tree)' = Handed(tree) \cup {<<FirstPage(b), o>>}
        BY <3>2 DEF Handed
      <3>6. Promise!IsFree(FirstPage(b), o)
        <4>1. \A m \in AllocatedIn(tree) : /\ Promise!Run(FirstPage(m), OrderOf(m)) = PagesOf(m)
                                           /\ PagesOf(m) \cap Promise!Run(FirstPage(b), o) = {}
          BY <3>2, <3>3, PagesAre DEF AllocatedIn
        <4>2. \A e \in Handed(tree) : Promise!Run(e[1], e[2]) \cap Promise!Run(FirstPage(b), o) = {}
          BY <4>1 DEF Handed
        <4> QED BY <1>1, <4>2 DEF Promise!IsFree
      <3>7. Promise!Alloc(o)
        BY <1>1, <2>2, <2>4, <3>4, <3>5, <3>6 DEF Promise!Alloc
      <3>8. Handed(tree)' # Handed(tree)
        <4>1. <<FirstPage(b), o>> \notin Handed(tree)
          BY <3>2, <3>3, PageIs DEF Handed, AllocatedIn
        <4> QED BY <3>5, <4>1
      <3> QED BY <3>1, <3>7, <3>8 DEF Order
    <2>5. CASE n = 0
      <3>1. ASSUME NEW p \in Promise!Runs(o) PROVE ~Promise!IsFree(p, o)
        <4>1. CASE o \in Order
          <5>1. \A m \in Node : tree[m] = "FREE" => OrderOf(m) < o
            BY <2>3, <2>5, <4>1 DEF n
          <5>2. PICK m \in Node : tree[m] = "ALLOC" /\ PagesOf(m) \cap Promise!Run(p, o) # {}
            BY <2>1, <3>1, <4>1, <5>1, NoRunIsFree
          <5>3. <<FirstPage(m), OrderOf(m)>> \in Handed(tree)
            BY <5>2 DEF Handed, AllocatedIn
          <5>4. Promise!Run(FirstPage(m), OrderOf(m)) = PagesOf(m)
            BY PagesAre
          <5>5. \E e \in Handed(tree) : Promise!Run(e[1], e[2]) \cap Promise!Run(p, o) # {}
            <6>1. PICK e \in Handed(tree) : e = <<FirstPage(m), OrderOf(m)>>
              BY <5>3
            <6>2. e[1] = FirstPage(m) /\ e[2] = OrderOf(m)
              BY <6>1
            <6>3. Promise!Run(e[1], e[2]) = PagesOf(m)
              BY <5>4, <6>2
            <6> QED BY <5>2, <6>3
          <5> QED BY <1>1, <5>5 DEF Promise!IsFree
        <4>2. CASE o \notin Order
          <5>1. o = MaxOrder + 1
            BY <2>1, <4>2 DEF Order
          <5>2. Pow(o) = 2 * Pow(MaxOrder) /\ Pow(MaxOrder) \in Nat \ {0}
            BY <5>1, PowerIs, PowerStarts
          <5>3. p \in HeapPage /\ p + Pow(o) - 1 \in HeapPage
            BY <3>1 DEF Promise!Runs, Promise!Page, HeapPage, Pow
          <5>4. p \in Nat /\ p + Pow(o) - 1 < Pow(MaxOrder)
            BY <5>3, PageIs
          <5> QED BY <5>2, <5>4
        <4> QED BY <4>1, <4>2
      <3>2. Handed(tree)' = Handed(tree)
        BY <2>2, <2>5 DEF Handed
      <3>3. Promise!Refuse(o)
        BY <1>1, <2>2, <2>5, <3>1, <3>2 DEF Promise!Refuse
      <3> QED BY <2>1, <3>3
    <2> QED BY <2>4, <2>5
  <1>4. ASSUME BuddyInv, NEW p \in HeapPage, Kfree(p), header[p] # NoBlock
        PROVE  \E e \in Handed(tree) : Handed(tree)' = Handed(tree) \ {e} /\ refused' = refused
    <2> DEFINE n == NodeAt(p, header[p])
    <2>1. tree' = FreedAndMerged(n) /\ refused' = refused
      BY <1>4 DEF Kfree
    <2>2. TreeShape(tree) /\ n \in AllocatedIn(tree) /\ n \in Node /\ tree[n] = "ALLOC"
      BY <1>4 DEF BuddyInv, Headed, AllocatedIn
    <2> HIDE DEF n
    <2>3. AllocatedIn(tree') = AllocatedIn(tree) \ {n}
      BY <2>1, <2>2, MergeKeeps
    <2>4. \A m \in AllocatedIn(tree) : FirstPage(m) = FirstPage(n) => m = n
      BY <2>2, FirstPagesDiffer DEF AllocatedIn, Used
    <2>5. Handed(tree)' = Handed(tree) \ {<<FirstPage(n), OrderOf(n)>>}
      <3>1. Handed(tree)' = {<<FirstPage(m), OrderOf(m)>> : m \in AllocatedIn(tree) \ {n}}
        BY <2>3 DEF Handed
      <3> QED BY <2>4, <3>1 DEF Handed
    <2>6. <<FirstPage(n), OrderOf(n)>> \in Handed(tree)
      BY <2>2 DEF Handed
    <2> QED BY <2>1, <2>5, <2>6
  <1>5. BuddyInv /\ [BuddyNext]_bvars =>
          [Promise!Next]_<<{<<FirstPage(n), OrderOf(n)>> : n \in Blocks("ALLOC")}, refused>>
    <2> SUFFICES ASSUME BuddyInv, [BuddyNext]_bvars
                 PROVE  [Promise!Next]_<<{<<FirstPage(n), OrderOf(n)>> : n \in Blocks("ALLOC")}, refused>>
      OBVIOUS
    <2>1. ASSUME tree' = tree, refused' = refused
          PROVE  UNCHANGED <<{<<FirstPage(n), OrderOf(n)>> : n \in Blocks("ALLOC")}, refused>>
      BY <2>1 DEF Blocks
    <2>2. CASE UNCHANGED bvars
      BY <2>1, <2>2 DEF bvars
    <2>3. CASE \E t \in Thread : WriteHeader(t)
      BY <2>1, <2>3 DEF WriteHeader
    <2>4. CASE \E t \in Thread : \E pages \in 1 .. 2^MaxOrder + 1 : Kmalloc(t, pages)
      BY <1>1, <1>3, <2>4 DEF Promise!Next
    <2>5. CASE \E p \in HeapPage : Kfree(p)
      <3>1. PICK p \in HeapPage : Kfree(p)
        BY <2>5
      <3>2. CASE header[p] = NoBlock
        BY <2>1, <3>1, <3>2 DEF Kfree, Rejected, bvars
      <3>3. CASE header[p] # NoBlock
        BY <1>1, <1>4, <3>1, <3>3 DEF Promise!Next, Promise!Free
      <3> QED BY <3>2, <3>3
    <2> QED BY <2>2, <2>3, <2>4, <2>5 DEF BuddyNext
  <1> QED BY <1>2, <1>5, HeapInvHolds, PTL DEF BuddySpec, AllocatesWhatIsFree, Promise!Spec
=============================================================================
