---------------------------- MODULE Supervision ----------------------------
(***************************************************************************)
(* What the process tree of Enclave promises its programs: a supervisor    *)
(* tree.  Every process but a root has a living parent; a process becomes  *)
(* a zombie only when nothing is left below it, and it is collected once,  *)
(* by its parent, or killed, leaves first, with its parent.                *)
(* Tasks implements this module: see Tasks!Lifecycle.                      *)
(***************************************************************************)
CONSTANTS Process, Kernel, FirstRoot,   \* the last two are in Process
          None                          \* no process

VARIABLES status, supervisor

svars == <<status, supervisor>>

Exists(p) == status[p] \in {"alive", "zombie"}
Childless(p) == \A c \in Process : Exists(c) => supervisor[c] # p

SInit ==
  /\ status = [p \in Process |->
                 IF p \in {Kernel, FirstRoot} THEN "alive" ELSE "free"]
  /\ supervisor = [p \in Process |-> IF p = FirstRoot THEN Kernel ELSE None]

(* p forks c.                                                              *)
Spawn(p, c) ==
  /\ status[p] = "alive" /\ status[c] = "free"
  /\ status' = [status EXCEPT ![c] = "alive"]
  /\ supervisor' = [supervisor EXCEPT ![c] = p]

(* A root that died is replaced by one that nobody supervises.             *)
SpawnRoot(c) ==
  /\ status[c] = "free"
  /\ status' = [status EXCEPT ![c] = "alive"]
  /\ UNCHANGED supervisor

(* p has seen its last descendant go.  It awaits its parent, or, for a     *)
(* root of the user processes, is dead at once.                            *)
Exit(p) ==
  /\ status[p] = "alive" /\ Childless(p)
  /\ \E s \in {"zombie", "dead"} : status' = [status EXCEPT ![p] = s]
  /\ UNCHANGED supervisor

(* The parent of c collects it with waitpid, or dies and takes c with it.  *)
Wait(c) ==
  /\ status[c] = "zombie"
  /\ supervisor[c] # None /\ status[supervisor[c]] = "alive"
  /\ status' = [status EXCEPT ![c] = "dead"]
  /\ UNCHANGED supervisor

Kill(c) ==
  /\ status[c] = "alive" /\ Childless(c)
  /\ supervisor[c] # None /\ status[supervisor[c]] = "alive"
  /\ status' = [status EXCEPT ![c] = "dead"]
  /\ UNCHANGED supervisor

(* The reaper frees what is left of c.                                     *)
Free(c) ==
  /\ status[c] = "dead"
  /\ status' = [status EXCEPT ![c] = "free"]
  /\ supervisor' = [supervisor EXCEPT ![c] = None]

(* Whatever happens changes the status of a process.                       *)
SNext ==
  /\ status' # status
  /\ \E c \in Process :
       \/ \E p \in Process : Spawn(p, c)
       \/ SpawnRoot(c) \/ Exit(c) \/ Wait(c) \/ Kill(c) \/ Free(c)

SSpec == SInit /\ [][SNext]_svars

-----------------------------------------------------------------------------
STypeOK ==
  /\ status \in [Process -> {"free", "alive", "zombie", "dead"}]
  /\ supervisor \in [Process -> Process \cup {None}]

(* No process outlives its parent, and a zombie has no children.           *)
Supervised ==
  \A c \in Process : Exists(c) /\ supervisor[c] # None =>
                       status[supervisor[c]] = "alive"
============================================================================
