---------------------------- MODULE FilesProofs ----------------------------
(***************************************************************************)
(* Theorems about Files, for any number of tasks, descriptors, open files  *)
(* and inodes: both levels of counting are right, nothing is used after it *)
(* was freed, the tmpfs tree holds what lives, and the console is open     *)
(* once.                                                                   *)
(***************************************************************************)
EXTENDS Files, FiniteSetTheorems, TLAPS

(* A task that does not live is in no call and holds no descriptor.        *)
AtRest ==
  \A t \in Task \ alive : pc[t] = "user" /\ \A i \in Fd : fd_table[t][i] = NULL

OpenFilesAreSound ==
  \A f \in OpenFile : of_refs[f] > 0 => of_node[f] \in VfsNode /\ kind[of_node[f]] # "free"

(* What a task holds where it can lose the CPU: an open file that is its   *)
(* own alone, one that a descriptor of its own keeps, or a node.           *)
HandsAreSound ==
  \A t \in Task :
    /\ pc[t] = "install" =>
         /\ hand[t] \in OpenFile /\ of_refs[hand[t]] = 1 /\ Holders(hand[t]) = {}
         /\ \A u \in Task : pc[u] = "install" /\ hand[u] = hand[t] => u = t
    /\ pc[t] = "reading" =>
         hand[t] \in OpenFile /\ \E i \in Fd : fd_table[t][i] = hand[t]
    /\ pc[t] = "opening" => hand[t] = Console
    /\ pc[t] \in {"alloc", "undo"} => hand[t] \in VfsNode /\ kind[hand[t]] # "free"

NodesAreSound ==
  /\ \A n \in VfsNode : is_unlinked[n] => n \in Inode /\ kind[n] # "free"
  /\ kind[Tmp] = "dir" /\ kind[Console] = "device"

(* An entry leads to a node that lives and is not unlinked, each such node *)
(* has one entry, and only directories have entries.                       *)
Held(n) == kind[n] # "free" /\ ~is_unlinked[n]
Places(n) == {p \in VfsNode \X Name : entries[p[1]][p[2]] = n}
TreeIsSound ==
  /\ \A n \in Inode : IF Held(n) THEN \E p \in VfsNode \X Name : Places(n) = {p}
                                ELSE Places(n) = {}
  /\ \A n \in VfsNode : n \notin Directory => entries[n] = NoEntry

(* An open of the console, finished or not, is one of console_open_count.  *)
ConsoleOpens == {t \in Task : pc[t] = "opening"} \cup Opening(Console)
ConsoleOnce ==
  Cardinality(Opens(Console)) + Cardinality(ConsoleOpens) <= console_open_count

FilesInv ==
  /\ FTypeOK /\ AtRest /\ OpenFilesAreCounted /\ OpenFilesAreSound /\ HandsAreSound
  /\ NodeRefsCoverOpens /\ NodesAreSound /\ TreeIsSound /\ ConsoleOnce

-----------------------------------------------------------------------------
(***************************************************************************)
(* The sets that are counted.                                              *)
(***************************************************************************)

(* They are finite.                                                        *)
LEMMA FiniteSets ==
  /\ \A f : IsFiniteSet(Holders(f)) /\ IsFiniteSet(Holders(f)')
  /\ \A n : IsFiniteSet(Opens(n)) /\ IsFiniteSet(Opens(n)')
  /\ \A n : IsFiniteSet(Opening(n)) /\ IsFiniteSet(Opening(n)')
  /\ IsFiniteSet(ConsoleOpens) /\ IsFiniteSet(ConsoleOpens')
  <1>1. IsFiniteSet(Task \X Fd)
    BY FilesAssumption, FS_Product
  <1>2. \A f : Holders(f) \in SUBSET (Task \X Fd) /\ Holders(f)' \in SUBSET (Task \X Fd)
    BY DEF Holders
  <1>3. \A n : Opens(n) \in SUBSET OpenFile /\ Opens(n)' \in SUBSET OpenFile
    BY DEF Opens
  <1>4. \A n : Opening(n) \in SUBSET Task /\ Opening(n)' \in SUBSET Task
    BY DEF Opening
  <1>5. ConsoleOpens \in SUBSET Task /\ ConsoleOpens' \in SUBSET Task
    BY DEF ConsoleOpens, Opening
  <1>6. IsFiniteSet(Task) /\ IsFiniteSet(OpenFile)
    BY FilesAssumption
  <1> QED BY <1>1, <1>2, <1>3, <1>4, <1>5, <1>6, FS_Subset

(* A set without some of its members, or with one more.                    *)
LEMMA CardMinus ==
  ASSUME NEW S, IsFiniteSet(S), NEW T, T \subseteq S
  PROVE  /\ IsFiniteSet(S \ T) /\ IsFiniteSet(T)
         /\ Cardinality(S) \in Nat /\ Cardinality(T) \in Nat /\ Cardinality(S \ T) \in Nat
         /\ Cardinality(S \ T) = Cardinality(S) - Cardinality(T)
         /\ Cardinality(T) <= Cardinality(S)
         /\ Cardinality(T) = Cardinality(S) => T = S
  <1>1. IsFiniteSet(T) /\ Cardinality(T) <= Cardinality(S) /\ (Cardinality(S) = Cardinality(T) => S = T)
    BY FS_Subset
  <1>2. S \cap T = T
    OBVIOUS
  <1>3. IsFiniteSet(S \ T) /\ Cardinality(S \ T) = Cardinality(S) - Cardinality(S \cap T)
    BY FS_Difference
  <1> QED BY <1>1, <1>2, <1>3, FS_CardinalityType

(* A set with one more member.                                             *)
LEMMA CardPlus ==
  ASSUME NEW S, IsFiniteSet(S), NEW x, x \notin S
  PROVE  /\ IsFiniteSet(S \cup {x}) /\ Cardinality(S) \in Nat
         /\ Cardinality(S \cup {x}) = Cardinality(S) + 1
  BY FS_AddElement, FS_CardinalityType

(* A subset of a finite set.                                               *)
LEMMA CardLess ==
  ASSUME NEW S, IsFiniteSet(S), NEW T, T \subseteq S
  PROVE  Cardinality(T) <= Cardinality(S) /\ Cardinality(T) \in Nat /\ Cardinality(S) \in Nat
  BY CardMinus

(* A finite set is empty or has members to count.                          *)
LEMMA CardZero ==
  ASSUME NEW S, IsFiniteSet(S) PROVE Cardinality(S) \in Nat /\ (Cardinality(S) = 0 <=> S = {})
  BY FS_EmptySet, FS_CardinalityType

-----------------------------------------------------------------------------
(***************************************************************************)
(* Closing descriptors.                                                    *)
(***************************************************************************)

(* The descriptors in H that hold f.                                       *)
LEMMA DropFacts ==
  ASSUME FilesInv, NEW H \in SUBSET (Task \X Fd), NEW f \in OpenFile
  PROVE  /\ Dropped(f, H) \in Nat /\ of_refs[f] - Dropped(f, H) \in Nat
         /\ Cardinality(Holders(f) \ H) \in Nat
         /\ Cardinality(Holders(f) \ H) = Cardinality(Holders(f)) - Dropped(f, H)
         /\ Holders(f) # {} => of_refs[f] = Cardinality(Holders(f)) /\ of_refs[f] > 0
         /\ Holders(f) = {} => Dropped(f, H) = 0
         /\ f \in Closed(H) <=> Holders(f) # {} /\ Holders(f) \subseteq H
         /\ f \in Closed(H) => of_refs[f] > 0 /\ of_refs[f] = Dropped(f, H)
  <1> DEFINE D == Holders(f) \cap H
  <1>1. D = {h \in H : fd_table[h[1]][h[2]] = f}
    BY DEF Holders
  <1>2. Dropped(f, H) = Cardinality(D)
    BY <1>1 DEF Dropped
  <1>3. IsFiniteSet(Holders(f)) /\ D \subseteq Holders(f) /\ Holders(f) \ D = Holders(f) \ H
    BY FiniteSets
  <1> HIDE DEF D
  <1>4. /\ Cardinality(Holders(f)) \in Nat /\ Cardinality(D) \in Nat
        /\ Cardinality(Holders(f) \ D) \in Nat
        /\ Cardinality(Holders(f) \ D) = Cardinality(Holders(f)) - Cardinality(D)
        /\ Cardinality(D) <= Cardinality(Holders(f))
        /\ Cardinality(D) = Cardinality(Holders(f)) => D = Holders(f)
        /\ IsFiniteSet(D)
    BY <1>3, CardMinus
  <1>5. (Cardinality(Holders(f)) = 0 <=> Holders(f) = {}) /\ (Cardinality(D) = 0 <=> D = {})
    BY <1>3, <1>4, CardZero
  <1>6. Holders(f) # {} => of_refs[f] = Cardinality(Holders(f))
    BY DEF FilesInv, OpenFilesAreCounted
  <1>7. of_refs[f] \in Nat
    BY DEF FilesInv, FTypeOK
  <1>8. Holders(f) = {} => D = {}
    BY <1>3
  <1>9. f \in Closed(H) <=> Cardinality(D) > 0 /\ of_refs[f] = Cardinality(D)
    BY <1>2 DEF Closed
  <1>10. D = Holders(f) <=> Holders(f) \subseteq H
    BY DEF D
  <1> QED BY <1>2, <1>3, <1>4, <1>5, <1>6, <1>7, <1>8, <1>9, <1>10

(* The references that the closed files drop are those of the inode's      *)
(* opens; when they were the last, nobody else has or is opening it.       *)
LEMMA ReleaseFacts ==
  ASSUME FilesInv, NEW H \in SUBSET (Task \X Fd), NEW n \in VfsNode
  PROVE  /\ Released(n, H) \in Nat
         /\ node_refs[n] - Released(n, H) \in Nat
         /\ node_refs[n] - Released(n, H) >=
              Cardinality(Opens(n) \ Closed(H)) + Cardinality(Opening(n))
         /\ Orphan(n, H) => Opens(n) \subseteq Closed(H) /\ Opening(n) = {}
  <1> DEFINE R == Opens(n) \cap Closed(H)
  <1>1. R = {f \in Closed(H) : of_node[f] = n}
    BY DropFacts DEF Opens, Closed
  <1>2. Released(n, H) = Cardinality(R)
    BY <1>1 DEF Released
  <1>3. IsFiniteSet(Opens(n)) /\ R \subseteq Opens(n) /\ Opens(n) \ R = Opens(n) \ Closed(H)
    BY FiniteSets
  <1> HIDE DEF R
  <1>4. /\ Cardinality(Opens(n)) \in Nat /\ Cardinality(R) \in Nat
        /\ Cardinality(Opens(n) \ R) = Cardinality(Opens(n)) - Cardinality(R)
        /\ Cardinality(R) <= Cardinality(Opens(n))
        /\ Cardinality(R) = Cardinality(Opens(n)) => R = Opens(n)
    BY <1>3, CardMinus
  <1>5. Cardinality(Opening(n)) \in Nat /\ (Cardinality(Opening(n)) = 0 <=> Opening(n) = {})
    BY FiniteSets, CardZero
  <1>6. node_refs[n] \in Nat /\ node_refs[n] >= Cardinality(Opens(n)) + Cardinality(Opening(n))
    BY DEF FilesInv, FTypeOK, NodeRefsCoverOpens
  <1>7. Orphan(n, H) => node_refs[n] = Cardinality(R)
    BY <1>2 DEF Orphan
  <1>8. R = Opens(n) => Opens(n) \subseteq Closed(H)
    BY DEF R
  <1>9. Orphan(n, H) => R = Opens(n) /\ Opening(n) = {}
    BY <1>4, <1>5, <1>6, <1>7
  <1>10. node_refs[n] - Cardinality(R) \in Nat
    BY <1>4, <1>5, <1>6
  <1>11. node_refs[n] - Cardinality(R) >= Cardinality(Opens(n) \ R) + Cardinality(Opening(n))
    BY <1>4, <1>5, <1>6
  <1> QED BY <1>2, <1>3, <1>4, <1>8, <1>9, <1>10, <1>11

(* What CloseAndCount leaves: the open files that were closed are gone,    *)
(* the nodes they were the last to use as well, and nothing else is.       *)
LEMMA CloseFacts ==
  ASSUME FilesInv, NEW H \in SUBSET (Task \X Fd), NEW g \in OpenFile \cup {NULL},
         g # NULL => ~(Holders(g) \subseteq H), CloseAndCount(H, g)
  PROVE  /\ of_refs' \in [OpenFile -> Nat] /\ node_refs' \in [VfsNode -> Nat]
         /\ of_node' \in [OpenFile -> VfsNode \cup {NULL}]
         /\ kind' \in [VfsNode -> {"free", "file", "dir", "device"}]
         /\ is_unlinked' \in [VfsNode -> BOOLEAN]
         /\ entries' = entries /\ console_open_count' = console_open_count
         /\ g \notin Closed(H)
         /\ \A f \in OpenFile : /\ of_refs'[f] > 0 <=> of_refs[f] > 0 /\ f \notin Closed(H)
                                /\ f \notin Closed(H) => of_node'[f] = of_node[f]
                                /\ f # g => of_refs'[f] = of_refs[f] - Dropped(f, H)
                                /\ f = g => of_refs'[f] = of_refs[f] - Dropped(f, H) + 1
         /\ \A n \in VfsNode : Opens(n)' = Opens(n) \ Closed(H)
         /\ \A n \in VfsNode : node_refs'[n] >=
              Cardinality(Opens(n) \ Closed(H)) + Cardinality(Opening(n))
         /\ \A n \in VfsNode : kind'[n] = IF Orphan(n, H) THEN "free" ELSE kind[n]
         /\ \A n \in VfsNode : is_unlinked'[n] = (is_unlinked[n] /\ ~Orphan(n, H))
  <1>0. /\ of_node \in [OpenFile -> VfsNode \cup {NULL}] /\ of_refs \in [OpenFile -> Nat]
        /\ kind \in [VfsNode -> {"free", "file", "dir", "device"}]
        /\ node_refs \in [VfsNode -> Nat] /\ is_unlinked \in [VfsNode -> BOOLEAN]
    BY DEF FilesInv, FTypeOK
  <1>1. g # NULL => g \in OpenFile
    OBVIOUS
  <1>2. \A f \in OpenFile : f # NULL
    BY FilesAssumption
  <1>3. g \notin Closed(H) /\ g # NULL => of_refs[g] > 0
    BY <1>1, DropFacts
  <1>4. g \notin Closed(H)
    <2>1. g # NULL => g \notin Closed(H)
      BY <1>1, DropFacts
    <2> QED BY <1>2, <2>1 DEF Closed
  <1>5. \A f \in OpenFile :
          /\ f # g => of_refs'[f] = of_refs[f] - Dropped(f, H)
          /\ f = g => of_refs'[f] = of_refs[f] - Dropped(f, H) + 1
    <2> TAKE f \in OpenFile
    <2>1. of_refs[f] - Dropped(f, H) \in Nat
      BY DropFacts
    <2>2. of_refs'[f] = of_refs[f] - Dropped(f, H) + IF f = g THEN 1 ELSE 0
      BY DEF CloseAndCount
    <2> QED BY <2>1, <2>2
  <1>6. \A n \in VfsNode : \/ node_refs'[n] = node_refs[n] - Released(n, H)
                        \/ node_refs'[n] = node_refs[n] - Released(n, H) + 1
    <2> TAKE n \in VfsNode
    <2>1. node_refs[n] - Released(n, H) \in Nat
      BY ReleaseFacts
    <2>2. node_refs'[n] = node_refs[n] - Released(n, H)
                          + IF g # NULL /\ n = of_node[g] THEN 1 ELSE 0
      BY DEF CloseAndCount
    <2> QED BY <2>1, <2>2
  <1>7. of_refs' \in [OpenFile -> Nat] /\ node_refs' \in [VfsNode -> Nat]
    <2>1. \A f \in OpenFile : of_refs'[f] \in Nat
      <3> TAKE f \in OpenFile
      <3>1. of_refs[f] - Dropped(f, H) \in Nat
        BY DropFacts
      <3> QED BY <1>5, <3>1
    <2>2. \A n \in VfsNode : node_refs'[n] \in Nat
      <3> TAKE n \in VfsNode
      <3>1. node_refs[n] - Released(n, H) \in Nat
        BY ReleaseFacts
      <3> QED BY <1>6, <3>1
    <2>3. /\ of_refs' = [f \in OpenFile |-> of_refs'[f]]
          /\ node_refs' = [n \in VfsNode |-> node_refs'[n]]
      BY DEF CloseAndCount
    <2> QED BY <2>1, <2>2, <2>3
  <1>8. \A f \in OpenFile : of_node'[f] = IF f \in Closed(H) THEN NULL ELSE of_node[f]
    BY DEF CloseAndCount
  <1>9. of_node' \in [OpenFile -> VfsNode \cup {NULL}]
    BY <1>0 DEF CloseAndCount
  <1>10. /\ \A n \in VfsNode : kind'[n] = IF Orphan(n, H) THEN "free" ELSE kind[n]
         /\ \A n \in VfsNode : is_unlinked'[n] = (is_unlinked[n] /\ ~Orphan(n, H))
         /\ entries' = entries /\ console_open_count' = console_open_count
    BY DEF CloseAndCount
  <1>11. kind' \in [VfsNode -> {"free", "file", "dir", "device"}]
    BY <1>0 DEF CloseAndCount
  <1>12. is_unlinked' \in [VfsNode -> BOOLEAN]
    BY <1>0 DEF CloseAndCount
  <1>13. \A f \in OpenFile : of_refs'[f] > 0 <=> of_refs[f] > 0 /\ f \notin Closed(H)
    <2> TAKE f \in OpenFile
    <2>1. /\ of_refs[f] \in Nat /\ Dropped(f, H) \in Nat /\ of_refs[f] - Dropped(f, H) \in Nat
          /\ f \in Closed(H) => of_refs[f] > 0 /\ of_refs[f] = Dropped(f, H)
      BY <1>0, DropFacts
    <2>2. f \in Closed(H) <=> Dropped(f, H) > 0 /\ of_refs[f] = Dropped(f, H)
      BY DEF Closed
    <2>3. f = g => of_refs[f] > 0 /\ f \notin Closed(H)
      BY <1>2, <1>3, <1>4
    <2> QED BY <1>5, <2>1, <2>2, <2>3
  <1>14. \A n \in VfsNode : Opens(n)' = Opens(n) \ Closed(H)
    BY <1>8, <1>13 DEF Opens
  <1>15. \A n \in VfsNode : node_refs'[n] >= Cardinality(Opens(n) \ Closed(H)) + Cardinality(Opening(n))
    <2> TAKE n \in VfsNode
    <2>1. /\ Cardinality(Opens(n) \ Closed(H)) \in Nat /\ Cardinality(Opening(n)) \in Nat
          /\ node_refs[n] - Released(n, H) \in Nat
      <3>1. Opens(n) \ Closed(H) \subseteq Opens(n)
        OBVIOUS
      <3> QED BY <3>1, FiniteSets, CardLess, CardZero, ReleaseFacts
    <2>2. node_refs[n] - Released(n, H) >= Cardinality(Opens(n) \ Closed(H)) + Cardinality(Opening(n))
      BY ReleaseFacts
    <2> QED BY <1>6, <2>1, <2>2
  <1> QED BY <1>4, <1>5, <1>7, <1>8, <1>9, <1>10, <1>11, <1>12, <1>13, <1>14, <1>15

(* The tree is as it was when the same nodes live in it.                   *)
LEMMA TreeStays ==
  ASSUME TreeIsSound, entries' = entries,
         \A n \in Inode : Held(n)' <=> Held(n),
         \A n \in VfsNode : n \in Directory => n \in Directory'
  PROVE  TreeIsSound'
  <1>1. \A n \in Inode : Places(n)' = Places(n)
    BY DEF Places
  <1> QED BY <1>1 DEF TreeIsSound

(* Closing descriptors, and what is done to the task that held them.       *)
LEMMA CloseKeeps ==
  ASSUME FilesInv, NEW H \in SUBSET (Task \X Fd), NEW g \in OpenFile \cup {NULL},
         g # NULL => ~(Holders(g) \subseteq H), CloseAndCount(H, g),
         alive' \in SUBSET Task, parent' \in [Task -> Task \cup {NULL}],
         fd_table' \in [Task -> [Fd -> OpenFile \cup {NULL}]],
         \A f \in OpenFile : f # g => Holders(f)' = Holders(f) \ H,
         NEW e, e \notin Holders(g) \ H,
         g # NULL => Holders(g)' = (Holders(g) \ H) \cup {e},
         pc' \in [Task -> {"user", "opening", "alloc", "install", "undo", "reading"}],
         hand' \in [Task -> OpenFile \cup VfsNode \cup {NULL}],
         \A t \in Task : pc'[t] # "user" => pc'[t] = pc[t] /\ hand'[t] = hand[t],
         AtRest',
         \A t \in Task : pc'[t] = "reading" => \E i \in Fd : fd_table'[t][i] = hand[t]
  PROVE  FilesInv'
  <1>0. /\ of_refs' \in [OpenFile -> Nat] /\ node_refs' \in [VfsNode -> Nat]
        /\ of_node' \in [OpenFile -> VfsNode \cup {NULL}]
        /\ kind' \in [VfsNode -> {"free", "file", "dir", "device"}]
        /\ is_unlinked' \in [VfsNode -> BOOLEAN]
        /\ entries' = entries /\ console_open_count' = console_open_count
    BY CloseFacts
  <1>1. /\ g \notin Closed(H)
        /\ \A f \in OpenFile : /\ of_refs'[f] > 0 <=> of_refs[f] > 0 /\ f \notin Closed(H)
                               /\ f \notin Closed(H) => of_node'[f] = of_node[f]
                               /\ f # g => of_refs'[f] = of_refs[f] - Dropped(f, H)
                               /\ f = g => of_refs'[f] = of_refs[f] - Dropped(f, H) + 1
    BY CloseFacts, ZenonT(30)
  <1>2. /\ \A n \in VfsNode : Opens(n)' = Opens(n) \ Closed(H)
        /\ \A n \in VfsNode : node_refs'[n] >=
             Cardinality(Opens(n) \ Closed(H)) + Cardinality(Opening(n))
        /\ \A n \in VfsNode : kind'[n] = IF Orphan(n, H) THEN "free" ELSE kind[n]
        /\ \A n \in VfsNode : is_unlinked'[n] = (is_unlinked[n] /\ ~Orphan(n, H))
    BY CloseFacts
  <1>3. \A n \in VfsNode : Opening(n)' \subseteq Opening(n)
    BY DEF Opening
  <1>4. \A n \in VfsNode : Orphan(n, H) => is_unlinked[n] /\ n \in Inode /\ n # Tmp /\ n # Console
    BY FilesAssumption DEF Orphan, FilesInv, NodesAreSound
  <1>5. \A n \in VfsNode : Orphan(n, H) => Opens(n) \subseteq Closed(H) /\ Opening(n) = {}
    BY ReleaseFacts
  <1>6. FTypeOK'
    BY <1>0 DEF FilesInv, FTypeOK
  <1>7. OpenFilesAreCounted'
    <2> SUFFICES ASSUME NEW f \in OpenFile, Holders(f)' # {}
                 PROVE  of_refs'[f] = Cardinality(Holders(f)')
      BY DEF OpenFilesAreCounted
    <2>1. /\ Cardinality(Holders(f) \ H) \in Nat
          /\ Cardinality(Holders(f) \ H) = Cardinality(Holders(f)) - Dropped(f, H)
          /\ Holders(f) # {} => of_refs[f] = Cardinality(Holders(f))
      BY DropFacts
    <2>2. CASE f # g
      <3>1. Holders(f)' = Holders(f) \ H
        BY <2>2
      <3>2. of_refs'[f] = of_refs[f] - Dropped(f, H)
        BY <1>1, <2>2
      <3> QED BY <2>1, <3>1, <3>2
    <2>3. CASE f = g
      <3>1. /\ g # NULL /\ Holders(f)' = (Holders(f) \ H) \cup {e} /\ Holders(f) # {}
            /\ e \notin Holders(f) \ H
        BY <2>3, FilesAssumption
      <3>2. of_refs'[f] = of_refs[f] - Dropped(f, H) + 1
        BY <1>1, <2>3
      <3>3. IsFiniteSet(Holders(f) \ H)
        BY FiniteSets, FS_Difference
      <3>4. Cardinality((Holders(f) \ H) \cup {e}) = Cardinality(Holders(f) \ H) + 1
        BY <3>1, <3>3, CardPlus
      <3> QED BY <2>1, <3>1, <3>2, <3>4
    <2> QED BY <2>2, <2>3
  <1>8. OpenFilesAreSound'
    <2> SUFFICES ASSUME NEW f \in OpenFile, of_refs'[f] > 0
                 PROVE  of_node'[f] \in VfsNode /\ kind'[of_node'[f]] # "free"
      BY DEF OpenFilesAreSound
    <2>1. of_refs[f] > 0 /\ f \notin Closed(H) /\ of_node'[f] = of_node[f]
      BY <1>1
    <2>2. of_node[f] \in VfsNode /\ kind[of_node[f]] # "free"
      BY <2>1 DEF FilesInv, OpenFilesAreSound
    <2>3. f \in Opens(of_node[f])
      BY <2>1 DEF Opens
    <2>4. ~Orphan(of_node[f], H)
      BY <1>5, <2>1, <2>2, <2>3
    <2> QED BY <1>2, <2>1, <2>2, <2>4
  <1>9. HandsAreSound'
    <2> SUFFICES ASSUME NEW t \in Task, pc'[t] # "user"
                 PROVE  /\ pc'[t] = "install" =>
                             /\ hand'[t] \in OpenFile /\ of_refs'[hand'[t]] = 1
                             /\ Holders(hand[t])' = {}
                             /\ \A u \in Task : pc'[u] = "install" /\ hand'[u] = hand'[t] => u = t
                        /\ pc'[t] = "reading" =>
                             hand'[t] \in OpenFile /\ \E i \in Fd : fd_table'[t][i] = hand'[t]
                        /\ pc'[t] = "opening" => hand'[t] = Console
                        /\ pc'[t] \in {"alloc", "undo"} =>
                             hand'[t] \in VfsNode /\ kind'[hand'[t]] # "free"
      BY DEF HandsAreSound
    <2>1. PICK f \in OpenFile \cup VfsNode \cup {NULL} : f = hand[t]
      BY DEF FilesInv, FTypeOK
    <2>2. pc'[t] = pc[t] /\ hand'[t] = f
      BY <2>1
    <2>3. \A u \in Task : pc'[u] = "install" => pc[u] = "install" /\ hand'[u] = hand[u]
      OBVIOUS
    <2>4. /\ pc[t] = "install" =>
               /\ f \in OpenFile /\ of_refs[f] = 1 /\ Holders(f) = {}
               /\ \A u \in Task : pc[u] = "install" /\ hand[u] = f => u = t
          /\ pc[t] = "reading" => f \in OpenFile
          /\ pc[t] = "opening" => f = Console
          /\ pc[t] \in {"alloc", "undo"} => f \in VfsNode /\ kind[f] # "free"
      BY <2>1 DEF FilesInv, HandsAreSound
    <2>5. ASSUME pc[t] = "install"
          PROVE  of_refs'[f] = 1 /\ Holders(f)' = {}
      <3>1. f \in OpenFile /\ of_refs[f] = 1 /\ Holders(f) = {}
        BY <2>4, <2>5
      <3>2. f # g
        BY <3>1, FilesAssumption
      <3>3. of_refs'[f] = of_refs[f] - Dropped(f, H) /\ Holders(f)' = Holders(f) \ H
        BY <1>1, <3>1, <3>2
      <3>4. Dropped(f, H) = 0
        BY <3>1, DropFacts
      <3> QED BY <3>1, <3>3, <3>4
    <2>6. ASSUME pc[t] \in {"alloc", "undo"}
          PROVE  kind'[f] # "free"
      <3>1. f \in VfsNode /\ kind[f] # "free" /\ t \in Opening(f)
        BY <2>1, <2>4, <2>6 DEF Opening
      <3> QED BY <1>2, <1>5, <3>1
    <2>7. Holders(hand[t])' = Holders(f)'
      BY <2>2 DEF Holders
    <2> QED BY <2>1, <2>2, <2>3, <2>4, <2>5, <2>6, <2>7
  <1>10. NodeRefsCoverOpens'
    <2> SUFFICES ASSUME NEW n \in VfsNode
                 PROVE  node_refs'[n] >= Cardinality(Opens(n)') + Cardinality(Opening(n)')
      BY DEF NodeRefsCoverOpens
    <2>1. Cardinality(Opening(n)') <= Cardinality(Opening(n)) /\ Cardinality(Opening(n)') \in Nat
          /\ Cardinality(Opening(n)) \in Nat
      BY <1>3, FiniteSets, CardLess
    <2>2. Cardinality(Opens(n)') \in Nat /\ Opens(n)' = Opens(n) \ Closed(H)
      BY <1>2, FiniteSets, CardZero
    <2>3. node_refs'[n] >= Cardinality(Opens(n)') + Cardinality(Opening(n)) /\ node_refs'[n] \in Nat
      BY <1>0, <1>2, <2>2
    <2>4. \A a, b, c, d \in Nat : a <= b /\ d >= c + b => d >= c + a
      OBVIOUS
    <2> QED BY <2>1, <2>2, <2>3, <2>4
  <1>11. NodesAreSound'
    <2>1. NodesAreSound /\ Tmp \in VfsNode /\ Console \in VfsNode
      BY DEF FilesInv, VfsNode
    <2>2. ~Orphan(Tmp, H) /\ ~Orphan(Console, H)
      BY <1>4, <2>1
    <2> QED BY <1>2, <2>1, <2>2 DEF NodesAreSound
  <1>12. TreeIsSound'
    <2>1. \A n \in Inode : Held(n)' <=> Held(n)
      BY <1>2, <1>4 DEF Held, VfsNode
    <2>2. \A n \in VfsNode : n \in Directory => n \in Directory'
      BY <1>2, <1>4 DEF Directory
    <2> QED BY <1>0, <2>1, <2>2, TreeStays DEF FilesInv
  <1>13. ConsoleOnce'
    <2>1. Console \in VfsNode
      BY DEF VfsNode
    <2>2. Opens(Console)' \subseteq Opens(Console)
      BY <1>2, <2>1
    <2>3. ConsoleOpens' \subseteq ConsoleOpens
      BY DEF ConsoleOpens, Opening
    <2>4. /\ Cardinality(Opens(Console)') <= Cardinality(Opens(Console))
          /\ Cardinality(Opens(Console)') \in Nat /\ Cardinality(Opens(Console)) \in Nat
      BY <2>2, FiniteSets, CardLess
    <2>5. /\ Cardinality(ConsoleOpens') <= Cardinality(ConsoleOpens)
          /\ Cardinality(ConsoleOpens') \in Nat /\ Cardinality(ConsoleOpens) \in Nat
      BY <2>3, FiniteSets, CardLess
    <2>6. Cardinality(Opens(Console)) + Cardinality(ConsoleOpens) <= console_open_count
          /\ console_open_count \in Nat
      BY DEF FilesInv, ConsoleOnce, FTypeOK
    <2> QED BY <1>0, <2>4, <2>5, <2>6 DEF ConsoleOnce
  <1> QED BY <1>6, <1>7, <1>8, <1>9, <1>10, <1>11, <1>12, <1>13 DEF FilesInv

(* Descriptors of the tasks in D are closed, which are in no call then;    *)
(* those of them that die keep none.                                       *)
LEMMA CloseOnly ==
  ASSUME FilesInv, NEW H \in SUBSET (Task \X Fd), NEW D \in SUBSET Task, Close(H),
         \A h \in H : h[1] \in D,
         alive' \in SUBSET Task, parent' \in [Task -> Task \cup {NULL}],
         pc' \in [Task -> {"user", "opening", "alloc", "install", "undo", "reading"}],
         hand' \in [Task -> OpenFile \cup VfsNode \cup {NULL}],
         \A t \in Task : IF t \in D THEN pc'[t] = "user"
                         ELSE pc'[t] = pc[t] /\ hand'[t] = hand[t],
         \A t \in alive \ alive' :
           pc'[t] = "user" /\ \A i \in Fd : fd_table[t][i] # NULL => <<t, i>> \in H
  PROVE  FilesInv'
  <1>1. fd_table \in [Task -> [Fd -> OpenFile \cup {NULL}]]
    BY DEF FilesInv, FTypeOK
  <1>2. CloseAndCount(H, NULL)
    BY DEF Close
  <1>3. \A t \in Task, i \in Fd :
          fd_table'[t][i] = IF <<t, i>> \in H THEN NULL ELSE fd_table[t][i]
    BY DEF Close
  <1>4. fd_table' \in [Task -> [Fd -> OpenFile \cup {NULL}]]
    BY <1>1 DEF Close
  <1>5. \A f \in OpenFile : Holders(f)' = Holders(f) \ H
    <2> TAKE f \in OpenFile
    <2>1. f # NULL
      BY FilesAssumption
    <2>2. \A h \in Task \X Fd : h[1] \in Task /\ h[2] \in Fd /\ h = <<h[1], h[2]>>
      OBVIOUS
    <2>3. \A h \in Task \X Fd : fd_table'[h[1]][h[2]] = f <=> h \notin H /\ fd_table[h[1]][h[2]] = f
      BY <1>3, <2>1, <2>2
    <2> QED BY <2>3 DEF Holders
  <1>6. <<NULL, 0>> \notin Holders(NULL) \ H
    BY FilesAssumption DEF Holders
  <1>7. AtRest'
    <2> SUFFICES ASSUME NEW t \in Task \ alive'
                 PROVE  pc'[t] = "user" /\ \A i \in Fd : fd_table'[t][i] = NULL
      BY DEF AtRest
    <2>1. CASE t \in alive
      <3>1. t \in alive \ alive' /\ t \in Task
        BY <2>1
      <3>2. pc'[t] = "user" /\ \A i \in Fd : fd_table[t][i] # NULL => <<t, i>> \in H
        BY <3>1
      <3> QED BY <1>3, <3>1, <3>2
    <2>2. CASE t \notin alive
      <3>1. pc[t] = "user" /\ \A i \in Fd : fd_table[t][i] = NULL
        BY <2>2 DEF FilesInv, AtRest
      <3>2. \A i \in Fd : fd_table'[t][i] = NULL
        BY <1>3, <3>1
      <3>3. t \in D \/ pc'[t] = pc[t]
        OBVIOUS
      <3> QED BY <3>1, <3>2, <3>3
    <2> QED BY <2>1, <2>2
  <1>8. \A t \in Task : pc'[t] = "reading" => \E i \in Fd : fd_table'[t][i] = hand[t]
    <2> TAKE t \in Task
    <2> HAVE pc'[t] = "reading"
    <2>1. t \notin D /\ pc[t] = "reading"
      OBVIOUS
    <2>2. PICK i \in Fd : fd_table[t][i] = hand[t]
      BY <2>1 DEF FilesInv, HandsAreSound
    <2>3. <<t, i>> \notin H
      BY <2>1
    <2> QED BY <1>3, <2>2, <2>3
  <1>9. \A t \in Task : pc'[t] # "user" => pc'[t] = pc[t] /\ hand'[t] = hand[t]
    OBVIOUS
  <1>10. NULL \in OpenFile \cup {NULL} /\ \A f \in OpenFile : f # NULL => Holders(f)' = Holders(f) \ H
    BY <1>5
  <1> QED BY <1>2, <1>4, <1>6, <1>7, <1>8, <1>9, <1>10, CloseKeeps

(* sys_close.                                                              *)
LEMMA SysCloseKeeps ==
  ASSUME FilesInv, NEW t \in Task, SysClose(t) PROVE FilesInv'
  <1>1. PICK h \in InUse({t}) : Close({h})
    BY DEF SysClose
  <1>2. {h} \in SUBSET (Task \X Fd) /\ h[1] = t
    BY DEF InUse
  <1>3. /\ alive' = alive /\ parent' = parent /\ pc' = pc /\ hand' = hand /\ pc[t] = "user"
    BY DEF SysClose, Calls, tasks, where
  <1>4. /\ alive \in SUBSET Task /\ parent \in [Task -> Task \cup {NULL}]
        /\ pc \in [Task -> {"user", "opening", "alloc", "install", "undo", "reading"}]
        /\ hand \in [Task -> OpenFile \cup VfsNode \cup {NULL}]
    BY DEF FilesInv, FTypeOK
  <1>5. \A x \in {h} : x[1] \in {t}
    BY <1>2
  <1>6. \A u \in Task : IF u \in {t} THEN pc'[u] = "user"
                        ELSE pc'[u] = pc[u] /\ hand'[u] = hand[u]
    BY <1>3
  <1>7. {t} \in SUBSET Task
    OBVIOUS
  <1> QED BY <1>1, <1>2, <1>3, <1>4, <1>5, <1>6, <1>7, CloseOnly

(* task_exit and task_kill: the whole subtree closes what it has open.     *)
LEMMA ExitKeeps ==
  ASSUME FilesInv, NEW t \in Task, Exit(t) PROVE FilesInv'
  <1>1. PICK D : D = Subtree(t, alive, parent)
    OBVIOUS
  <1>2. /\ Close(InUse(D)) /\ alive' = alive \ D
        /\ parent' = [c \in Task |-> IF c \in D THEN NULL ELSE parent[c]]
        /\ pc' = [c \in Task |-> IF c \in D THEN "user" ELSE pc[c]]
        /\ hand' = [c \in Task |-> IF c \in D THEN NULL ELSE hand[c]]
    BY <1>1 DEF Exit
  <1>3. /\ alive \in SUBSET Task /\ parent \in [Task -> Task \cup {NULL}]
        /\ pc \in [Task -> {"user", "opening", "alloc", "install", "undo", "reading"}]
        /\ hand \in [Task -> OpenFile \cup VfsNode \cup {NULL}]
    BY DEF FilesInv, FTypeOK
  <1>4. D \in SUBSET Task
    <2>1. t \in alive
      BY DEF Exit, Calls
    <2> QED BY <1>1, <1>3, <2>1 DEF Subtree
  <1>5. InUse(D) \in SUBSET (Task \X Fd) /\ \A h \in InUse(D) : h[1] \in D
    BY <1>4 DEF InUse
  <1>6. /\ alive' \in SUBSET Task /\ parent' \in [Task -> Task \cup {NULL}]
        /\ pc' \in [Task -> {"user", "opening", "alloc", "install", "undo", "reading"}]
        /\ hand' \in [Task -> OpenFile \cup VfsNode \cup {NULL}]
    BY <1>2, <1>3
  <1>7. \A u \in Task : IF u \in D THEN pc'[u] = "user" ELSE pc'[u] = pc[u] /\ hand'[u] = hand[u]
    BY <1>2
  <1>8. \A u \in alive \ alive' :
          pc'[u] = "user" /\ \A i \in Fd : fd_table[u][i] # NULL => <<u, i>> \in InUse(D)
    BY <1>2, <1>3 DEF InUse
  <1> QED BY <1>2, <1>4, <1>5, <1>6, <1>7, <1>8, CloseOnly

(* A free descriptor is found when there is one.                           *)
LEMMA LowestExists ==
  ASSUME NEW S \in SUBSET Fd, S # {} PROVE Lowest(S) \in S
  <1>1. S \subseteq Nat
    BY FilesAssumption
  <1>2. PICK i \in S : \A j \in S : ~ (<<j, i>> \in OpToRel(<, Nat))
    BY <1>1, NatLessThanWellFounded, WFMin
  <1>3. \A j \in S : ~(j < i)
    BY <1>1, <1>2 DEF OpToRel
  <1>4. \A j \in S : i <= j
    BY <1>1, <1>3
  <1> QED BY <1>4 DEF Lowest

(* One more descriptor for an open file, in place of what was there.       *)
LEMMA DuplicateKeeps ==
  ASSUME FilesInv, NEW t \in alive, pc[t] = "user", NEW i \in Fd, NEW j \in Fd,
         Duplicate(t, i, j), UNCHANGED <<tasks, where>>
  PROVE  FilesInv'
  <1>0. /\ alive \in SUBSET Task /\ parent \in [Task -> Task \cup {NULL}]
        /\ fd_table \in [Task -> [Fd -> OpenFile \cup {NULL}]]
        /\ pc \in [Task -> {"user", "opening", "alloc", "install", "undo", "reading"}]
        /\ hand \in [Task -> OpenFile \cup VfsNode \cup {NULL}]
    BY DEF FilesInv, FTypeOK
  <1>1. alive' = alive /\ parent' = parent /\ pc' = pc /\ hand' = hand
    BY DEF tasks, where
  <1>2. PICK f \in OpenFile : f = fd_table[t][i]
    BY <1>0 DEF Duplicate
  <1> DEFINE H == InUse({t}) \cap {<<t, j>>}
  <1>3. /\ i # j /\ f # NULL /\ CloseAndCount(H, f)
        /\ fd_table' = [fd_table EXCEPT ![t][j] = f]
    BY <1>2 DEF Duplicate
  <1>4. /\ H \in SUBSET (Task \X Fd) /\ H \subseteq {<<t, j>>}
        /\ <<t, j>> \in H <=> fd_table[t][j] # NULL
    BY <1>0 DEF InUse
  <1> HIDE DEF H
  <1>5. \A u \in Task, k \in Fd :
          fd_table'[u][k] = IF u = t /\ k = j THEN f ELSE fd_table[u][k]
    BY <1>0, <1>3
  <1>6. fd_table' \in [Task -> [Fd -> OpenFile \cup {NULL}]]
    BY <1>0, <1>3
  <1>7. ~(Holders(f) \subseteq H)
    <2>1. <<t, i>> \in Holders(f)
      BY <1>0, <1>2 DEF Holders
    <2> QED BY <1>3, <1>4, <2>1
  <1>8. <<t, j>> \notin Holders(f) \ H
    BY <1>3, <1>4 DEF Holders
  <1>9. \A h \in Task \X Fd : /\ h[1] \in Task /\ h[2] \in Fd /\ h = <<h[1], h[2]>>
                              /\ h = <<t, j>> <=> h[1] = t /\ h[2] = j
    OBVIOUS
  <1>10. \A h \in Task \X Fd :
           fd_table'[h[1]][h[2]] = IF h = <<t, j>> THEN f ELSE fd_table[h[1]][h[2]]
    <2> TAKE h \in Task \X Fd
    <2>1. PICK u \in Task, k \in Fd : h[1] = u /\ h[2] = k /\ (h = <<t, j>> <=> u = t /\ k = j)
      BY <1>9
    <2>2. fd_table'[u][k] = IF u = t /\ k = j THEN f ELSE fd_table[u][k]
      BY <1>5
    <2> QED BY <2>1, <2>2
  <1>11. Holders(f)' = (Holders(f) \ H) \cup {<<t, j>>}
    <2>1. \A h \in Task \X Fd : fd_table'[h[1]][h[2]] = f <=>
            h = <<t, j>> \/ (fd_table[h[1]][h[2]] = f /\ h \notin H)
      BY <1>4, <1>10
    <2>2. <<t, j>> \in Task \X Fd
      BY <1>0
    <2>3. Holders(f) \subseteq Task \X Fd
      BY DEF Holders
    <2>4. \A h \in Task \X Fd : h \in Holders(f)' <=> h \in (Holders(f) \ H) \cup {<<t, j>>}
      BY <2>1 DEF Holders
    <2>5. Holders(f)' \subseteq Task \X Fd
      BY DEF Holders
    <2> QED BY <2>2, <2>3, <2>4, <2>5
  <1>12. \A g \in OpenFile : g # f => Holders(g)' = Holders(g) \ H
    <2> SUFFICES ASSUME NEW g \in OpenFile, g # f PROVE Holders(g)' = Holders(g) \ H
      OBVIOUS
    <2>0. g # NULL
      BY FilesAssumption
    <2>1. \A h \in Task \X Fd : h \in H <=> h = <<t, j>> /\ fd_table[h[1]][h[2]] # NULL
      BY <1>4, <1>9
    <2>2. \A h \in Task \X Fd : fd_table'[h[1]][h[2]] = g <=>
            fd_table[h[1]][h[2]] = g /\ h \notin H
      BY <1>10, <2>0, <2>1
    <2> QED BY <2>2 DEF Holders
  <1>13. AtRest'
    <2> SUFFICES ASSUME NEW u \in Task \ alive
                 PROVE  pc[u] = "user" /\ \A k \in Fd : fd_table'[u][k] = NULL
      BY <1>1 DEF AtRest
    <2>1. pc[u] = "user" /\ \A k \in Fd : fd_table[u][k] = NULL
      BY DEF FilesInv, AtRest
    <2> QED BY <1>5, <2>1
  <1>14. \A u \in Task : pc'[u] = "reading" => \E k \in Fd : fd_table'[u][k] = hand[u]
    <2> TAKE u \in Task
    <2> HAVE pc'[u] = "reading"
    <2>1. u # t /\ pc[u] = "reading"
      BY <1>1
    <2>2. PICK k \in Fd : fd_table[u][k] = hand[u]
      BY <2>1 DEF FilesInv, HandsAreSound
    <2> QED BY <1>5, <2>1, <2>2
  <1>15. \A u \in Task : pc'[u] # "user" => pc'[u] = pc[u] /\ hand'[u] = hand[u]
    BY <1>1
  <1>16. /\ alive' \in SUBSET Task /\ parent' \in [Task -> Task \cup {NULL}]
         /\ pc' \in [Task -> {"user", "opening", "alloc", "install", "undo", "reading"}]
         /\ hand' \in [Task -> OpenFile \cup VfsNode \cup {NULL}]
    BY <1>0, <1>1
  <1> QED BY <1>3, <1>4, <1>6, <1>7, <1>8, <1>11, <1>12, <1>13, <1>14, <1>15, <1>16, CloseKeeps

(* sys_dup.                                                                *)
LEMMA DupKeeps ==
  ASSUME FilesInv, NEW t \in Task, Dup(t) PROVE FilesInv'
  <1>1. t \in alive /\ pc[t] = "user" /\ FreeFd(t) # {} /\ UNCHANGED <<tasks, where>>
    BY DEF Dup, Calls
  <1>2. Lowest(FreeFd(t)) \in Fd
    BY <1>1, LowestExists DEF FreeFd
  <1>3. PICK j \in Fd : j = Lowest(FreeFd(t))
    BY <1>2
  <1>4. PICK i \in Fd : Duplicate(t, i, j)
    BY <1>3 DEF Dup
  <1> QED BY <1>1, <1>4, DuplicateKeeps

(* sys_dup2.                                                               *)
LEMMA Dup2Keeps ==
  ASSUME FilesInv, NEW t \in Task, Dup2(t) PROVE FilesInv'
  <1>1. t \in alive /\ pc[t] = "user" /\ UNCHANGED <<tasks, where>>
    BY DEF Dup2, Calls
  <1>2. PICK i \in Fd, j \in Fd : Duplicate(t, i, j)
    BY DEF Dup2
  <1> QED BY <1>1, <1>2, DuplicateKeeps

-----------------------------------------------------------------------------
(***************************************************************************)
(* Opening files, and the tmpfs tree.                                      *)
(***************************************************************************)

At == {"user", "opening", "alloc", "install", "undo", "reading"}

(* Where t is afterwards, and whether it is on its way to open n.          *)
LEMMA GoesFacts ==
  ASSUME FilesInv, NEW t \in Task, NEW at \in At, NEW what \in OpenFile \cup VfsNode \cup {NULL},
         Goes(t, at, what)
  PROVE  /\ pc' \in [Task -> At] /\ hand' \in [Task -> OpenFile \cup VfsNode \cup {NULL}]
         /\ pc'[t] = at /\ hand'[t] = what
         /\ \A u \in Task : u # t => pc'[u] = pc[u] /\ hand'[u] = hand[u]
         /\ \A n \in VfsNode : Opening(n)' = IF at \in {"alloc", "undo"} /\ what = n
                                          THEN Opening(n) \cup {t} ELSE Opening(n) \ {t}
         /\ ConsoleOpens' = IF at = "opening" \/ (at \in {"alloc", "undo"} /\ what = Console)
                            THEN ConsoleOpens \cup {t} ELSE ConsoleOpens \ {t}
  <1>1. pc \in [Task -> At] /\ hand \in [Task -> OpenFile \cup VfsNode \cup {NULL}]
    BY DEF FilesInv, FTypeOK, At
  <1>2. /\ pc' \in [Task -> At] /\ hand' \in [Task -> OpenFile \cup VfsNode \cup {NULL}]
        /\ pc'[t] = at /\ hand'[t] = what
        /\ \A u \in Task : u # t => pc'[u] = pc[u] /\ hand'[u] = hand[u]
    BY <1>1 DEF Goes
  <1>3. \A n \in VfsNode : Opening(n)' = IF at \in {"alloc", "undo"} /\ what = n
                                      THEN Opening(n) \cup {t} ELSE Opening(n) \ {t}
    BY <1>2 DEF Opening
  <1>4. {u \in Task : pc'[u] = "opening"} =
          IF at = "opening" THEN {u \in Task : pc[u] = "opening"} \cup {t}
                            ELSE {u \in Task : pc[u] = "opening"} \ {t}
    BY <1>2
  <1>5. Console \in VfsNode
    BY DEF VfsNode
  <1>6. Opening(Console)' = IF at \in {"alloc", "undo"} /\ what = Console
                            THEN Opening(Console) \cup {t} ELSE Opening(Console) \ {t}
    BY <1>3, <1>5
  <1>7. ConsoleOpens' = {u \in Task : pc'[u] = "opening"} \cup Opening(Console)'
    BY DEF ConsoleOpens
  <1>8. ConsoleOpens' = IF at = "opening" \/ (at \in {"alloc", "undo"} /\ what = Console)
                        THEN ConsoleOpens \cup {t} ELSE ConsoleOpens \ {t}
    <2> DEFINE A == {u \in Task : pc[u] = "opening"}
    <2>1. ConsoleOpens = A \cup Opening(Console)
      BY DEF ConsoleOpens
    <2>2. CASE at = "opening"
      <3>1. {u \in Task : pc'[u] = "opening"} = A \cup {t}
        BY <1>4, <2>2
      <3>2. Opening(Console)' = Opening(Console) \ {t}
        BY <1>6, <2>2
      <3> HIDE DEF A
      <3> QED BY <1>7, <2>1, <2>2, <3>1, <3>2
    <2>3. CASE at # "opening"
      <3>1. {u \in Task : pc'[u] = "opening"} = A \ {t}
        BY <1>4, <2>3
      <3> HIDE DEF A
      <3> QED BY <1>6, <1>7, <2>1, <2>3, <3>1
    <2> QED BY <2>2, <2>3
  <1> QED BY <1>2, <1>3, <1>8

(* A step that leaves descriptors and open files alone.                    *)
LEMMA NodeStep ==
  ASSUME FilesInv, UNCHANGED <<tasks, fd_table, refs>>,
         kind' \in [VfsNode -> {"free", "file", "dir", "device"}], node_refs' \in [VfsNode -> Nat],
         is_unlinked' \in [VfsNode -> BOOLEAN], entries' \in [VfsNode -> [Name -> Inode \cup {NULL}]],
         console_open_count' \in 0..1,
         pc' \in [Task -> At], hand' \in [Task -> OpenFile \cup VfsNode \cup {NULL}],
         \A n \in VfsNode : kind[n] # "free" /\ (Opens(n) # {} \/ Opening(n) # {})
                           => kind'[n] # "free",
         NodesAreSound', TreeIsSound', ConsoleOnce', NodeRefsCoverOpens',
         NEW t \in alive, pc'[t] # "install",
         \A u \in Task : u # t => pc'[u] = pc[u] /\ hand'[u] = hand[u],
         pc'[t] = "reading" => hand'[t] \in OpenFile /\ \E i \in Fd : fd_table[t][i] = hand'[t],
         pc'[t] = "opening" => hand'[t] = Console,
         pc'[t] \in {"alloc", "undo"} => hand'[t] \in VfsNode /\ kind'[hand'[t]] # "free"
  PROVE  FilesInv'
  <1>1. alive' = alive /\ parent' = parent /\ fd_table' = fd_table
        /\ of_node' = of_node /\ of_refs' = of_refs
    BY DEF tasks, refs
  <1>2. alive \in SUBSET Task
    BY DEF FilesInv, FTypeOK
  <1>3. FTypeOK'
    BY <1>1 DEF FilesInv, FTypeOK, At
  <1>4. AtRest'
    BY <1>1, <1>2 DEF FilesInv, AtRest
  <1>5. OpenFilesAreCounted'
    <2>1. \A f \in OpenFile : Holders(f)' = Holders(f)
      BY <1>1 DEF Holders
    <2> QED BY <1>1, <2>1 DEF FilesInv, OpenFilesAreCounted
  <1>6. OpenFilesAreSound'
    <2> SUFFICES ASSUME NEW f \in OpenFile, of_refs[f] > 0
                 PROVE  of_node[f] \in VfsNode /\ kind'[of_node[f]] # "free"
      BY <1>1 DEF OpenFilesAreSound
    <2>1. of_node[f] \in VfsNode /\ kind[of_node[f]] # "free"
      BY DEF FilesInv, OpenFilesAreSound
    <2>2. Opens(of_node[f]) # {}
      BY DEF Opens
    <2> QED BY <2>1, <2>2
  <1>7. HandsAreSound'
    <2> SUFFICES ASSUME NEW u \in Task
                 PROVE  /\ pc'[u] = "install" =>
                             /\ hand'[u] \in OpenFile /\ of_refs[hand'[u]] = 1
                             /\ Holders(hand'[u]) = {}
                             /\ \A v \in Task : pc'[v] = "install" /\ hand'[v] = hand'[u] => v = u
                        /\ pc'[u] = "reading" =>
                             hand'[u] \in OpenFile /\ \E i \in Fd : fd_table[u][i] = hand'[u]
                        /\ pc'[u] = "opening" => hand'[u] = Console
                        /\ pc'[u] \in {"alloc", "undo"} =>
                             hand'[u] \in VfsNode /\ kind'[hand'[u]] # "free"
      BY <1>1 DEF HandsAreSound, Holders
    <2>1. CASE u = t
      BY <2>1
    <2>2. CASE u # t
      <3>1. /\ pc[u] = "install" =>
                 /\ hand[u] \in OpenFile /\ of_refs[hand[u]] = 1 /\ Holders(hand[u]) = {}
                 /\ \A v \in Task : pc[v] = "install" /\ hand[v] = hand[u] => v = u
            /\ pc[u] = "reading" => hand[u] \in OpenFile /\ \E i \in Fd : fd_table[u][i] = hand[u]
            /\ pc[u] = "opening" => hand[u] = Console
            /\ pc[u] \in {"alloc", "undo"} => hand[u] \in VfsNode /\ kind[hand[u]] # "free"
        BY DEF FilesInv, HandsAreSound
      <3>2. pc[u] \in {"alloc", "undo"} => u \in Opening(hand[u])
        BY DEF Opening
      <3>3. pc'[u] = pc[u] /\ hand'[u] = hand[u]
        BY <2>2
      <3>4. pc[u] \in {"alloc", "undo"} => kind'[hand[u]] # "free"
        BY <3>1, <3>2
      <3>5. \A v \in Task : pc'[v] = "install" => pc[v] = "install" /\ hand'[v] = hand[v]
        OBVIOUS
      <3> QED BY <3>1, <3>3, <3>4, <3>5
    <2> QED BY <2>1, <2>2
  <1> QED BY <1>3, <1>4, <1>5, <1>6, <1>7 DEF FilesInv

(* What a step of NodeStep needs of the variables it leaves alone.         *)
LEMMA NodeTypes ==
  ASSUME FilesInv
  PROVE  /\ alive \in SUBSET Task /\ fd_table \in [Task -> [Fd -> OpenFile \cup {NULL}]]
         /\ kind \in [VfsNode -> {"free", "file", "dir", "device"}] /\ node_refs \in [VfsNode -> Nat]
         /\ is_unlinked \in [VfsNode -> BOOLEAN] /\ entries \in [VfsNode -> [Name -> Inode \cup {NULL}]]
         /\ console_open_count \in 0..1
         /\ pc \in [Task -> At] /\ hand \in [Task -> OpenFile \cup VfsNode \cup {NULL}]
  BY DEF FilesInv, FTypeOK, At

(* The tree and the console count with inodes unchanged.                   *)
LEMMA InodesStay ==
  ASSUME FilesInv, UNCHANGED inodes
  PROVE  NodesAreSound' /\ TreeIsSound'
  <1>1. kind' = kind /\ is_unlinked' = is_unlinked /\ entries' = entries
    BY DEF inodes
  <1>2. NodesAreSound'
    BY <1>1 DEF FilesInv, NodesAreSound
  <1>3. \A n \in Inode : Held(n)' <=> Held(n)
    BY <1>1 DEF Held
  <1>4. \A n \in VfsNode : n \in Directory => n \in Directory'
    BY <1>1 DEF Directory
  <1> QED BY <1>1, <1>2, <1>3, <1>4, TreeStays DEF FilesInv

(* The console with as many opens as before, or fewer.                     *)
LEMMA ConsoleStays ==
  ASSUME FilesInv, UNCHANGED <<refs, console_open_count>>, ConsoleOpens' \subseteq ConsoleOpens
  PROVE  ConsoleOnce'
  <1>1. Opens(Console)' = Opens(Console) /\ console_open_count' = console_open_count
    BY DEF Opens, refs
  <1>2. /\ Cardinality(ConsoleOpens') <= Cardinality(ConsoleOpens)
        /\ Cardinality(ConsoleOpens') \in Nat /\ Cardinality(ConsoleOpens) \in Nat
    BY FiniteSets, CardLess
  <1>3. Cardinality(Opens(Console)) \in Nat
    BY FiniteSets, CardZero
  <1>4. Cardinality(Opens(Console)) + Cardinality(ConsoleOpens) <= console_open_count
        /\ console_open_count \in Nat
    BY DEF FilesInv, ConsoleOnce, FTypeOK
  <1> QED BY <1>1, <1>2, <1>3, <1>4 DEF ConsoleOnce

(* One more open on its way is one more reference; one that leaves may     *)
(* take its reference along.                                               *)
LEMMA CountKeeps ==
  ASSUME FilesInv, UNCHANGED refs, NEW t \in Task, NEW n \in VfsNode,
         node_refs' \in [VfsNode -> Nat],
         \A m \in VfsNode : m # n => Opening(m)' \subseteq Opening(m) /\ node_refs'[m] >= node_refs[m],
         \/ Opening(n)' \subseteq Opening(n) /\ node_refs'[n] >= node_refs[n]
         \/ Opening(n)' \subseteq Opening(n) \cup {t} /\ node_refs'[n] >= node_refs[n] + 1
         \/ t \in Opening(n) /\ Opening(n)' \subseteq Opening(n) \ {t} /\ node_refs'[n] = node_refs[n] - 1
  PROVE  NodeRefsCoverOpens'
  <1> SUFFICES ASSUME NEW m \in VfsNode
               PROVE  node_refs'[m] >= Cardinality(Opens(m)') + Cardinality(Opening(m)')
    BY DEF NodeRefsCoverOpens
  <1>1. Opens(m)' = Opens(m)
    BY DEF Opens, refs
  <1>2. /\ Cardinality(Opens(m)) \in Nat
        /\ Cardinality(Opening(m)') \in Nat /\ Cardinality(Opening(m)) \in Nat
    BY FiniteSets, CardZero
  <1>3. node_refs[m] >= Cardinality(Opens(m)) + Cardinality(Opening(m)) /\ node_refs[m] \in Nat
        /\ node_refs'[m] \in Nat
    BY DEF FilesInv, NodeRefsCoverOpens, FTypeOK
  <1>4. CASE Opening(m)' \subseteq Opening(m) /\ node_refs'[m] >= node_refs[m]
    <2>1. Cardinality(Opening(m)') <= Cardinality(Opening(m))
      BY <1>4, FiniteSets, CardLess
    <2> QED BY <1>1, <1>2, <1>3, <1>4, <2>1
  <1>5. CASE m = n /\ Opening(n)' \subseteq Opening(n) \cup {t} /\ node_refs'[n] >= node_refs[n] + 1
    <2>0. IsFiniteSet(Opening(m))
      BY FiniteSets
    <2>1. /\ IsFiniteSet(Opening(m) \cup {t}) /\ Cardinality(Opening(m) \cup {t}) \in Nat
          /\ Cardinality(Opening(m) \cup {t}) <= Cardinality(Opening(m)) + 1
      <3>1. CASE t \in Opening(m)
        <4>1. Opening(m) \cup {t} = Opening(m)
          BY <3>1
        <4>2. /\ IsFiniteSet(Opening(m) \cup {t})
              /\ Cardinality(Opening(m) \cup {t}) = Cardinality(Opening(m))
          BY <2>0, <4>1, Zenon
        <4> QED BY <1>2, <4>2
      <3>2. CASE t \notin Opening(m)
        <4>1. IsFiniteSet(Opening(m) \cup {t})
          BY <2>0, FS_AddElement
        <4>2. Cardinality(Opening(m) \cup {t}) = Cardinality(Opening(m)) + 1
          BY <2>0, <3>2, CardPlus
        <4> QED BY <1>2, <4>1, <4>2
      <3> QED BY <3>1, <3>2
    <2>2. Cardinality(Opening(m)') <= Cardinality(Opening(m) \cup {t})
      BY <1>5, <2>1, CardLess
    <2> QED BY <1>1, <1>2, <1>3, <1>5, <2>1, <2>2
  <1>6. CASE /\ m = n /\ t \in Opening(n) /\ Opening(n)' \subseteq Opening(n) \ {t}
             /\ node_refs'[n] = node_refs[n] - 1
    <2>1. /\ IsFiniteSet(Opening(m) \ {t}) /\ Cardinality(Opening(m) \ {t}) \in Nat
          /\ Cardinality(Opening(m) \ {t}) = Cardinality(Opening(m)) - 1
      BY <1>2, <1>6, FiniteSets, FS_RemoveElement, CardZero
    <2>2. Cardinality(Opening(m)') <= Cardinality(Opening(m) \ {t})
      BY <1>6, <2>1, CardLess
    <2> QED BY <1>1, <1>2, <1>3, <1>6, <2>1, <2>2
  <1> QED BY <1>4, <1>5, <1>6

(* A node made at the end of a path: its block was in no directory.        *)
LEMMA CreateFacts ==
  ASSUME FilesInv, NEW d \in Directory, NEW x \in Name, NEW n \in Inode,
         NEW k \in {"file", "dir"}, Create(d, x, k, n)
  PROVE  /\ kind' \in [VfsNode -> {"free", "file", "dir", "device"}]
         /\ is_unlinked' \in [VfsNode -> BOOLEAN]
         /\ entries' \in [VfsNode -> [Name -> Inode \cup {NULL}]]
         /\ \A m \in VfsNode : kind[m] # "free" => kind'[m] # "free"
         /\ kind'[n] # "free"
         /\ NodesAreSound' /\ TreeIsSound'
  <1>0. /\ kind \in [VfsNode -> {"free", "file", "dir", "device"}]
        /\ is_unlinked \in [VfsNode -> BOOLEAN] /\ entries \in [VfsNode -> [Name -> Inode \cup {NULL}]]
    BY NodeTypes
  <1>1. d \in VfsNode /\ n \in VfsNode /\ n # Tmp /\ n # Console /\ n # NULL
    BY FilesAssumption DEF Directory, VfsNode
  <1>2. /\ kind[n] = "free" /\ entries[d][x] = NULL /\ is_unlinked' = is_unlinked
        /\ kind' = [kind EXCEPT ![n] = k] /\ entries' = [entries EXCEPT ![d][x] = n]
    BY DEF Create
  <1>3. \A m \in VfsNode : kind'[m] = IF m = n THEN k ELSE kind[m]
    BY <1>0, <1>1, <1>2
  <1>4. \A m \in VfsNode, y \in Name :
          entries'[m][y] = IF m = d /\ y = x THEN n ELSE entries[m][y]
    BY <1>0, <1>1, <1>2
  <1>5. /\ kind' \in [VfsNode -> {"free", "file", "dir", "device"}]
        /\ is_unlinked' \in [VfsNode -> BOOLEAN]
    BY <1>0, <1>1, <1>2
  <1>6. entries' \in [VfsNode -> [Name -> Inode \cup {NULL}]]
    BY <1>0, <1>1, <1>2
  <1>7. ~is_unlinked[n]
    BY <1>1, <1>2 DEF FilesInv, NodesAreSound
  <1>8. NodesAreSound'
    BY <1>1, <1>2, <1>3, <1>7 DEF FilesInv, NodesAreSound
  <1>9. \A p \in VfsNode \X Name :
          entries'[p[1]][p[2]] = IF p = <<d, x>> THEN n ELSE entries[p[1]][p[2]]
    <2> TAKE p \in VfsNode \X Name
    <2>1. PICK m \in VfsNode, y \in Name : p[1] = m /\ p[2] = y /\ (p = <<d, x>> <=> m = d /\ y = x)
      OBVIOUS
    <2>2. entries'[m][y] = IF m = d /\ y = x THEN n ELSE entries[m][y]
      BY <1>4
    <2> QED BY <2>1, <2>2
  <1>10. <<d, x>> \in VfsNode \X Name /\ entries[<<d, x>>[1]][<<d, x>>[2]] = NULL
    BY <1>1, <1>2
  <1>11. ~Held(n) /\ n \notin Directory
    BY <1>2 DEF Held, Directory
  <1>12. Places(n) = {} /\ entries[n] = NoEntry
    BY <1>1, <1>11 DEF FilesInv, TreeIsSound
  <1>13. Places(n)' = {<<d, x>>}
    <2>1. \A p \in VfsNode \X Name : entries[p[1]][p[2]] # n
      BY <1>12 DEF Places
    <2>2. \A p \in VfsNode \X Name : entries'[p[1]][p[2]] = n <=> p = <<d, x>>
      BY <1>9, <2>1
    <2> QED BY <1>10, <2>2 DEF Places
  <1>14. \A m \in Inode : m # n => Places(m)' = Places(m)
    <2> SUFFICES ASSUME NEW m \in Inode, m # n PROVE Places(m)' = Places(m)
      OBVIOUS
    <2>1. m # NULL
      BY FilesAssumption
    <2>2. \A p \in VfsNode \X Name : entries'[p[1]][p[2]] = m <=> entries[p[1]][p[2]] = m
      BY <1>9, <1>10, <2>1
    <2> QED BY <2>2 DEF Places
  <1>15. TreeIsSound'
    <2>1. \A m \in Inode : IF Held(m)' THEN \E p \in VfsNode \X Name : Places(m)' = {p}
                                    ELSE Places(m)' = {}
      <3> SUFFICES ASSUME NEW m \in Inode
                   PROVE  IF Held(m)' THEN \E p \in VfsNode \X Name : Places(m)' = {p}
                                      ELSE Places(m)' = {}
        OBVIOUS
      <3>1. CASE m = n
        <4>1. Held(n)'
          BY <1>1, <1>2, <1>3, <1>7 DEF Held
        <4>2. \E p \in VfsNode \X Name : Places(n)' = {p}
          BY <1>10, <1>13
        <4>3. Places(m)' = Places(n)' /\ (Held(m)' <=> Held(n)')
          BY <3>1
        <4> QED BY <4>1, <4>2, <4>3
      <3>2. CASE m # n
        <4>1. m \in VfsNode
          BY DEF VfsNode
        <4>2. Held(m)' <=> Held(m)
          BY <1>2, <1>3, <3>2, <4>1 DEF Held
        <4>3. Places(m)' = Places(m)
          BY <1>14, <3>2
        <4>4. IF Held(m) THEN \E p \in VfsNode \X Name : Places(m) = {p} ELSE Places(m) = {}
          BY DEF FilesInv, TreeIsSound
        <4> QED BY <4>2, <4>3, <4>4
      <3> QED BY <3>1, <3>2
    <2>2. \A m \in VfsNode : m \notin Directory' => entries'[m] = NoEntry
      <3> SUFFICES ASSUME NEW m \in VfsNode, m \notin Directory' PROVE entries'[m] = NoEntry
        OBVIOUS
      <3>1. m \notin Directory
        BY <1>2, <1>3, <1>11 DEF Directory
      <3>2. entries[m] = NoEntry /\ m # d
        BY <3>1 DEF FilesInv, TreeIsSound
      <3> QED BY <1>0, <1>1, <1>2, <3>2
    <2> QED BY <2>1, <2>2 DEF TreeIsSound
  <1> QED BY <1>1, <1>3, <1>5, <1>6, <1>8, <1>15

(* sys_open of a path in the tmpfs, with or without O_CREAT.               *)
LEMMA OpenNodeKeeps ==
  ASSUME FilesInv, NEW t \in Task, OpenNode(t) PROVE FilesInv'
  <1>1. /\ t \in alive /\ pc[t] = "user" /\ UNCHANGED <<tasks, fd_table, refs, console_open_count>>
    BY DEF OpenNode, Calls
  <1>2. PICK d \in Directory, x \in Name, n \in Inode :
          /\ \/ entries[d][x] = n /\ UNCHANGED inodes
             \/ Create(d, x, "file", n)
          /\ node_refs' = Grabbed(n) /\ Goes(t, "alloc", n)
    BY DEF OpenNode
  <1>3. n \in VfsNode /\ n # Console /\ d \in VfsNode /\ "alloc" \in At /\ n \in OpenFile \cup VfsNode \cup {NULL}
    BY FilesAssumption DEF VfsNode, Directory, At
  <1>4. /\ pc' \in [Task -> At] /\ hand' \in [Task -> OpenFile \cup VfsNode \cup {NULL}]
        /\ pc'[t] = "alloc" /\ hand'[t] = n
        /\ \A u \in Task : u # t => pc'[u] = pc[u] /\ hand'[u] = hand[u]
        /\ \A m \in VfsNode : Opening(m)' = IF n = m THEN Opening(m) \cup {t} ELSE Opening(m) \ {t}
        /\ ConsoleOpens' = ConsoleOpens \ {t}
    BY <1>2, <1>3, GoesFacts
  <1>5. node_refs \in [VfsNode -> Nat]
    BY NodeTypes
  <1>6. node_refs' \in [VfsNode -> Nat] /\ node_refs'[n] = node_refs[n] + 1
        /\ \A m \in VfsNode : m # n => node_refs'[m] = node_refs[m]
    BY <1>2, <1>3, <1>5 DEF Grabbed
  <1>7. NodeRefsCoverOpens'
    <2>1. \A m \in VfsNode : m # n => Opening(m)' \subseteq Opening(m) /\ node_refs'[m] >= node_refs[m]
      BY <1>4, <1>5, <1>6
    <2>2. Opening(n)' \subseteq Opening(n) \cup {t} /\ node_refs'[n] >= node_refs[n] + 1
      BY <1>3, <1>4, <1>5, <1>6
    <2> QED BY <1>1, <1>3, <1>6, <2>1, <2>2, CountKeeps
  <1>8. ConsoleOnce'
    BY <1>1, <1>4, ConsoleStays
  <1>9. /\ kind' \in [VfsNode -> {"free", "file", "dir", "device"}]
        /\ is_unlinked' \in [VfsNode -> BOOLEAN]
        /\ entries' \in [VfsNode -> [Name -> Inode \cup {NULL}]]
        /\ \A m \in VfsNode : kind[m] # "free" => kind'[m] # "free"
        /\ kind'[n] # "free"
        /\ NodesAreSound' /\ TreeIsSound'
    <2>1. CASE Create(d, x, "file", n)
      BY <2>1, CreateFacts
    <2>2. CASE entries[d][x] = n /\ UNCHANGED inodes
      <3>1. <<d, x>> \in Places(n)
        BY <1>3, <2>2 DEF Places
      <3>2. Held(n)
        BY <3>1 DEF FilesInv, TreeIsSound
      <3>3. kind' = kind /\ is_unlinked' = is_unlinked /\ entries' = entries
        BY <2>2 DEF inodes
      <3>4. NodesAreSound' /\ TreeIsSound'
        BY <2>2, InodesStay
      <3> QED BY <3>2, <3>3, <3>4, NodeTypes DEF Held
    <2> QED BY <1>2, <2>1, <2>2
  <1>10. console_open_count' \in 0..1
    BY <1>1, NodeTypes
  <1> QED BY <1>1, <1>3, <1>4, <1>6, <1>7, <1>8, <1>9, <1>10, NodeStep

(* sys_mkdir.                                                              *)
LEMMA MkdirKeeps ==
  ASSUME FilesInv, NEW t \in Task, Mkdir(t) PROVE FilesInv'
  <1>1. /\ t \in alive /\ pc[t] = "user"
        /\ UNCHANGED <<tasks, fd_table, refs, node_refs, console_open_count, where>>
    BY DEF Mkdir, Calls
  <1>2. PICK d \in Directory, x \in Name, n \in Inode : Create(d, x, "dir", n)
    BY DEF Mkdir
  <1>3. /\ kind' \in [VfsNode -> {"free", "file", "dir", "device"}]
        /\ is_unlinked' \in [VfsNode -> BOOLEAN]
        /\ entries' \in [VfsNode -> [Name -> Inode \cup {NULL}]]
        /\ \A m \in VfsNode : kind[m] # "free" => kind'[m] # "free"
        /\ NodesAreSound' /\ TreeIsSound'
    BY <1>2, CreateFacts
  <1>4. pc' = pc /\ hand' = hand /\ node_refs' = node_refs
    BY <1>1 DEF where
  <1>5. ConsoleOpens' = ConsoleOpens /\ \A m \in VfsNode : Opening(m)' = Opening(m)
    BY <1>4 DEF ConsoleOpens, Opening
  <1>6. ConsoleOnce'
    BY <1>1, <1>5, ConsoleStays
  <1>7. NodeRefsCoverOpens'
    <2>1. \A m \in VfsNode : Opening(m)' \subseteq Opening(m) /\ node_refs'[m] >= node_refs[m]
      BY <1>4, <1>5, NodeTypes
    <2>2. node_refs' \in [VfsNode -> Nat] /\ Console \in VfsNode
      BY <1>4, NodeTypes DEF VfsNode
    <2> QED BY <1>1, <2>1, <2>2, CountKeeps
  <1>8. /\ console_open_count' \in 0..1 /\ node_refs' \in [VfsNode -> Nat]
        /\ pc' \in [Task -> At] /\ hand' \in [Task -> OpenFile \cup VfsNode \cup {NULL}]
    BY <1>1, <1>4, NodeTypes
  <1>9. pc'[t] = "user" /\ \A u \in Task : pc'[u] = pc[u] /\ hand'[u] = hand[u]
    BY <1>1, <1>4
  <1> QED BY <1>1, <1>3, <1>6, <1>7, <1>8, <1>9, NodeStep

(* The steps of a call that leave the inodes and the count of the console: *)
(* what it counts is told by CountKeeps.                                   *)
LEMMA CallStep ==
  ASSUME FilesInv, NEW t \in alive, NEW at \in At, NEW what \in OpenFile \cup VfsNode \cup {NULL},
         Goes(t, at, what), UNCHANGED <<tasks, fd_table, refs, inodes>>,
         console_open_count' \in 0..1, node_refs' \in [VfsNode -> Nat],
         ConsoleOnce', NodeRefsCoverOpens', at # "install",
         at = "reading" => what \in OpenFile /\ \E i \in Fd : fd_table[t][i] = what,
         at = "opening" => what = Console,
         at \in {"alloc", "undo"} => what \in VfsNode /\ kind[what] # "free"
  PROVE  FilesInv'
  <1>1. t \in Task
    BY NodeTypes
  <1>2. /\ pc' \in [Task -> At] /\ hand' \in [Task -> OpenFile \cup VfsNode \cup {NULL}]
        /\ pc'[t] = at /\ hand'[t] = what
        /\ \A u \in Task : u # t => pc'[u] = pc[u] /\ hand'[u] = hand[u]
    BY <1>1, GoesFacts
  <1>3. NodesAreSound' /\ TreeIsSound'
    BY InodesStay
  <1>4. kind' = kind /\ is_unlinked' = is_unlinked /\ entries' = entries
    BY DEF inodes
  <1>5. /\ kind' \in [VfsNode -> {"free", "file", "dir", "device"}]
        /\ is_unlinked' \in [VfsNode -> BOOLEAN] /\ entries' \in [VfsNode -> [Name -> Inode \cup {NULL}]]
    BY <1>4, NodeTypes
  <1>6. \A n \in VfsNode : kind[n] # "free" => kind'[n] # "free"
    BY <1>4
  <1>7. pc'[t] \in {"alloc", "undo"} => hand'[t] \in VfsNode /\ kind'[hand'[t]] # "free"
    BY <1>2, <1>4
  <1> QED BY <1>2, <1>3, <1>5, <1>6, <1>7, NodeStep

(* devfs_console_open: nobody has the console open or is opening it.       *)
LEMMA OpenConsoleKeeps ==
  ASSUME FilesInv, NEW t \in Task, OpenConsole(t) PROVE FilesInv'
  <1>1. /\ t \in alive /\ pc[t] = "user" /\ console_open_count = 0
        /\ console_open_count' = console_open_count + 1
        /\ Goes(t, "opening", Console)
        /\ UNCHANGED <<tasks, fd_table, refs, inodes, node_refs>>
    BY DEF OpenConsole, Calls, ConsoleCloses
  <1>2. Console \in VfsNode /\ Console \in OpenFile \cup VfsNode \cup {NULL} /\ "opening" \in At
    BY DEF VfsNode, At
  <1>3. /\ ConsoleOpens' = ConsoleOpens \cup {t}
        /\ \A m \in VfsNode : Opening(m)' = Opening(m) \ {t}
    BY <1>1, <1>2, GoesFacts
  <1>4. node_refs \in [VfsNode -> Nat] /\ node_refs' = node_refs
    BY <1>1, NodeTypes
  <1>5. NodeRefsCoverOpens'
    <2>1. \A m \in VfsNode : Opening(m)' \subseteq Opening(m) /\ node_refs'[m] >= node_refs[m]
      BY <1>3, <1>4
    <2> QED BY <1>1, <1>2, <1>4, <2>1, CountKeeps
  <1>6. ConsoleOnce'
    <2>1. /\ Cardinality(Opens(Console)) \in Nat /\ Cardinality(ConsoleOpens) \in Nat
          /\ Cardinality(Opens(Console)) = 0 <=> Opens(Console) = {}
          /\ Cardinality(ConsoleOpens) = 0 <=> ConsoleOpens = {}
      BY FiniteSets, CardZero
    <2>2. Cardinality(Opens(Console)) + Cardinality(ConsoleOpens) <= 0
      BY <1>1 DEF FilesInv, ConsoleOnce
    <2>3. Opens(Console) = {} /\ ConsoleOpens = {}
      BY <2>1, <2>2
    <2>4. Opens(Console)' = {} /\ ConsoleOpens' = {t}
      BY <1>1, <1>3, <2>3 DEF Opens, refs
    <2>5. Cardinality(Opens(Console)') = 0 /\ Cardinality(ConsoleOpens') = 1
      BY <2>4, FS_EmptySet, FS_Singleton
    <2> QED BY <1>1, <2>5 DEF ConsoleOnce
  <1>7. console_open_count' \in 0..1
    BY <1>1
  <1> QED BY <1>1, <1>2, <1>4, <1>5, <1>6, <1>7, CallStep

(* sys_open of /dev/console goes on behind the callback.                   *)
LEMMA CountConsoleKeeps ==
  ASSUME FilesInv, NEW t \in Task, CountConsole(t) PROVE FilesInv'
  <1>1. /\ t \in alive /\ pc[t] = "opening" /\ node_refs' = Grabbed(Console)
        /\ Goes(t, "alloc", Console)
        /\ UNCHANGED <<tasks, fd_table, refs, inodes, console_open_count>>
    BY DEF CountConsole
  <1>2. Console \in VfsNode /\ Console \in OpenFile \cup VfsNode \cup {NULL} /\ "alloc" \in At
    BY DEF VfsNode, At
  <1>3. /\ ConsoleOpens' = ConsoleOpens \cup {t} /\ t \in ConsoleOpens
        /\ \A m \in VfsNode : Opening(m)' = IF Console = m THEN Opening(m) \cup {t}
                                         ELSE Opening(m) \ {t}
    BY <1>1, <1>2, GoesFacts DEF ConsoleOpens
  <1>4. node_refs \in [VfsNode -> Nat] /\ console_open_count \in 0..1
    BY NodeTypes
  <1>5. node_refs' \in [VfsNode -> Nat] /\ node_refs'[Console] = node_refs[Console] + 1
        /\ \A m \in VfsNode : m # Console => node_refs'[m] = node_refs[m]
    BY <1>1, <1>2, <1>4 DEF Grabbed
  <1>6. NodeRefsCoverOpens'
    <2>1. \A m \in VfsNode : m # Console =>
            Opening(m)' \subseteq Opening(m) /\ node_refs'[m] >= node_refs[m]
      BY <1>3, <1>4, <1>5
    <2>2. /\ Opening(Console)' \subseteq Opening(Console) \cup {t}
          /\ node_refs'[Console] >= node_refs[Console] + 1
      BY <1>2, <1>3, <1>4, <1>5
    <2> QED BY <1>1, <1>2, <1>5, <2>1, <2>2, CountKeeps
  <1>7. ConsoleOnce'
    BY <1>1, <1>3, ConsoleStays
  <1>8. kind[Console] # "free"
    BY DEF FilesInv, NodesAreSound
  <1>9. console_open_count' \in 0..1
    BY <1>1, <1>4
  <1> QED BY <1>1, <1>2, <1>5, <1>6, <1>7, <1>8, <1>9, CallStep

(* sys_open that found no memory or no descriptor.                         *)
LEMMA OpenUndoKeeps ==
  ASSUME FilesInv, NEW t \in Task, OpenUndo(t) PROVE FilesInv'
  <1>1. /\ t \in alive /\ pc[t] = "undo" /\ Goes(t, "user", NULL)
        /\ node_refs' = [node_refs EXCEPT ![hand[t]] = @ - 1]
        /\ UNCHANGED <<tasks, fd_table, refs, inodes, console_open_count>>
    BY DEF OpenUndo
  <1>2. PICK n \in VfsNode : n = hand[t]
    BY <1>1 DEF FilesInv, HandsAreSound
  <1>3. t \in Opening(n) /\ "user" \in At /\ NULL \in OpenFile \cup VfsNode \cup {NULL}
    BY <1>1, <1>2 DEF Opening, At
  <1>4. /\ ConsoleOpens' = ConsoleOpens \ {t}
        /\ \A m \in VfsNode : Opening(m)' = Opening(m) \ {t}
    BY <1>1, <1>3, GoesFacts
  <1>5. node_refs \in [VfsNode -> Nat] /\ console_open_count \in 0..1
    BY NodeTypes
  <1>6. node_refs[n] - 1 \in Nat
    <2>1. node_refs[n] >= Cardinality(Opens(n)) + Cardinality(Opening(n))
      BY DEF FilesInv, NodeRefsCoverOpens
    <2>2. Cardinality(Opens(n)) \in Nat /\ Cardinality(Opening(n)) \in Nat
          /\ Cardinality(Opening(n)) # 0
      BY <1>3, FiniteSets, CardZero
    <2> QED BY <1>5, <2>1, <2>2
  <1>7. /\ node_refs' \in [VfsNode -> Nat] /\ node_refs'[n] = node_refs[n] - 1
        /\ \A m \in VfsNode : m # n => node_refs'[m] = node_refs[m]
    BY <1>1, <1>2, <1>5, <1>6
  <1>8. NodeRefsCoverOpens'
    <2>1. \A m \in VfsNode : m # n => Opening(m)' \subseteq Opening(m) /\ node_refs'[m] >= node_refs[m]
      BY <1>4, <1>5, <1>7
    <2>2. Opening(n)' \subseteq Opening(n) \ {t}
      BY <1>4
    <2> QED BY <1>1, <1>3, <1>7, <2>1, <2>2, CountKeeps
  <1>9. ConsoleOnce'
    BY <1>1, <1>4, ConsoleStays
  <1>10. console_open_count' \in 0..1
    BY <1>1, <1>5
  <1> QED BY <1>1, <1>3, <1>7, <1>8, <1>9, <1>10, CallStep

(* A console read that begins, or returns.                                 *)
LEMMA ReadKeeps ==
  ASSUME FilesInv, NEW t \in Task, ReadConsole(t) \/ ReadReturns(t) PROVE FilesInv'
  <1>1. /\ t \in alive
        /\ UNCHANGED <<tasks, fd_table, refs, inodes, node_refs, console_open_count>>
    BY DEF ReadConsole, ReadReturns, Calls
  <1>2. fd_table \in [Task -> [Fd -> OpenFile \cup {NULL}]] /\ "user" \in At /\ "reading" \in At
    BY NodeTypes DEF At
  <1>3. PICK at \in {"user", "reading"}, what \in OpenFile \cup {NULL} :
          /\ Goes(t, at, what)
          /\ at = "reading" => what \in OpenFile /\ \E i \in Fd : fd_table[t][i] = what
    <2>1. CASE ReadConsole(t)
      <3>1. PICK i \in Fd : fd_table[t][i] # NULL /\ Goes(t, "reading", fd_table[t][i])
        BY <2>1 DEF ReadConsole
      <3>2. fd_table[t][i] \in OpenFile
        BY <1>2, <3>1
      <3> QED BY <3>1, <3>2
    <2>2. CASE ReadReturns(t)
      BY <2>2 DEF ReadReturns
    <2> QED BY <2>1, <2>2
  <1>4. at \in At /\ what \in OpenFile \cup VfsNode \cup {NULL} /\ Console \in VfsNode
    BY <1>2 DEF VfsNode
  <1>5. ConsoleOpens' \subseteq ConsoleOpens /\ \A m \in VfsNode : Opening(m)' \subseteq Opening(m)
    BY <1>3, <1>4, GoesFacts
  <1>6. ConsoleOnce'
    BY <1>1, <1>5, ConsoleStays
  <1>7. node_refs' = node_refs /\ node_refs \in [VfsNode -> Nat] /\ console_open_count' \in 0..1
    BY <1>1, NodeTypes
  <1>8. NodeRefsCoverOpens'
    <2>1. \A m \in VfsNode : Opening(m)' \subseteq Opening(m) /\ node_refs'[m] >= node_refs[m]
      BY <1>5, <1>7
    <2> QED BY <1>1, <1>4, <1>7, <2>1, CountKeeps
  <1> QED BY <1>1, <1>3, <1>4, <1>6, <1>7, <1>8, CallStep

(* An inode that is open, or will be, has references.                      *)
LEMMA ReferencesArePositive ==
  ASSUME FilesInv, NEW n \in VfsNode, Opens(n) # {} \/ Opening(n) # {}
  PROVE  node_refs[n] # 0
  <1>1. node_refs[n] >= Cardinality(Opens(n)) + Cardinality(Opening(n)) /\ node_refs[n] \in Nat
    BY NodeTypes DEF FilesInv, NodeRefsCoverOpens
  <1>2. /\ Cardinality(Opens(n)) \in Nat /\ Cardinality(Opening(n)) \in Nat
        /\ Cardinality(Opens(n)) = 0 <=> Opens(n) = {}
        /\ Cardinality(Opening(n)) = 0 <=> Opening(n) = {}
    BY FiniteSets, CardZero
  <1> QED BY <1>1, <1>2

(* sys_unlink: the node leaves the tree, and goes at once if nobody has it.*)
LEMMA UnlinkKeeps ==
  ASSUME FilesInv, NEW t \in Task, Unlink(t) PROVE FilesInv'
  <1>0. /\ kind \in [VfsNode -> {"free", "file", "dir", "device"}] /\ node_refs \in [VfsNode -> Nat]
        /\ is_unlinked \in [VfsNode -> BOOLEAN] /\ entries \in [VfsNode -> [Name -> Inode \cup {NULL}]]
        /\ console_open_count \in 0..1
        /\ pc \in [Task -> At] /\ hand \in [Task -> OpenFile \cup VfsNode \cup {NULL}]
    BY NodeTypes
  <1>1. /\ t \in alive /\ pc[t] = "user"
        /\ UNCHANGED <<tasks, fd_table, refs, node_refs, console_open_count, where>>
    BY DEF Unlink, Calls
  <1>2. PICK d \in Directory, x \in Name, n \in Inode :
          /\ n = entries[d][x] /\ Removable(n)
          /\ entries' = [entries EXCEPT ![d][x] = NULL]
          /\ is_unlinked' = [is_unlinked EXCEPT ![n] = ~Unreferenced(n)]
          /\ kind' = [kind EXCEPT ![n] = IF Unreferenced(n) THEN "free" ELSE @]
    <2>1. PICK d \in Directory, x \in Name :
            /\ entries[d][x] # NULL /\ Removable(entries[d][x])
            /\ entries' = [entries EXCEPT ![d][x] = NULL]
            /\ is_unlinked' = [is_unlinked EXCEPT ![entries[d][x]] = ~Unreferenced(entries[d][x])]
            /\ kind' = [kind EXCEPT ![entries[d][x]] =
                                       IF Unreferenced(entries[d][x]) THEN "free" ELSE @]
      BY DEF Unlink
    <2>2. d \in VfsNode
      BY DEF Directory
    <2>3. entries[d][x] \in Inode
      BY <1>0, <2>1, <2>2
    <2> QED BY <2>1, <2>3
  <1>3. d \in VfsNode /\ n \in VfsNode /\ n # Tmp /\ n # Console /\ n # NULL
    BY FilesAssumption DEF Directory, VfsNode
  <1>4. entries[n] = NoEntry /\ n # d
    <2>1. entries[n] = NoEntry
      BY <1>2 DEF Removable
    <2> QED BY <1>2, <1>3, <2>1 DEF NoEntry
  <1>5. <<d, x>> \in Places(n) /\ <<d, x>> \in VfsNode \X Name
    BY <1>2, <1>3 DEF Places
  <1>6. Held(n) /\ \E p \in VfsNode \X Name : Places(n) = {p}
    BY <1>5 DEF FilesInv, TreeIsSound
  <1>7. kind[n] # "free"
    BY <1>6 DEF Held
  <1>8. Places(n) = {<<d, x>>}
    BY <1>5, <1>6
  <1>9. /\ kind' \in [VfsNode -> {"free", "file", "dir", "device"}]
        /\ is_unlinked' \in [VfsNode -> BOOLEAN]
        /\ is_unlinked'[n] = (node_refs[n] # 0)
        /\ kind'[n] = IF node_refs[n] = 0 THEN "free" ELSE kind[n]
        /\ \A m \in VfsNode : m # n => is_unlinked'[m] = is_unlinked[m] /\ kind'[m] = kind[m]
    BY <1>0, <1>2, <1>3 DEF Unreferenced
  <1>10. entries' \in [VfsNode -> [Name -> Inode \cup {NULL}]]
    BY <1>0, <1>2, <1>3
  <1>11. \A m \in VfsNode, y \in Name :
           entries'[m][y] = IF m = d /\ y = x THEN NULL ELSE entries[m][y]
    BY <1>0, <1>2, <1>3
  <1>12. \A p \in VfsNode \X Name :
           entries'[p[1]][p[2]] = IF p = <<d, x>> THEN NULL ELSE entries[p[1]][p[2]]
    <2> TAKE p \in VfsNode \X Name
    <2>1. PICK m \in VfsNode, y \in Name : p[1] = m /\ p[2] = y /\ (p = <<d, x>> <=> m = d /\ y = x)
      OBVIOUS
    <2>2. entries'[m][y] = IF m = d /\ y = x THEN NULL ELSE entries[m][y]
      BY <1>11
    <2> QED BY <2>1, <2>2
  <1>13. NodesAreSound'
    <2>1. \A m \in VfsNode : is_unlinked'[m] => m \in Inode /\ kind'[m] # "free"
      BY <1>7, <1>9 DEF FilesInv, NodesAreSound
    <2>2. kind'[Tmp] = kind[Tmp] /\ kind'[Console] = kind[Console]
      BY <1>3, <1>9 DEF VfsNode
    <2> QED BY <2>1, <2>2 DEF FilesInv, NodesAreSound
  <1>14. ~Held(n)'
    BY <1>9 DEF Held
  <1>15. TreeIsSound'
    <2>1. \A m \in Inode : IF Held(m)' THEN \E p \in VfsNode \X Name : Places(m)' = {p}
                                       ELSE Places(m)' = {}
      <3> SUFFICES ASSUME NEW m \in Inode
                   PROVE  IF Held(m)' THEN \E p \in VfsNode \X Name : Places(m)' = {p}
                                      ELSE Places(m)' = {}
        OBVIOUS
      <3>1. CASE m = n
        <4>1. \A p \in VfsNode \X Name : entries'[p[1]][p[2]] # n
          <5> TAKE p \in VfsNode \X Name
          <5>1. entries[p[1]][p[2]] = n => p = <<d, x>>
            BY <1>8 DEF Places
          <5> QED BY <1>3, <1>12, <5>1
        <4>2. Places(n)' = {}
          BY <4>1 DEF Places
        <4>3. Places(m)' = Places(n)' /\ (Held(m)' <=> Held(n)')
          BY <3>1
        <4> QED BY <1>14, <4>2, <4>3
      <3>2. CASE m # n
        <4>1. m \in VfsNode /\ m # NULL
          BY FilesAssumption DEF VfsNode
        <4>2. Held(m)' <=> Held(m)
          BY <1>9, <3>2, <4>1 DEF Held
        <4>3. \A p \in VfsNode \X Name : entries'[p[1]][p[2]] = m <=> entries[p[1]][p[2]] = m
          BY <1>2, <1>12, <3>2, <4>1
        <4>4. Places(m)' = Places(m)
          BY <4>3 DEF Places
        <4>5. IF Held(m) THEN \E p \in VfsNode \X Name : Places(m) = {p} ELSE Places(m) = {}
          BY DEF FilesInv, TreeIsSound
        <4> QED BY <4>2, <4>4, <4>5
      <3> QED BY <3>1, <3>2
    <2>2. \A m \in VfsNode : m \notin Directory' => entries'[m] = NoEntry
      <3> SUFFICES ASSUME NEW m \in VfsNode, m \notin Directory' PROVE entries'[m] = NoEntry
        OBVIOUS
      <3>1. m = n \/ m \notin Directory
        BY <1>9 DEF Directory
      <3>2. entries[m] = NoEntry /\ m # d
        BY <1>4, <3>1 DEF FilesInv, TreeIsSound
      <3> QED BY <1>0, <1>2, <1>3, <3>2
    <2> QED BY <2>1, <2>2 DEF TreeIsSound
  <1>16. pc' = pc /\ hand' = hand /\ node_refs' = node_refs
    BY <1>1 DEF where
  <1>17. ConsoleOpens' = ConsoleOpens /\ \A m \in VfsNode : Opening(m)' = Opening(m)
    BY <1>16 DEF ConsoleOpens, Opening
  <1>18. ConsoleOnce'
    BY <1>1, <1>17, ConsoleStays
  <1>19. NodeRefsCoverOpens'
    <2>1. \A m \in VfsNode : Opening(m)' \subseteq Opening(m) /\ node_refs'[m] >= node_refs[m]
      BY <1>0, <1>16, <1>17
    <2>2. t \in Task /\ node_refs' \in [VfsNode -> Nat]
      BY <1>0, <1>16
    <2> QED BY <1>1, <1>3, <2>1, <2>2, CountKeeps
  <1>20. \A m \in VfsNode : kind[m] # "free" /\ (Opens(m) # {} \/ Opening(m) # {})
                           => kind'[m] # "free"
    BY <1>9, ReferencesArePositive
  <1>21. /\ console_open_count' \in 0..1 /\ node_refs' \in [VfsNode -> Nat]
         /\ pc' \in [Task -> At] /\ hand' \in [Task -> OpenFile \cup VfsNode \cup {NULL}]
         /\ pc'[t] = "user" /\ \A u \in Task : pc'[u] = pc[u] /\ hand'[u] = hand[u]
    BY <1>0, <1>1, <1>16
  <1> QED BY <1>1, <1>9, <1>10, <1>13, <1>15, <1>18, <1>19, <1>20, <1>21, NodeStep

(* A step of sys_open that makes, installs or frees the open file f, which *)
(* no descriptor holds before it.                                          *)
LEMMA FileStep ==
  ASSUME FilesInv, NEW t \in alive, NEW f \in OpenFile,
         NEW at \in {"install", "user", "undo"}, NEW what \in OpenFile \cup VfsNode \cup {NULL},
         Goes(t, at, what), UNCHANGED <<tasks, inodes, node_refs, console_open_count>>,
         fd_table' \in [Task -> [Fd -> OpenFile \cup {NULL}]],
         of_node' \in [OpenFile -> VfsNode \cup {NULL}], of_refs' \in [OpenFile -> Nat],
         \A g \in OpenFile : g # f =>
           of_refs'[g] = of_refs[g] /\ of_node'[g] = of_node[g] /\ Holders(g)' = Holders(g),
         \A u \in Task, i \in Fd :
           fd_table'[u][i] = fd_table[u][i] \/ (u = t /\ fd_table[u][i] = NULL),
         of_refs'[f] > 0 => of_node'[f] \in VfsNode /\ kind[of_node'[f]] # "free",
         Holders(f)' # {} => of_refs'[f] = Cardinality(Holders(f)'),
         \A u \in Task : u # t /\ pc[u] = "install" => hand[u] # f,
         at = "install" => what = f /\ of_refs'[f] = 1 /\ Holders(f)' = {},
         at = "undo" => what \in VfsNode /\ kind[what] # "free",
         NodeRefsCoverOpens', ConsoleOnce'
  PROVE  FilesInv'
  <1>0. alive \in SUBSET Task /\ at \in At
    BY NodeTypes DEF At
  <1>1. /\ pc' \in [Task -> At] /\ hand' \in [Task -> OpenFile \cup VfsNode \cup {NULL}]
        /\ pc'[t] = at /\ hand'[t] = what
        /\ \A u \in Task : u # t => pc'[u] = pc[u] /\ hand'[u] = hand[u]
    BY <1>0, GoesFacts
  <1>2. /\ alive' = alive /\ parent' = parent /\ kind' = kind /\ is_unlinked' = is_unlinked
        /\ entries' = entries /\ node_refs' = node_refs /\ console_open_count' = console_open_count
    BY DEF tasks, inodes
  <1>3. FTypeOK'
    BY <1>1, <1>2 DEF FilesInv, FTypeOK, At
  <1>4. AtRest'
    <2> SUFFICES ASSUME NEW u \in Task \ alive
                 PROVE  pc'[u] = "user" /\ \A i \in Fd : fd_table'[u][i] = NULL
      BY <1>2 DEF AtRest
    <2>1. pc[u] = "user" /\ (\A i \in Fd : fd_table[u][i] = NULL) /\ u # t
      BY DEF FilesInv, AtRest
    <2> QED BY <1>1, <2>1
  <1>5. OpenFilesAreCounted'
    <2> SUFFICES ASSUME NEW g \in OpenFile, Holders(g)' # {}
                 PROVE  of_refs'[g] = Cardinality(Holders(g)')
      BY DEF OpenFilesAreCounted
    <2>1. CASE g = f
      <3>1. Holders(g)' = Holders(f)'
        BY <2>1
      <3> QED BY <2>1, <3>1
    <2>2. CASE g # f
      <3>1. of_refs'[g] = of_refs[g] /\ Holders(g)' = Holders(g)
        BY <2>2
      <3> QED BY <3>1 DEF FilesInv, OpenFilesAreCounted
    <2> QED BY <2>1, <2>2
  <1>6. OpenFilesAreSound'
    <2> SUFFICES ASSUME NEW g \in OpenFile, of_refs'[g] > 0
                 PROVE  of_node'[g] \in VfsNode /\ kind[of_node'[g]] # "free"
      BY <1>2 DEF OpenFilesAreSound
    <2>1. CASE g = f
      BY <2>1
    <2>2. CASE g # f
      <3>1. of_refs'[g] = of_refs[g] /\ of_node'[g] = of_node[g]
        BY <2>2
      <3> QED BY <3>1 DEF FilesInv, OpenFilesAreSound
    <2> QED BY <2>1, <2>2
  <1>7. HandsAreSound'
    <2> SUFFICES ASSUME NEW u \in Task
                 PROVE  /\ pc'[u] = "install" =>
                             /\ hand'[u] \in OpenFile /\ of_refs'[hand'[u]] = 1
                             /\ Holders(hand[u])' = {}
                             /\ \A v \in Task : pc'[v] = "install" /\ hand'[v] = hand'[u] => v = u
                        /\ pc'[u] = "reading" =>
                             hand'[u] \in OpenFile /\ \E i \in Fd : fd_table'[u][i] = hand'[u]
                        /\ pc'[u] = "opening" => hand'[u] = Console
                        /\ pc'[u] \in {"alloc", "undo"} =>
                             hand'[u] \in VfsNode /\ kind[hand'[u]] # "free"
      BY <1>2 DEF HandsAreSound
    <2>1. CASE u = t
      <3>1. ASSUME at = "install"
            PROVE  /\ hand'[u] \in OpenFile /\ of_refs'[hand'[u]] = 1 /\ Holders(hand[u])' = {}
                   /\ \A v \in Task : pc'[v] = "install" /\ hand'[v] = hand'[u] => v = u
        <4>1. hand'[u] = f /\ of_refs'[f] = 1
          BY <1>1, <2>1, <3>1
        <4>2. Holders(hand[u])' = Holders(f)'
          BY <4>1 DEF Holders
        <4>3. \A v \in Task : v # t /\ pc'[v] = "install" => hand'[v] # f
          BY <1>1
        <4> QED BY <2>1, <3>1, <4>1, <4>2, <4>3
      <3> QED BY <1>1, <2>1, <3>1
    <2>2. CASE u # t
      <3>1. pc'[u] = pc[u] /\ hand'[u] = hand[u]
        BY <1>1, <2>2
      <3>2. /\ pc[u] = "install" =>
                 /\ hand[u] \in OpenFile /\ of_refs[hand[u]] = 1 /\ Holders(hand[u]) = {}
                 /\ \A v \in Task : pc[v] = "install" /\ hand[v] = hand[u] => v = u
            /\ pc[u] = "reading" => hand[u] \in OpenFile /\ \E i \in Fd : fd_table[u][i] = hand[u]
            /\ pc[u] = "opening" => hand[u] = Console
            /\ pc[u] \in {"alloc", "undo"} => hand[u] \in VfsNode /\ kind[hand[u]] # "free"
        BY DEF FilesInv, HandsAreSound
      <3>3. ASSUME pc[u] = "install"
            PROVE  /\ of_refs'[hand[u]] = 1 /\ Holders(hand[u])' = {}
                   /\ \A v \in Task : pc'[v] = "install" /\ hand'[v] = hand[u] => v = u
        <4>1. PICK g \in OpenFile : g = hand[u] /\ g # f
          BY <2>2, <3>2, <3>3
        <4>2. of_refs'[g] = of_refs[g] /\ Holders(g)' = Holders(g)
          BY <4>1
        <4>3. Holders(hand[u])' = Holders(g)'
          BY <3>1, <4>1 DEF Holders
        <4>4. pc'[t] = "install" => hand'[t] = f
          BY <1>1
        <4>5. \A v \in Task : v # t /\ pc'[v] = "install" => pc[v] = "install" /\ hand'[v] = hand[v]
          BY <1>1
        <4> QED BY <3>2, <3>3, <4>1, <4>2, <4>3, <4>4, <4>5
      <3>4. pc[u] = "reading" => \E i \in Fd : fd_table'[u][i] = hand[u]
        BY <2>2, <3>2
      <3> QED BY <3>1, <3>2, <3>3, <3>4
    <2> QED BY <2>1, <2>2
  <1>8. NodesAreSound' /\ TreeIsSound'
    BY InodesStay
  <1> QED BY <1>3, <1>4, <1>5, <1>6, <1>7, <1>8 DEF FilesInv

(* One set gains a member when another loses one.                          *)
LEMMA SwapCard ==
  ASSUME NEW S, IsFiniteSet(S), NEW T, IsFiniteSet(T), NEW x, NEW y \in T
  PROVE  /\ Cardinality(S \cup {x}) + Cardinality(T \ {y}) <= Cardinality(S) + Cardinality(T)
         /\ Cardinality(T \ {y}) + Cardinality(S \cup {x}) <= Cardinality(T) + Cardinality(S)
  <1>1. Cardinality(S) \in Nat /\ Cardinality(T) \in Nat /\ Cardinality(T) # 0
    BY CardZero
  <1>2. Cardinality(T \ {y}) = Cardinality(T) - 1
    BY FS_RemoveElement
  <1>3. Cardinality(S \cup {x}) = Cardinality(S) \/ Cardinality(S \cup {x}) = Cardinality(S) + 1
    BY FS_AddElement
  <1> QED BY <1>1, <1>2, <1>3

(* The open that t is on its way to becomes the open file f, or f the open *)
(* that t takes back: the references are still covered.                    *)
LEMMA MoveKeeps ==
  ASSUME FilesInv, UNCHANGED <<node_refs, console_open_count>>,
         NEW t \in Task, NEW f \in OpenFile, NEW n \in VfsNode,
         \A m \in VfsNode : m # n => Opens(m)' = Opens(m) /\ Opening(m)' \subseteq Opening(m),
         n # Console => ConsoleOpens' \subseteq ConsoleOpens,
         \/ /\ t \in Opening(n) /\ Opening(n)' = Opening(n) \ {t}
            /\ ConsoleOpens' = ConsoleOpens \ {t} /\ Opens(n)' = Opens(n) \cup {f}
         \/ /\ f \in Opens(n) /\ Opens(n)' = Opens(n) \ {f}
            /\ Opening(n)' = Opening(n) \cup {t}
            /\ n = Console => ConsoleOpens' = ConsoleOpens \cup {t}
  PROVE  NodeRefsCoverOpens' /\ ConsoleOnce'
  <1>0. \A m \in VfsNode : node_refs[m] >= Cardinality(Opens(m)) + Cardinality(Opening(m))
                        /\ node_refs[m] \in Nat
    BY NodeTypes DEF FilesInv, NodeRefsCoverOpens
  <1>1. \A m \in VfsNode : /\ Cardinality(Opens(m)) \in Nat /\ Cardinality(Opening(m)) \in Nat
                        /\ Cardinality(Opens(m)') \in Nat /\ Cardinality(Opening(m)') \in Nat
                        /\ IsFiniteSet(Opens(m)) /\ IsFiniteSet(Opening(m))
    BY FiniteSets, CardZero
  <1>2. /\ Cardinality(ConsoleOpens) \in Nat /\ Cardinality(ConsoleOpens') \in Nat
        /\ IsFiniteSet(ConsoleOpens)
    BY FiniteSets, CardZero
  <1>3. Cardinality(Opens(Console)) + Cardinality(ConsoleOpens) <= console_open_count
        /\ console_open_count \in Nat /\ Console \in VfsNode
    BY DEF FilesInv, ConsoleOnce, FTypeOK, VfsNode
  <1>4. \A m \in VfsNode : m # n => /\ Opens(m)' = Opens(m)
                                 /\ Cardinality(Opening(m)') <= Cardinality(Opening(m))
    BY <1>1, CardLess
  <1>5. Cardinality(Opens(n)') + Cardinality(Opening(n)') <= Cardinality(Opens(n)) + Cardinality(Opening(n))
    <2>1. IsFiniteSet(Opens(n)) /\ IsFiniteSet(Opening(n))
      BY <1>1
    <2>2. CASE t \in Opening(n) /\ Opening(n)' = Opening(n) \ {t} /\ Opens(n)' = Opens(n) \cup {f}
      BY <2>1, <2>2, SwapCard
    <2>3. CASE f \in Opens(n) /\ Opens(n)' = Opens(n) \ {f} /\ Opening(n)' = Opening(n) \cup {t}
      BY <2>1, <2>3, SwapCard
    <2> QED BY <2>2, <2>3
  <1>6. NodeRefsCoverOpens'
    <2> SUFFICES ASSUME NEW m \in VfsNode
                 PROVE  node_refs[m] >= Cardinality(Opens(m)') + Cardinality(Opening(m)')
      BY DEF NodeRefsCoverOpens
    <2>1. CASE m = n
      <3>1. node_refs[n] >= Cardinality(Opens(n)') + Cardinality(Opening(n)')
        BY <1>0, <1>1, <1>5
      <3>2. Opens(m)' = Opens(n)' /\ Opening(m)' = Opening(n)'
        BY <2>1
      <3> QED BY <2>1, <3>1, <3>2
    <2>2. CASE m # n
      <3>1. Cardinality(Opens(m)') = Cardinality(Opens(m))
            /\ Cardinality(Opening(m)') <= Cardinality(Opening(m))
        BY <1>4, <2>2
      <3> QED BY <1>0, <1>1, <3>1
    <2> QED BY <2>1, <2>2
  <1>7. Cardinality(Opens(Console)') + Cardinality(ConsoleOpens')
          <= Cardinality(Opens(Console)) + Cardinality(ConsoleOpens)
    <2>1. CASE n # Console
      <3>1. Opens(Console)' = Opens(Console)
        BY <1>3, <2>1
      <3>2. Cardinality(ConsoleOpens') <= Cardinality(ConsoleOpens)
        BY <1>2, <2>1, CardLess
      <3> QED BY <1>1, <1>2, <1>3, <3>1, <3>2
    <2>2. CASE n = Console
      <3>0. IsFiniteSet(Opens(Console)) /\ IsFiniteSet(ConsoleOpens) /\ Opens(n)' = Opens(Console)'
            /\ Opening(Console) \subseteq ConsoleOpens
        BY <1>1, <1>2, <1>3, <2>2 DEF ConsoleOpens
      <3>1. CASE t \in Opening(n) /\ ConsoleOpens' = ConsoleOpens \ {t} /\ Opens(n)' = Opens(n) \cup {f}
        <4>1. t \in ConsoleOpens /\ Opens(Console)' = Opens(Console) \cup {f}
          BY <2>2, <3>0, <3>1
        <4> QED BY <3>0, <3>1, <4>1, SwapCard
      <3>2. CASE f \in Opens(n) /\ Opens(n)' = Opens(n) \ {f} /\ ConsoleOpens' = ConsoleOpens \cup {t}
        <4>1. f \in Opens(Console) /\ Opens(Console)' = Opens(Console) \ {f}
          BY <2>2, <3>0, <3>2
        <4> QED BY <3>0, <3>2, <4>1, SwapCard
      <3> QED BY <2>2, <3>1, <3>2
    <2> QED BY <2>1, <2>2
  <1>8. ConsoleOnce'
    <2>1. Cardinality(Opens(Console)') \in Nat /\ Cardinality(Opens(Console)) \in Nat
      BY <1>1, <1>3
    <2>2. Cardinality(Opens(Console)') + Cardinality(ConsoleOpens') <= console_open_count
      BY <1>2, <1>3, <1>7, <2>1
    <2> QED BY <2>2 DEF ConsoleOnce
  <1> QED BY <1>6, <1>8

(* sys_open gets its open_file_t, or no memory.                            *)
LEMMA OpenAllocKeeps ==
  ASSUME FilesInv, NEW t \in Task, OpenAlloc(t) PROVE FilesInv'
  <1>0. /\ fd_table \in [Task -> [Fd -> OpenFile \cup {NULL}]] /\ console_open_count \in 0..1
        /\ of_node \in [OpenFile -> VfsNode \cup {NULL}] /\ of_refs \in [OpenFile -> Nat]
        /\ node_refs \in [VfsNode -> Nat]
    BY DEF FilesInv, FTypeOK
  <1>1. /\ t \in alive /\ pc[t] = "alloc"
        /\ UNCHANGED <<tasks, fd_table, inodes, node_refs, console_open_count>>
    BY DEF OpenAlloc
  <1>2. PICK n \in VfsNode : n = hand[t] /\ kind[n] # "free"
    BY <1>1 DEF FilesInv, HandsAreSound
  <1>3. t \in Opening(n) /\ \A m \in VfsNode : m # n => t \notin Opening(m)
    BY <1>1, <1>2 DEF Opening
  <1>4. ASSUME NEW f \in OpenFile, of_refs[f] = 0, of_refs' = [of_refs EXCEPT ![f] = 1],
               of_node' = [of_node EXCEPT ![f] = n], Goes(t, "install", f)
        PROVE  FilesInv'
    <2>1. "install" \in At /\ f \in OpenFile \cup VfsNode \cup {NULL}
      BY DEF At
    <2>2. /\ \A m \in VfsNode : Opening(m)' = Opening(m) \ {t}
          /\ ConsoleOpens' = ConsoleOpens \ {t}
      BY <1>4, <2>1, GoesFacts
    <2>3. /\ of_node' \in [OpenFile -> VfsNode \cup {NULL}] /\ of_refs' \in [OpenFile -> Nat]
          /\ of_refs'[f] = 1 /\ of_node'[f] = n
          /\ \A g \in OpenFile : g # f => of_refs'[g] = of_refs[g] /\ of_node'[g] = of_node[g]
      BY <1>0, <1>4
    <2>4. Opens(n)' = Opens(n) \cup {f}
      BY <1>4, <2>3 DEF Opens
    <2>5. \A m \in VfsNode : m # n => Opens(m)' = Opens(m)
      BY <1>4, <2>3 DEF Opens
    <2>6. NodeRefsCoverOpens' /\ ConsoleOnce'
      <3>1. \A m \in VfsNode : m # n => Opens(m)' = Opens(m) /\ Opening(m)' \subseteq Opening(m)
        BY <2>2, <2>5
      <3>2. ConsoleOpens' \subseteq ConsoleOpens
        BY <2>2
      <3>3. Opening(n)' = Opening(n) \ {t}
        BY <2>2
      <3> QED BY <1>1, <1>3, <2>2, <2>4, <3>1, <3>2, <3>3, MoveKeeps
    <2>7. Holders(f) = {}
      <3>1. {} \in SUBSET (Task \X Fd)
        OBVIOUS
      <3>2. \A H \in SUBSET (Task \X Fd) : Holders(f) # {} => of_refs[f] > 0
        BY DropFacts
      <3>3. Holders(f) # {} => of_refs[f] > 0
        BY <3>1, <3>2, Zenon
      <3>4. ~(of_refs[f] > 0)
        BY <1>4
      <3> QED BY <3>3, <3>4
    <2>8. \A g \in OpenFile : Holders(g)' = Holders(g)
      BY <1>1 DEF Holders
    <2>9. \A u \in Task : u # t /\ pc[u] = "install" => hand[u] # f
      BY <1>4 DEF FilesInv, HandsAreSound
    <2>10. fd_table' \in [Task -> [Fd -> OpenFile \cup {NULL}]]
           /\ \A u \in Task, i \in Fd : fd_table'[u][i] = fd_table[u][i]
      BY <1>0, <1>1
    <2>11. Holders(f)' = {}
      BY <2>7, <2>8
    <2>12. \A g \in OpenFile : g # f =>
             of_refs'[g] = of_refs[g] /\ of_node'[g] = of_node[g] /\ Holders(g)' = Holders(g)
      BY <2>3, <2>8
    <2>13. /\ of_refs'[f] > 0 => of_node'[f] \in VfsNode /\ kind[of_node'[f]] # "free"
           /\ "install" \in {"install", "user", "undo"}
      BY <1>2, <2>3
    <2> QED BY <1>1, <1>4, <2>1, <2>3, <2>6, <2>7, <2>9, <2>10, <2>11, <2>12, <2>13, FileStep
  <1>5. ASSUME Goes(t, "undo", n), UNCHANGED refs
        PROVE  FilesInv'
    <2>1. "undo" \in At /\ n \in OpenFile \cup VfsNode \cup {NULL}
      BY DEF At
    <2>2. /\ \A m \in VfsNode : Opening(m)' = IF n = m THEN Opening(m) \cup {t} ELSE Opening(m) \ {t}
          /\ ConsoleOpens' = IF n = Console THEN ConsoleOpens \cup {t} ELSE ConsoleOpens \ {t}
      BY <1>5, <2>1, GoesFacts
    <2>3. \A m \in VfsNode : Opening(m)' \subseteq Opening(m)
      BY <1>3, <2>2
    <2>4. ConsoleOpens' \subseteq ConsoleOpens
      <3>1. n = Console => t \in ConsoleOpens
        BY <1>3 DEF ConsoleOpens
      <3> QED BY <2>2, <3>1
    <2>5. ConsoleOnce'
      BY <1>1, <1>5, <2>4, ConsoleStays
    <2>6. NodeRefsCoverOpens'
      <3>1. \A m \in VfsNode : Opening(m)' \subseteq Opening(m) /\ node_refs'[m] >= node_refs[m]
        BY <1>0, <1>1, <2>3
      <3>2. node_refs' \in [VfsNode -> Nat]
        BY <1>0, <1>1
      <3> QED BY <1>5, <3>1, <3>2, CountKeeps
    <2>7. console_open_count' \in 0..1 /\ node_refs' \in [VfsNode -> Nat]
      BY <1>0, <1>1
    <2> QED BY <1>1, <1>2, <1>5, <2>1, <2>5, <2>6, <2>7, CallStep
  <1> QED BY <1>2, <1>4, <1>5 DEF OpenAlloc

(* sys_open gets its descriptor, or finds none free.                       *)
LEMMA OpenInstallKeeps ==
  ASSUME FilesInv, NEW t \in Task, OpenInstall(t) PROVE FilesInv'
  <1>0. /\ fd_table \in [Task -> [Fd -> OpenFile \cup {NULL}]]
        /\ of_node \in [OpenFile -> VfsNode \cup {NULL}] /\ of_refs \in [OpenFile -> Nat]
        /\ node_refs \in [VfsNode -> Nat]
    BY DEF FilesInv, FTypeOK
  <1>1. /\ t \in alive /\ pc[t] = "install"
        /\ UNCHANGED <<tasks, inodes, node_refs, console_open_count>>
    BY DEF OpenInstall
  <1>2. PICK f \in OpenFile :
          /\ f = hand[t] /\ of_refs[f] = 1 /\ Holders(f) = {}
          /\ \A u \in Task : pc[u] = "install" /\ hand[u] = f => u = t
    BY <1>1 DEF FilesInv, HandsAreSound
  <1>3. PICK n \in VfsNode : n = of_node[f] /\ kind[n] # "free"
    BY <1>2 DEF FilesInv, OpenFilesAreSound
  <1>4. \A u \in Task : u # t /\ pc[u] = "install" => hand[u] # f
    BY <1>2
  <1>5. \A m \in VfsNode : t \notin Opening(m)
    BY <1>1 DEF Opening
  <1>6. ASSUME NEW j \in Fd, fd_table[t][j] = NULL,
               fd_table' = [fd_table EXCEPT ![t][j] = f], Goes(t, "user", NULL), UNCHANGED refs
        PROVE  FilesInv'
    <2>1. "user" \in At /\ NULL \in OpenFile \cup VfsNode \cup {NULL}
      BY DEF At
    <2>2. /\ \A m \in VfsNode : Opening(m)' = Opening(m) \ {t}
          /\ ConsoleOpens' = ConsoleOpens \ {t}
      BY <1>6, <2>1, GoesFacts
    <2>3. ConsoleOnce'
      <3>1. ConsoleOpens' \subseteq ConsoleOpens
        BY <2>2
      <3> QED BY <1>1, <1>6, <3>1, ConsoleStays
    <2>4. NodeRefsCoverOpens'
      <3>1. \A m \in VfsNode : Opening(m)' \subseteq Opening(m) /\ node_refs'[m] >= node_refs[m]
        BY <1>0, <1>1, <2>2
      <3>2. node_refs' \in [VfsNode -> Nat]
        BY <1>0, <1>1
      <3> QED BY <1>3, <1>6, <3>1, <3>2, CountKeeps
    <2>5. of_refs' = of_refs /\ of_node' = of_node
      BY <1>6 DEF refs
    <2>6. fd_table' \in [Task -> [Fd -> OpenFile \cup {NULL}]]
      BY <1>0, <1>6
    <2>7. \A u \in Task, i \in Fd :
            fd_table'[u][i] = IF u = t /\ i = j THEN f ELSE fd_table[u][i]
      BY <1>0, <1>6
    <2>8. \A h \in Task \X Fd :
            fd_table'[h[1]][h[2]] = IF h = <<t, j>> THEN f ELSE fd_table[h[1]][h[2]]
      <3> TAKE h \in Task \X Fd
      <3>1. PICK u \in Task, i \in Fd : h[1] = u /\ h[2] = i /\ (h = <<t, j>> <=> u = t /\ i = j)
        OBVIOUS
      <3>2. fd_table'[u][i] = IF u = t /\ i = j THEN f ELSE fd_table[u][i]
        BY <2>7
      <3> QED BY <3>1, <3>2
    <2>9. <<t, j>> \in Task \X Fd /\ fd_table[<<t, j>>[1]][<<t, j>>[2]] = NULL
      BY <1>6
    <2>10. Holders(f)' = {<<t, j>>}
      <3>1. \A h \in Task \X Fd : fd_table[h[1]][h[2]] # f
        BY <1>2 DEF Holders
      <3>2. \A h \in Task \X Fd : fd_table'[h[1]][h[2]] = f <=> h = <<t, j>>
        BY <2>8, <3>1
      <3> QED BY <2>9, <3>2 DEF Holders
    <2>11. \A g \in OpenFile : g # f => Holders(g)' = Holders(g)
      <3> SUFFICES ASSUME NEW g \in OpenFile, g # f PROVE Holders(g)' = Holders(g)
        OBVIOUS
      <3>1. g # NULL
        BY FilesAssumption
      <3>2. \A h \in Task \X Fd : fd_table'[h[1]][h[2]] = g <=> fd_table[h[1]][h[2]] = g
        BY <2>8, <2>9, <3>1
      <3> QED BY <3>2 DEF Holders
    <2>12. Holders(f)' # {} => of_refs'[f] = Cardinality(Holders(f)')
      BY <1>2, <2>5, <2>10, FS_Singleton
    <2>13. \A u \in Task, i \in Fd :
             fd_table'[u][i] = fd_table[u][i] \/ (u = t /\ fd_table[u][i] = NULL)
      BY <1>6, <2>7
    <2>14. /\ of_node' \in [OpenFile -> VfsNode \cup {NULL}] /\ of_refs' \in [OpenFile -> Nat]
           /\ of_refs'[f] > 0 => of_node'[f] \in VfsNode /\ kind[of_node'[f]] # "free"
           /\ "user" \in {"install", "user", "undo"}
      BY <1>0, <1>3, <2>5
    <2>15. \A g \in OpenFile : g # f =>
             of_refs'[g] = of_refs[g] /\ of_node'[g] = of_node[g] /\ Holders(g)' = Holders(g)
      BY <2>5, <2>11
    <2> QED BY <1>1, <1>2, <1>4, <1>6, <2>1, <2>3, <2>4, <2>6, <2>12, <2>13, <2>14, <2>15, FileStep
  <1>7. ASSUME of_refs' = [of_refs EXCEPT ![f] = 0], of_node' = [of_node EXCEPT ![f] = NULL],
               Goes(t, "undo", n), UNCHANGED fd_table
        PROVE  FilesInv'
    <2>1. "undo" \in At /\ n \in OpenFile \cup VfsNode \cup {NULL}
      BY DEF At
    <2>2. /\ \A m \in VfsNode : Opening(m)' = IF n = m THEN Opening(m) \cup {t} ELSE Opening(m) \ {t}
          /\ ConsoleOpens' = IF n = Console THEN ConsoleOpens \cup {t} ELSE ConsoleOpens \ {t}
      BY <1>7, <2>1, GoesFacts
    <2>3. /\ of_node' \in [OpenFile -> VfsNode \cup {NULL}] /\ of_refs' \in [OpenFile -> Nat]
          /\ of_refs'[f] = 0 /\ of_node'[f] = NULL
          /\ \A g \in OpenFile : g # f => of_refs'[g] = of_refs[g] /\ of_node'[g] = of_node[g]
      BY <1>0, <1>7
    <2>4. f \in Opens(n) /\ Opens(n)' = Opens(n) \ {f}
      BY <1>2, <1>3, <2>3 DEF Opens
    <2>5. \A m \in VfsNode : m # n => Opens(m)' = Opens(m)
      BY <1>3, <2>3 DEF Opens
    <2>6. NodeRefsCoverOpens' /\ ConsoleOnce'
      <3>1. \A m \in VfsNode : m # n => Opens(m)' = Opens(m) /\ Opening(m)' \subseteq Opening(m)
        BY <2>2, <2>5
      <3>2. /\ n # Console => ConsoleOpens' \subseteq ConsoleOpens
            /\ n = Console => ConsoleOpens' = ConsoleOpens \cup {t}
            /\ Opening(n)' = Opening(n) \cup {t}
        BY <2>2
      <3> QED BY <1>1, <2>4, <3>1, <3>2, MoveKeeps
    <2>7. \A g \in OpenFile : Holders(g)' = Holders(g)
      BY <1>7 DEF Holders
    <2>8. Holders(f)' = {}
      BY <1>2, <2>7
    <2>9. fd_table' \in [Task -> [Fd -> OpenFile \cup {NULL}]]
          /\ \A u \in Task, i \in Fd : fd_table'[u][i] = fd_table[u][i]
      BY <1>0, <1>7
    <2>10. \A g \in OpenFile : g # f =>
             of_refs'[g] = of_refs[g] /\ of_node'[g] = of_node[g] /\ Holders(g)' = Holders(g)
      BY <2>3, <2>7
    <2>11. ~(of_refs'[f] > 0) /\ "undo" \in {"install", "user", "undo"}
      BY <2>3
    <2> QED BY <1>1, <1>2, <1>3, <1>4, <1>7, <2>1, <2>3, <2>6, <2>8, <2>9, <2>10, <2>11, FileStep,
               SMTT(30)
  <1>8. CASE FreeFd(t) # {} /\ fd_table' = [fd_table EXCEPT ![t][Lowest(FreeFd(t))] = hand[t]]
             /\ Goes(t, "user", NULL) /\ UNCHANGED refs
    <2>1. Lowest(FreeFd(t)) \in FreeFd(t)
      BY <1>8, LowestExists DEF FreeFd
    <2>2. PICK j \in Fd : j = Lowest(FreeFd(t)) /\ fd_table[t][j] = NULL
      BY <2>1 DEF FreeFd
    <2> QED BY <1>2, <1>6, <1>8, <2>2
  <1>9. CASE /\ of_refs' = [of_refs EXCEPT ![hand[t]] = 0]
             /\ of_node' = [of_node EXCEPT ![hand[t]] = NULL]
             /\ Goes(t, "undo", of_node[hand[t]]) /\ UNCHANGED fd_table
    BY <1>2, <1>3, <1>7, <1>9
  <1> QED BY <1>8, <1>9 DEF OpenInstall

(* The descriptors of a parent that hold f, once more in the child.        *)
LEMMA CopyFacts ==
  ASSUME FilesInv, NEW t \in Task, NEW c \in Task \ alive, NEW f \in OpenFile,
         fd_table' = [fd_table EXCEPT ![c] = fd_table[t]]
  PROVE  /\ Copies(f, t) \in Nat
         /\ Cardinality(Holders(f)') = Cardinality(Holders(f)) + Copies(f, t)
         /\ Copies(f, t) > 0 => Holders(f) # {}
         /\ Holders(f)' # {} => Holders(f) # {}
  <1> DEFINE I == {i \in Fd : fd_table[t][i] = f}
             C == {c} \X I
  <1>0. fd_table \in [Task -> [Fd -> OpenFile \cup {NULL}]]
    BY DEF FilesInv, FTypeOK
  <1>1. I \subseteq Fd /\ IsFiniteSet(Fd)
    BY FilesAssumption
  <1>2. Copies(f, t) = Cardinality(I)
    BY DEF Copies
  <1>3. \A i \in I : <<t, i>> \in Holders(f)
    BY DEF Holders
  <1>4. \A h \in Holders(f) : h \notin C
    <2>1. \A i \in Fd : fd_table[c][i] # f
      BY FilesAssumption DEF FilesInv, AtRest
    <2> QED BY <2>1 DEF Holders
  <1>5. Holders(f)' = Holders(f) \cup C
    <2>1. \A u \in Task, i \in Fd : fd_table'[u][i] = fd_table[IF u = c THEN t ELSE u][i]
      BY <1>0
    <2>2. \A h \in Task \X Fd : h \in Holders(f)' <=> h \in Holders(f) \/ h \in C
      <3> TAKE h \in Task \X Fd
      <3>1. PICK u \in Task, i \in Fd : h = <<u, i>> /\ h[1] = u /\ h[2] = i
        OBVIOUS
      <3>2. /\ h \in Holders(f)' <=> fd_table'[u][i] = f
            /\ h \in Holders(f) <=> fd_table[u][i] = f
        BY <3>1 DEF Holders
      <3>3. h \in C <=> u = c /\ fd_table[t][i] = f
        BY <3>1
      <3>4. fd_table[c][i] # f
        BY FilesAssumption DEF FilesInv, AtRest
      <3> QED BY <2>1, <3>2, <3>3, <3>4
    <2>3. Holders(f)' \subseteq Task \X Fd /\ Holders(f) \subseteq Task \X Fd /\ C \subseteq Task \X Fd
      BY DEF Holders
    <2> HIDE DEF C
    <2> QED BY <2>2, <2>3
  <1>6. C # {} => I # {}
    OBVIOUS
  <1> HIDE DEF I
  <1>7. IsFiniteSet(I) /\ Cardinality(I) \in Nat /\ (Cardinality(I) = 0 <=> I = {})
    BY <1>1, FS_Subset, CardZero
  <1>8. IsFiniteSet(C) /\ Cardinality(C) = Cardinality(I)
    <2>1. IsFiniteSet({c}) /\ Cardinality({c}) = 1
      BY FS_Singleton
    <2>2. IsFiniteSet({c} \X I) /\ Cardinality({c} \X I) = Cardinality({c}) * Cardinality(I)
      BY <1>7, <2>1, FS_Product
    <2>3. Cardinality({c} \X I) = 1 * Cardinality(I)
      BY <2>1, <2>2
    <2>4. 1 * Cardinality(I) = Cardinality(I)
      BY <1>7
    <2> QED BY <2>2, <2>3, <2>4
  <1> HIDE DEF C
  <1>9. Cardinality(Holders(f) \cup C) = Cardinality(Holders(f)) + Cardinality(C)
    <2>1. Holders(f) \cap C = {}
      BY <1>4
    <2>2. IsFiniteSet(Holders(f))
      BY FiniteSets
    <2>3. Cardinality(Holders(f) \cup C) =
            Cardinality(Holders(f)) + Cardinality(C) - Cardinality(Holders(f) \cap C)
      BY <1>8, <2>2, FS_Union
    <2>4. Cardinality(Holders(f) \cap C) = 0
      BY <2>1, FS_EmptySet
    <2>5. Cardinality(Holders(f)) \in Nat /\ Cardinality(C) \in Nat
      BY <1>7, <1>8, <2>2, CardZero
    <2> QED BY <2>3, <2>4, <2>5
  <1>10. I # {} => Holders(f) # {}
    BY <1>3
  <1>11. Cardinality(Holders(f)') = Cardinality(Holders(f)) + Copies(f, t)
    BY <1>2, <1>5, <1>8, <1>9
  <1>12. Copies(f, t) \in Nat /\ (Copies(f, t) > 0 => Holders(f) # {})
    BY <1>2, <1>7, <1>10
  <1>13. Holders(f)' # {} => Holders(f) # {}
    BY <1>5, <1>6, <1>10
  <1> QED BY <1>11, <1>12, <1>13

(* task_fork: every descriptor of the parent holds once more.              *)
LEMMA ForkKeeps ==
  ASSUME FilesInv, NEW t \in Task, Fork(t) PROVE FilesInv'
  <1> DEFINE more(n) == Cardinality({i \in Fd : /\ fd_table[t][i] # NULL
                                                /\ of_node[fd_table[t][i]] = n})
  <1>0. /\ alive \in SUBSET Task /\ parent \in [Task -> Task \cup {NULL}]
        /\ fd_table \in [Task -> [Fd -> OpenFile \cup {NULL}]]
        /\ of_node \in [OpenFile -> VfsNode \cup {NULL}] /\ of_refs \in [OpenFile -> Nat]
        /\ node_refs \in [VfsNode -> Nat]
    BY DEF FilesInv, FTypeOK
  <1>1. /\ t \in alive /\ pc[t] = "user"
        /\ of_refs' = [f \in OpenFile |-> of_refs[f] + Copies(f, t)]
        /\ node_refs' = [n \in VfsNode |-> node_refs[n] + more(n)]
        /\ UNCHANGED <<of_node, inodes, console_open_count, where>>
    BY DEF Fork, Calls
  <1>2. PICK c \in Task \ alive :
          /\ alive' = alive \cup {c} /\ parent' = [parent EXCEPT ![c] = t]
          /\ fd_table' = [fd_table EXCEPT ![c] = fd_table[t]]
    BY DEF Fork
  <1>3. \A n \in VfsNode : more(n) \in Nat
    <2> TAKE n \in VfsNode
    <2>1. IsFiniteSet({i \in Fd : fd_table[t][i] # NULL /\ of_node[fd_table[t][i]] = n})
      BY FilesAssumption, FS_Subset
    <2> QED BY <2>1, CardZero
  <1> HIDE DEF more
  <1>4. /\ of_node' = of_node /\ kind' = kind /\ is_unlinked' = is_unlinked /\ entries' = entries
        /\ console_open_count' = console_open_count /\ pc' = pc /\ hand' = hand
    BY <1>1 DEF inodes, where
  <1>5. \A f \in OpenFile :
          /\ Copies(f, t) \in Nat
          /\ Cardinality(Holders(f)') = Cardinality(Holders(f)) + Copies(f, t)
          /\ Copies(f, t) > 0 => Holders(f) # {}
          /\ Holders(f)' # {} => Holders(f) # {}
    BY <1>2, CopyFacts
  <1>6. \A f \in OpenFile : of_refs'[f] = of_refs[f] + Copies(f, t)
    BY <1>1
  <1>7. \A f \in OpenFile : Holders(f) # {} => of_refs[f] = Cardinality(Holders(f)) /\ of_refs[f] > 0
    <2>1. {} \in SUBSET (Task \X Fd)
      OBVIOUS
    <2> QED BY <2>1, DropFacts
  <1>8. \A f \in OpenFile : of_refs'[f] > 0 <=> of_refs[f] > 0
    BY <1>0, <1>5, <1>6, <1>7
  <1>9. FTypeOK'
    <2>1. of_refs' \in [OpenFile -> Nat]
      BY <1>0, <1>1, <1>5
    <2>2. node_refs' \in [VfsNode -> Nat]
      BY <1>0, <1>1, <1>3
    <2>3. alive' \in SUBSET Task /\ parent' \in [Task -> Task \cup {NULL}]
          /\ fd_table' \in [Task -> [Fd -> OpenFile \cup {NULL}]]
      BY <1>0, <1>2
    <2> QED BY <1>4, <2>1, <2>2, <2>3 DEF FilesInv, FTypeOK
  <1>10. \A u \in Task : u # c => fd_table'[u] = fd_table[u]
    BY <1>0, <1>2
  <1>11. AtRest'
    BY <1>2, <1>4, <1>10 DEF FilesInv, AtRest
  <1>12. OpenFilesAreCounted'
    <2> SUFFICES ASSUME NEW f \in OpenFile, Holders(f)' # {}
                 PROVE  of_refs'[f] = Cardinality(Holders(f)')
      BY DEF OpenFilesAreCounted
    <2> QED BY <1>5, <1>6, <1>7
  <1>13. OpenFilesAreSound'
    BY <1>4, <1>8 DEF FilesInv, OpenFilesAreSound
  <1>14. HandsAreSound'
    <2> SUFFICES ASSUME NEW u \in Task
                 PROVE  /\ pc[u] = "install" =>
                             /\ hand[u] \in OpenFile /\ of_refs'[hand[u]] = 1 /\ Holders(hand[u])' = {}
                             /\ \A v \in Task : pc[v] = "install" /\ hand[v] = hand[u] => v = u
                        /\ pc[u] = "reading" =>
                             hand[u] \in OpenFile /\ \E i \in Fd : fd_table'[u][i] = hand[u]
                        /\ pc[u] = "opening" => hand[u] = Console
                        /\ pc[u] \in {"alloc", "undo"} => hand[u] \in VfsNode /\ kind[hand[u]] # "free"
      BY <1>4 DEF HandsAreSound
    <2>1. /\ pc[u] = "install" =>
               /\ hand[u] \in OpenFile /\ of_refs[hand[u]] = 1 /\ Holders(hand[u]) = {}
               /\ \A v \in Task : pc[v] = "install" /\ hand[v] = hand[u] => v = u
          /\ pc[u] = "reading" => hand[u] \in OpenFile /\ \E i \in Fd : fd_table[u][i] = hand[u]
          /\ pc[u] = "opening" => hand[u] = Console
          /\ pc[u] \in {"alloc", "undo"} => hand[u] \in VfsNode /\ kind[hand[u]] # "free"
      BY DEF FilesInv, HandsAreSound
    <2>2. pc[u] # "user" => u # c
      BY <1>2 DEF FilesInv, AtRest
    <2>3. ASSUME pc[u] = "install"
          PROVE  of_refs'[hand[u]] = 1 /\ Holders(hand[u])' = {}
      <3>1. PICK f \in OpenFile : f = hand[u] /\ of_refs[f] = 1 /\ Holders(f) = {}
        BY <2>1, <2>3
      <3>2. Holders(f)' = {} /\ Copies(f, t) = 0
        BY <1>5, <3>1
      <3>3. of_refs'[f] = 1
        BY <1>6, <3>1, <3>2
      <3>4. Holders(hand[u])' = Holders(f)'
        BY <1>4, <3>1 DEF Holders
      <3> QED BY <3>1, <3>2, <3>3, <3>4
    <2> QED BY <1>10, <2>1, <2>2, <2>3
  <1>15. \A n \in VfsNode : Opens(n)' = Opens(n) /\ Opening(n)' = Opening(n)
    BY <1>4, <1>8 DEF Opens, Opening
  <1>16. NodeRefsCoverOpens'
    <2> SUFFICES ASSUME NEW n \in VfsNode
                 PROVE  node_refs'[n] >= Cardinality(Opens(n)') + Cardinality(Opening(n)')
      BY DEF NodeRefsCoverOpens
    <2>1. node_refs[n] >= Cardinality(Opens(n)) + Cardinality(Opening(n))
      BY DEF FilesInv, NodeRefsCoverOpens
    <2>2. Cardinality(Opens(n)) \in Nat /\ Cardinality(Opening(n)) \in Nat
      BY FiniteSets, CardZero
    <2>3. node_refs'[n] = node_refs[n] + more(n) /\ more(n) \in Nat /\ node_refs[n] \in Nat
      BY <1>0, <1>1, <1>3
    <2>4. Opens(n)' = Opens(n) /\ Opening(n)' = Opening(n)
      BY <1>15
    <2>5. node_refs'[n] >= Cardinality(Opens(n)) + Cardinality(Opening(n))
      BY <2>1, <2>2, <2>3
    <2> QED BY <2>4, <2>5
  <1>17. NodesAreSound' /\ TreeIsSound'
    BY <1>1, InodesStay
  <1>18. ConsoleOnce'
    <2>1. Opens(Console)' = Opens(Console) /\ Opening(Console)' = Opening(Console)
      BY <1>15 DEF VfsNode
    <2>2. ConsoleOpens' = ConsoleOpens
      BY <1>4, <2>1 DEF ConsoleOpens
    <2> QED BY <1>4, <2>1, <2>2 DEF FilesInv, ConsoleOnce
  <1> QED BY <1>9, <1>11, <1>12, <1>13, <1>14, <1>16, <1>17, <1>18 DEF FilesInv

-----------------------------------------------------------------------------
(***************************************************************************)
(* The invariant, and what follows from it.                                *)
(***************************************************************************)

(* It holds at boot,                                                       *)
LEMMA FilesInit == Init => FilesInv
  <1> SUFFICES ASSUME Init PROVE FilesInv
    OBVIOUS
  <1>1. /\ alive = {Root} /\ parent = [t \in Task |-> NULL]
        /\ fd_table = [t \in Task |-> [i \in Fd |-> NULL]]
        /\ of_node = [f \in OpenFile |-> NULL] /\ of_refs = [f \in OpenFile |-> 0]
        /\ kind = [n \in VfsNode |-> IF n = Tmp THEN "dir"
                                  ELSE IF n = Console THEN "device" ELSE "free"]
        /\ node_refs = [n \in VfsNode |-> 0] /\ is_unlinked = [n \in VfsNode |-> FALSE]
        /\ entries = [n \in VfsNode |-> NoEntry] /\ console_open_count = 0
        /\ pc = [t \in Task |-> "user"] /\ hand = [t \in Task |-> NULL]
    BY DEF Init
  <1>2. /\ Root \in Task /\ Tmp \in VfsNode /\ Console \in VfsNode /\ Tmp # Console
        /\ NULL \notin OpenFile /\ NULL \notin VfsNode
        /\ \A n \in Inode : n \in VfsNode /\ n # Tmp /\ n # Console /\ n # NULL
    BY FilesAssumption DEF VfsNode
  <1>3. FTypeOK
    <2>1. NoEntry \in [Name -> Inode \cup {NULL}]
      BY DEF NoEntry
    <2>2. /\ alive \in SUBSET Task /\ parent \in [Task -> Task \cup {NULL}]
          /\ fd_table \in [Task -> [Fd -> OpenFile \cup {NULL}]]
          /\ of_node \in [OpenFile -> VfsNode \cup {NULL}] /\ of_refs \in [OpenFile -> Nat]
      BY <1>1, <1>2
    <2>3. /\ kind \in [VfsNode -> {"free", "file", "dir", "device"}]
          /\ node_refs \in [VfsNode -> Nat] /\ is_unlinked \in [VfsNode -> BOOLEAN]
      BY <1>1
    <2>4. /\ entries \in [VfsNode -> [Name -> Inode \cup {NULL}]] /\ console_open_count \in 0..1
      BY <1>1, <2>1
    <2>5. /\ pc \in [Task -> {"user", "opening", "alloc", "install", "undo", "reading"}]
          /\ hand \in [Task -> OpenFile \cup VfsNode \cup {NULL}]
      BY <1>1
    <2> QED BY <2>2, <2>3, <2>4, <2>5 DEF FTypeOK
  <1>4. AtRest
    BY <1>1 DEF AtRest
  <1>5. \A f \in OpenFile : Holders(f) = {}
    <2> SUFFICES ASSUME NEW f \in OpenFile, NEW h \in Task \X Fd, fd_table[h[1]][h[2]] = f
                 PROVE  FALSE
      BY DEF Holders
    <2>1. PICK u \in Task, i \in Fd : h[1] = u /\ h[2] = i
      OBVIOUS
    <2>2. fd_table[u][i] = NULL
      BY <1>1
    <2> QED BY <1>2, <2>1, <2>2
  <1>6. \A n : Opens(n) = {}
    BY <1>1 DEF Opens
  <1>7. (\A n : Opening(n) = {}) /\ ConsoleOpens = {}
    BY <1>1 DEF Opening, ConsoleOpens
  <1>8. OpenFilesAreCounted /\ OpenFilesAreSound
    BY <1>1, <1>5 DEF OpenFilesAreCounted, OpenFilesAreSound
  <1>9. HandsAreSound
    BY <1>1 DEF HandsAreSound
  <1>10. NodeRefsCoverOpens
    <2>1. Cardinality({}) = 0
      BY FS_EmptySet
    <2>2. \A n \in VfsNode : node_refs[n] = 0 /\ Opens(n) = {} /\ Opening(n) = {}
      BY <1>1, <1>6, <1>7
    <2> QED BY <2>1, <2>2 DEF NodeRefsCoverOpens
  <1>11. NodesAreSound
    BY <1>1, <1>2 DEF NodesAreSound
  <1>12. TreeIsSound
    <2>1. \A n \in Inode : ~Held(n)
      BY <1>1, <1>2 DEF Held
    <2>2. \A n \in Inode : Places(n) = {}
      <3> SUFFICES ASSUME NEW n \in Inode, NEW p \in VfsNode \X Name, entries[p[1]][p[2]] = n
                   PROVE  FALSE
        BY DEF Places
      <3>1. PICK m \in VfsNode, x \in Name : p[1] = m /\ p[2] = x
        OBVIOUS
      <3>2. entries[m][x] = NULL
        BY <1>1 DEF NoEntry
      <3> QED BY <1>2, <3>1, <3>2
    <2>3. \A n \in VfsNode : entries[n] = NoEntry
      BY <1>1
    <2> QED BY <2>1, <2>2, <2>3 DEF TreeIsSound
  <1>13. ConsoleOnce
    BY <1>1, <1>6, <1>7, FS_EmptySet DEF ConsoleOnce
  <1> QED BY <1>3, <1>4, <1>8, <1>9, <1>10, <1>11, <1>12, <1>13 DEF FilesInv

(* in steps that leave these variables alone,                              *)
LEMMA FilesStutters ==
  ASSUME FilesInv, UNCHANGED vars PROVE FilesInv'
  <1>1. /\ alive' = alive /\ parent' = parent /\ fd_table' = fd_table /\ of_node' = of_node
        /\ of_refs' = of_refs /\ kind' = kind /\ node_refs' = node_refs
        /\ is_unlinked' = is_unlinked /\ entries' = entries
        /\ console_open_count' = console_open_count /\ pc' = pc /\ hand' = hand
    BY DEF vars
  <1>2. /\ \A f : Holders(f)' = Holders(f)
        /\ \A n : Opens(n)' = Opens(n) /\ Opening(n)' = Opening(n)
        /\ ConsoleOpens' = ConsoleOpens
    BY <1>1 DEF Holders, Opens, Opening, ConsoleOpens
  <1>3. FTypeOK' /\ AtRest' /\ OpenFilesAreSound' /\ NodesAreSound'
    BY <1>1 DEF FilesInv, FTypeOK, AtRest, OpenFilesAreSound, NodesAreSound
  <1>4. OpenFilesAreCounted'
    BY <1>1, <1>2 DEF FilesInv, OpenFilesAreCounted
  <1>5. HandsAreSound'
    <2>1. \A t \in Task : Holders(hand[t])' = Holders(hand[t])
      BY <1>1 DEF Holders
    <2> QED BY <1>1, <2>1 DEF FilesInv, HandsAreSound
  <1>6. NodeRefsCoverOpens'
    BY <1>1, <1>2 DEF FilesInv, NodeRefsCoverOpens
  <1>7. TreeIsSound'
    <2>1. UNCHANGED inodes
      BY <1>1 DEF inodes
    <2> QED BY <2>1, InodesStay
  <1>8. ConsoleOnce'
    BY <1>1, <1>2 DEF FilesInv, ConsoleOnce
  <1> QED BY <1>3, <1>4, <1>5, <1>6, <1>7, <1>8 DEF FilesInv

(* and every system call keeps it.                                         *)
LEMMA FilesStep == FilesInv /\ [Next]_vars => FilesInv'
  <1> SUFFICES ASSUME FilesInv, [Next]_vars PROVE FilesInv'
    OBVIOUS
  <1>1. ASSUME NEW t \in Task, OpenNode(t) PROVE FilesInv'
    BY <1>1, OpenNodeKeeps
  <1>2. ASSUME NEW t \in Task, Mkdir(t) PROVE FilesInv'
    BY <1>2, MkdirKeeps
  <1>3. ASSUME NEW t \in Task, OpenConsole(t) PROVE FilesInv'
    BY <1>3, OpenConsoleKeeps
  <1>4. ASSUME NEW t \in Task, CountConsole(t) PROVE FilesInv'
    BY <1>4, CountConsoleKeeps
  <1>5. ASSUME NEW t \in Task, OpenAlloc(t) PROVE FilesInv'
    BY <1>5, OpenAllocKeeps
  <1>6. ASSUME NEW t \in Task, OpenInstall(t) PROVE FilesInv'
    BY <1>6, OpenInstallKeeps
  <1>7. ASSUME NEW t \in Task, OpenUndo(t) PROVE FilesInv'
    BY <1>7, OpenUndoKeeps
  <1>8. ASSUME NEW t \in Task, SysClose(t) PROVE FilesInv'
    BY <1>8, SysCloseKeeps
  <1>9. ASSUME NEW t \in Task, Dup(t) PROVE FilesInv'
    BY <1>9, DupKeeps
  <1>10. ASSUME NEW t \in Task, Dup2(t) PROVE FilesInv'
    BY <1>10, Dup2Keeps
  <1>11. ASSUME NEW t \in Task, Unlink(t) PROVE FilesInv'
    BY <1>11, UnlinkKeeps
  <1>12. ASSUME NEW t \in Task, ReadConsole(t) \/ ReadReturns(t) PROVE FilesInv'
    BY <1>12, ReadKeeps
  <1>13. ASSUME NEW t \in Task, Fork(t) PROVE FilesInv'
    BY <1>13, ForkKeeps
  <1>14. ASSUME NEW t \in Task, Exit(t) PROVE FilesInv'
    BY <1>14, ExitKeeps
  <1>15. CASE UNCHANGED vars
    BY <1>15, FilesStutters
  <1> QED BY <1>1, <1>2, <1>3, <1>4, <1>5, <1>6, <1>7, <1>8, <1>9, <1>10, <1>11, <1>12,
             <1>13, <1>14, <1>15 DEF Next

(* So it holds always.                                                     *)
LEMMA FilesInvariance == Spec => []FilesInv
  BY FilesInit, FilesStep, PTL DEF Spec

(* An open file has as many references as descriptors hold it, and an      *)
(* inode at least as many as there are open files of it and calls of       *)
(* sys_open on their way to one: dup, dup2, fork, close and every way to   *)
(* die keep both counts of vfs.c.                                          *)
THEOREM OpensAlwaysCounted == Spec => []OpensAreCounted
  <1>1. FilesInv => OpensAreCounted
    BY DEF FilesInv, OpensAreCounted
  <1> QED BY <1>1, FilesInvariance, PTL

(* No descriptor leads to an open_file_t that was freed, no open_file_t to *)
(* a freed inode, and what sys_open or a console read found is still there *)
(* when it goes on, whatever the others did while it had lost the CPU.     *)
THEOREM NeverUsedAfterFree == Spec => []NoUseAfterFree
  <1>1. FilesInv => NoUseAfterFree
    <2> SUFFICES ASSUME FilesInv PROVE NoUseAfterFree
      OBVIOUS
    <2>1. \A f \in OpenFile : of_refs[f] > 0 => of_node[f] # NULL /\ kind[of_node[f]] # "free"
      <3>1. NULL \notin VfsNode
        BY FilesAssumption DEF VfsNode
      <3> QED BY <3>1 DEF FilesInv, OpenFilesAreSound
    <2>2. \A f \in OpenFile : Holders(f) # {} => of_refs[f] > 0
      <3>1. {} \in SUBSET (Task \X Fd)
        OBVIOUS
      <3> QED BY <3>1, DropFacts
    <2>3. ASSUME NEW t \in Task, pc[t] \in {"install", "reading"} PROVE of_refs[hand[t]] > 0
      <3>1. CASE pc[t] = "install"
        BY <3>1 DEF FilesInv, HandsAreSound
      <3>2. CASE pc[t] = "reading"
        <4>1. PICK f \in OpenFile, i \in Fd : f = hand[t] /\ fd_table[t][i] = f
          BY <3>2 DEF FilesInv, HandsAreSound
        <4>2. <<t, i>> \in Holders(f)
          BY <4>1 DEF Holders
        <4> QED BY <2>2, <4>1, <4>2
      <3> QED BY <2>3, <3>1, <3>2
    <2>4. ASSUME NEW t \in Task, pc[t] \in {"opening", "alloc", "undo"} PROVE kind[hand[t]] # "free"
      BY <2>4 DEF FilesInv, HandsAreSound, NodesAreSound
    <2> QED BY <2>1, <2>2, <2>3, <2>4 DEF NoUseAfterFree
  <1> QED BY <1>1, FilesInvariance, PTL

(* The tmpfs tree holds each inode that is not unlinked in exactly one     *)
(* place, and nothing hangs below a node that is gone or unlinked: create, *)
(* mkdir, unlink and the last close lose no subtree.                       *)
THEOREM TreeAlwaysHoldsLiveNodes == Spec => []TreeHoldsLiveNodes
  <1>1. FilesInv => TreeHoldsLiveNodes
    <2> SUFFICES ASSUME FilesInv PROVE TreeHoldsLiveNodes
      OBVIOUS
    <2>1. ASSUME NEW n \in Inode
          PROVE  IF Held(n) THEN Cardinality(Places(n)) = 1 ELSE Places(n) = {}
      <3>1. CASE Held(n)
        <4>1. PICK p \in VfsNode \X Name : Places(n) = {p}
          BY <3>1 DEF FilesInv, TreeIsSound
        <4> QED BY <3>1, <4>1, FS_Singleton
      <3>2. CASE ~Held(n)
        BY <3>2 DEF FilesInv, TreeIsSound
      <3> QED BY <3>1, <3>2
    <2>2. \A n \in VfsNode : n \notin Directory => entries[n] = NoEntry
      BY DEF FilesInv, TreeIsSound
    <2> QED BY <2>1, <2>2 DEF TreeHoldsLiveNodes, Places, Held
  <1> QED BY <1>1, FilesInvariance, PTL

(* /dev/console has one open file at most, or one sys_open that will make  *)
(* it, though sys_open can lose the CPU between the check and the count.   *)
THEOREM ConsoleAlwaysExclusive == Spec => []ConsoleIsExclusive
  <1>1. FilesInv => ConsoleIsExclusive
    <2> SUFFICES ASSUME FilesInv PROVE ConsoleIsExclusive
      OBVIOUS
    <2>1. Cardinality(Opens(Console)) \in Nat /\ Cardinality(ConsoleOpens) \in Nat
      BY FiniteSets, CardZero
    <2>2. Cardinality(Opens(Console)) + Cardinality(ConsoleOpens) <= console_open_count
          /\ console_open_count \in 0..1
      BY DEF FilesInv, ConsoleOnce, FTypeOK
    <2>3. Cardinality(Opens(Console)) + Cardinality(ConsoleOpens) <= 1
      BY <2>1, <2>2
    <2> QED BY <2>3 DEF ConsoleIsExclusive, ConsoleOpens
  <1> QED BY <1>1, FilesInvariance, PTL
=============================================================================
