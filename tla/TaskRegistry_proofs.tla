------------------------ MODULE TaskRegistry_proofs ------------------------
(***************************************************************************)
(* For any number of instances, tasks and items, and any bound on stops    *)
(* and faults: type correctness, that a live coroutine is listed and that  *)
(* a stop command finds it, what the clean-up leaves, and how a task can   *)
(* get lost from the set of its item.                                      *)
(***************************************************************************)
EXTENDS TaskRegistry, TLAPS

USE DEF Active, Up, ListenerState, RunState, CreatorState, CleanerState

(* The domains of the state, kept by every action.                         *)
LEMMA TypeInductive == TypeOK /\ [Next]_vars => TypeOK'
<1>. SUFFICES ASSUME TypeOK, [Next]_vars PROVE TypeOK'
  OBVIOUS
<1>. USE RegistryAssumption DEF TypeOK
<1>1. ASSUME NEW t \in Task, TaskStep(t) PROVE TypeOK'
  <2>1. ASSUME NEW w \in Instance, NEW i \in Item, CreateTask(t, w, i) PROVE TypeOK'
    BY <2>1 DEF CreateTask
  <2>2. CASE RedisSaveTask(t)
    BY <2>2 DEF RedisSaveTask
  <2>3. CASE EndTask(t)
    BY <2>3 DEF EndTask
  <2>4. CASE RedisForget(t)
    BY <2>4 DEF RedisForget
  <2>5. CASE RedisDeleteItem(t)
    BY <2>5 DEF RedisDeleteItem
  <2>6. CASE LocalForget(t)
    <3>. DEFINE w == owner[t]
                row == [itemTasks[w] EXCEPT ![itemOf[t]] = @ \ {t}]
    <3>1. ASSUME w \in Instance PROVE row \in [Item -> SUBSET Task]
      <4>1. itemTasks[w] \in [Item -> SUBSET Task]
        BY <3>1
      <4>. QED BY <4>1
    <3>2. itemTasks' = [itemTasks EXCEPT ![w] = row]
      BY <2>6 DEF LocalForget
    <3>3. itemTasks' \in [Instance -> [Item -> SUBSET Task]]
      <4>. HIDE DEF row
      <4>. QED BY <3>1, <3>2
    <3>. QED
      BY <2>6, <3>3 DEF LocalForget
  <2>7. CASE RedisError(t)
    BY <2>7 DEF RedisError
  <2>8. CASE StopTask(t)
    BY <2>8 DEF StopTask, Published
  <2>. QED
    BY <1>1, <2>1, <2>2, <2>3, <2>4, <2>5, <2>6, <2>7, <2>8 DEF TaskStep
<1>2. ASSUME NEW i \in Item, StopItemTasks(i) \/ StopNext(i) PROVE TypeOK'
  <2>1. CASE StopItemTasks(i)
    BY <2>1 DEF StopItemTasks
  <2>2. CASE StopNext(i)
    BY <2>2 DEF StopNext, Published
  <2>. QED
    BY <1>2, <2>1, <2>2
<1>3. ASSUME NEW w \in Instance, InstanceStep(w) PROVE TypeOK'
  <2>1. CASE Subscribe(w)
    BY <2>1 DEF Subscribe
  <2>2. CASE HandleStop(w)
    BY <2>2 DEF HandleStop
  <2>3. CASE ListenerFails(w)
    BY <2>3 DEF ListenerFails
  <2>4. CASE Crash(w)
    BY <2>4 DEF Crash
  <2>5. CASE Restart(w)
    BY <2>5 DEF Restart
  <2>. QED
    BY <1>3, <2>1, <2>2, <2>3, <2>4, <2>5 DEF InstanceStep
<1>4. CASE UNCHANGED vars
  BY <1>4 DEF vars
<1>. QED
  BY <1>1, <1>2, <1>3, <1>4 DEF Next

(* Every variable keeps its domain whatever the coroutines of the          *)
(* instances, the publishers, the crashes and the Redis errors do.         *)
THEOREM TypeCorrect == Spec => []TypeOK
<1>1. Init => TypeOK
  BY RegistryAssumption DEF Init, TypeOK
<1>. QED
  BY <1>1, TypeInductive, PTL DEF Spec

-----------------------------------------------------------------------------
(***************************************************************************)
(* The strengthening: what a task's own history says about its calls.      *)
(* Without Placed nothing says where RedisForget's task runs, and without  *)
(* CleanedAfterEnd a cleanup could belong to a live coroutine.             *)
(***************************************************************************)

Placed ==
    \A t \in Task :
        /\ run[t] # "none" => owner[t] \in Instance /\ itemOf[t] \in Item
        /\ run[t] \in Active => owner[t] \in Up

CleanedAfterEnd ==
    \A t \in Task :
        /\ cleaner[t] # "none" => run[t] \notin Active
        /\ run[t] = "none" => cleaner[t] = "none" /\ creator[t] = "none"

KeptByOwner ==
    \A t \in Task, w \in Instance :
        /\ t \in tasks[w] => run[t] # "none" /\ owner[t] = w
        /\ run[t] \in Active /\ owner[t] = w => t \in tasks[w]

RegistryInv == TypeOK /\ Placed /\ CleanedAfterEnd /\ KeptByOwner /\ ActiveListed

LEMMA InitRegistryInv == Init => RegistryInv
BY RegistryAssumption
   DEF Init, TypeOK, RegistryInv, Placed, CleanedAfterEnd, KeptByOwner, ActiveListed

(* Steps that a task itself takes: creation, save, end, cleanup.           *)
LEMMA TaskStepKeeps ==
    ASSUME RegistryInv, NEW t \in Task, TaskStep(t), TypeOK'
    PROVE  RegistryInv'
<1>. USE RegistryAssumption
     DEF RegistryInv, Placed, CleanedAfterEnd, KeptByOwner, ActiveListed, TypeOK
<1>1. ASSUME NEW w \in Instance, NEW i \in Item, CreateTask(t, w, i)
      PROVE  RegistryInv'
  <2>1. Placed'
    BY <1>1 DEF CreateTask
  <2>2. CleanedAfterEnd'
    BY <1>1 DEF CreateTask
  <2>3. KeptByOwner'
    BY <1>1 DEF CreateTask
  <2>4. ActiveListed'
    BY <1>1 DEF CreateTask
  <2>. QED BY <2>1, <2>2, <2>3, <2>4
<1>2. CASE RedisSaveTask(t)
  BY <1>2 DEF RedisSaveTask
<1>3. CASE EndTask(t)
  BY <1>3 DEF EndTask
<1>4. CASE RedisForget(t)
  BY <1>4 DEF RedisForget
<1>5. CASE RedisDeleteItem(t)
  BY <1>5 DEF RedisDeleteItem
<1>6. CASE LocalForget(t)
  BY <1>6 DEF LocalForget
<1>7. CASE RedisError(t)
  BY <1>7 DEF RedisError
<1>8. CASE StopTask(t)
  BY <1>8 DEF StopTask
<1>. QED
  BY <1>1, <1>2, <1>3, <1>4, <1>5, <1>6, <1>7, <1>8 DEF TaskStep

(* Steps of a process: a crash takes coroutines and dictionary together.   *)
LEMMA InstanceStepKeeps ==
    ASSUME RegistryInv, NEW w \in Instance, InstanceStep(w), TypeOK'
    PROVE  RegistryInv'
<1>. USE RegistryAssumption
     DEF RegistryInv, Placed, CleanedAfterEnd, KeptByOwner, ActiveListed, TypeOK
<1>1. CASE Subscribe(w)
  BY <1>1 DEF Subscribe
<1>2. CASE HandleStop(w)
  BY <1>2 DEF HandleStop
<1>3. CASE ListenerFails(w)
  BY <1>3 DEF ListenerFails
<1>4. CASE Crash(w)
  <2>1. Placed'
    BY <1>4 DEF Crash
  <2>2. CleanedAfterEnd'
    BY <1>4 DEF Crash
  <2>3. KeptByOwner'
    BY <1>4 DEF Crash
  <2>4. ActiveListed'
    BY <1>4 DEF Crash
  <2>. QED BY <2>1, <2>2, <2>3, <2>4
<1>5. CASE Restart(w)
  BY <1>5 DEF Restart
<1>. QED
  BY <1>1, <1>2, <1>3, <1>4, <1>5 DEF InstanceStep

LEMMA RegistryInductive == RegistryInv /\ [Next]_vars => RegistryInv'
<1>. SUFFICES ASSUME RegistryInv, [Next]_vars PROVE RegistryInv'
  OBVIOUS
<1>0. TypeOK'
  BY TypeInductive DEF RegistryInv
<1>1. ASSUME NEW t \in Task, TaskStep(t) PROVE RegistryInv'
  BY <1>0, <1>1, TaskStepKeeps
<1>2. ASSUME NEW i \in Item, StopItemTasks(i) \/ StopNext(i) PROVE RegistryInv'
  BY <1>0, <1>2 DEF RegistryInv, Placed, CleanedAfterEnd, KeptByOwner,
                    ActiveListed, StopItemTasks, StopNext
<1>3. ASSUME NEW w \in Instance, InstanceStep(w) PROVE RegistryInv'
  BY <1>0, <1>3, InstanceStepKeeps
<1>4. CASE UNCHANGED vars
  BY <1>0, <1>4 DEF RegistryInv, Placed, CleanedAfterEnd, KeptByOwner,
                    ActiveListed, vars
<1>. QED
  BY <1>1, <1>2, <1>3, <1>4 DEF Next

LEMMA RegistryInvHolds == Spec => []RegistryInv
BY InitRegistryInv, RegistryInductive, PTL DEF Spec

(* list_tasks shows every live coroutine whose create_task() returned.     *)
THEOREM ActiveIsListed == Spec => []ActiveListed
<1>1. RegistryInv => ActiveListed
  BY DEF RegistryInv
<1>. QED
  BY <1>1, RegistryInvHolds, PTL

(* A stop command handled by every instance finds a live coroutine in the  *)
(* dictionary of its own instance and of no other.                         *)
THEOREM ActiveIsReachable == Spec => []ActiveReachable
<1>1. RegistryInv => ActiveReachable
  BY DEF RegistryInv, TypeOK, Placed, KeptByOwner, ActiveReachable
<1>. QED
  BY <1>1, RegistryInvHolds, PTL

-----------------------------------------------------------------------------
(***************************************************************************)
(* What the clean-up leaves behind, and to whom                            *)
(***************************************************************************)

(* What is in a dictionary of a process is there for a coroutine of that   *)
(* process, which runs, or ended with a clean-up that is yet to take it    *)
(* out, or that Redis refused.  Nothing else leaks.                        *)
LocalLeftovers ==
    \A t \in Task, w \in Instance :
        t \in tasks[w] \/ (\E i \in Item : t \in itemTasks[w][i]) =>
            /\ w = owner[t]
            /\ run[t] \in Active
               \/ cleaner[t] \in {"scheduled", "emptying", "local", "failed"}

(* The list of an item that holds the id is the one that LocalForget takes *)
(* it out of; a clean-up that finished or died has left nothing.           *)
LeftoversInv ==
    /\ \A t \in Task, w \in Instance, i \in Item :
           t \in itemTasks[w][i] => run[t] # "none" /\ w = owner[t] /\ i = itemOf[t]
    /\ LocalLeftovers

LEMMA LeftoversInductive ==
    RegistryInv /\ LeftoversInv /\ [Next]_vars => LeftoversInv'
<1>. SUFFICES ASSUME RegistryInv, LeftoversInv, [Next]_vars PROVE LeftoversInv'
  OBVIOUS
<1>. USE RegistryAssumption DEF LeftoversInv, LocalLeftovers
<1>0. TypeOK /\ Placed /\ CleanedAfterEnd /\ KeptByOwner
  BY DEF RegistryInv
<1>1. ASSUME NEW t \in Task, NEW w \in Instance, NEW i \in Item, CreateTask(t, w, i)
      PROVE  LeftoversInv'
  <2>1. \A v \in Instance : t \notin tasks[v] /\ \A j \in Item : t \notin itemTasks[v][j]
    BY <1>0, <1>1 DEF KeptByOwner, CreateTask
  <2>2. /\ run' = [run EXCEPT ![t] = "running"]
        /\ owner' = [owner EXCEPT ![t] = w]
        /\ itemOf' = [itemOf EXCEPT ![t] = i]
        /\ tasks' = [tasks EXCEPT ![w] = tasks[w] \cup {t}]
        /\ itemTasks' = [itemTasks EXCEPT ![w][i] = itemTasks[w][i] \cup {t}]
        /\ UNCHANGED cleaner
    BY <1>1 DEF CreateTask
  <2>3. \A u \in Task, v \in Instance, j \in Item :
            u \in itemTasks'[v][j] => u \in itemTasks[v][j] \/ (u = t /\ v = w /\ j = i)
    BY <1>0, <2>2 DEF TypeOK
  <2>4. \A u \in Task, v \in Instance :
            u \in tasks'[v] => u \in tasks[v] \/ (u = t /\ v = w)
    BY <1>0, <2>2 DEF TypeOK
  <2>5. /\ run'[t] = "running" /\ owner'[t] = w /\ itemOf'[t] = i
        /\ \A u \in Task \ {t} : run'[u] = run[u] /\ owner'[u] = owner[u] /\ itemOf'[u] = itemOf[u]
    BY <1>0, <2>2 DEF TypeOK
  <2>. QED
    BY <2>1, <2>2, <2>3, <2>4, <2>5
<1>2. ASSUME NEW t \in Task, RedisSaveTask(t) PROVE LeftoversInv'
  BY <1>2 DEF RedisSaveTask
<1>3. ASSUME NEW t \in Task, EndTask(t) PROVE LeftoversInv'
  BY <1>0, <1>3 DEF EndTask, TypeOK
<1>4. ASSUME NEW t \in Task, RedisForget(t) PROVE LeftoversInv'
  BY <1>0, <1>4 DEF RedisForget, TypeOK
<1>5. ASSUME NEW t \in Task, RedisDeleteItem(t) PROVE LeftoversInv'
  BY <1>0, <1>5 DEF RedisDeleteItem, TypeOK
<1>6. ASSUME NEW t \in Task, LocalForget(t) PROVE LeftoversInv'
  <2>1. /\ cleaner[t] = "local"
        /\ tasks' = [tasks EXCEPT ![owner[t]] = tasks[owner[t]] \ {t}]
        /\ itemTasks' = [itemTasks EXCEPT ![owner[t]][itemOf[t]] =
                                              itemTasks[owner[t]][itemOf[t]] \ {t}]
        /\ cleaner' = [cleaner EXCEPT ![t] = "finished"]
        /\ UNCHANGED <<owner, itemOf, run>>
    BY <1>6 DEF LocalForget
  <2>2. owner[t] \in Instance /\ itemOf[t] \in Item
    BY <1>0, <2>1 DEF CleanedAfterEnd, Placed
  <2>3. \A v \in Instance : t \notin tasks'[v]
    BY <1>0, <2>1, <2>2 DEF TypeOK, KeptByOwner
  <2>4. \A v \in Instance, j \in Item : t \notin itemTasks'[v][j]
    BY <1>0, <2>1, <2>2 DEF TypeOK
  <2>5. \A u \in Task, v \in Instance :
            /\ u \in tasks'[v] => u \in tasks[v]
            /\ \A j \in Item : u \in itemTasks'[v][j] => u \in itemTasks[v][j]
    BY <1>0, <2>1, <2>2 DEF TypeOK
  <2>6. \A u \in Task : u # t => cleaner'[u] = cleaner[u]
    BY <1>0, <2>1 DEF TypeOK
  <2>. QED
    BY <2>1, <2>3, <2>4, <2>5, <2>6
<1>7. ASSUME NEW t \in Task, RedisError(t) PROVE LeftoversInv'
  BY <1>0, <1>7 DEF RedisError, TypeOK
<1>8. ASSUME NEW t \in Task, StopTask(t) PROVE LeftoversInv'
  BY <1>8 DEF StopTask
<1>9. ASSUME NEW i \in Item, StopItemTasks(i) \/ StopNext(i) PROVE LeftoversInv'
  BY <1>9 DEF StopItemTasks, StopNext
<1>10. ASSUME NEW w \in Instance, Subscribe(w) \/ HandleStop(w) \/ ListenerFails(w) \/ Restart(w)
       PROVE  LeftoversInv'
  <2>1. UNCHANGED <<tasks, itemTasks, owner, itemOf, cleaner>>
    BY <1>10 DEF Subscribe, HandleStop, ListenerFails, Restart
  <2>2. \A u \in Task : /\ run[u] \in Active => run'[u] \in Active
                        /\ run'[u] = "none" => run[u] = "none"
    <3>1. CASE Subscribe(w) \/ ListenerFails(w) \/ Restart(w)
      BY <3>1 DEF Subscribe, ListenerFails, Restart
    <3>2. CASE HandleStop(w)
      <4>1. UNCHANGED run \/ \E t \in Task : run' = [run EXCEPT ![t] = "cancelling"] /\ run[t] = "running"
        BY <1>0, <3>2 DEF HandleStop, TypeOK
      <4>. QED
        BY <1>0, <4>1 DEF TypeOK, Active
    <3>. QED
      BY <1>10, <3>1, <3>2
  <2>. QED
    BY <2>1, <2>2 DEF Active
<1>11. ASSUME NEW w \in Instance, Crash(w) PROVE LeftoversInv'
  <2>1. /\ tasks' = [tasks EXCEPT ![w] = {}]
        /\ itemTasks' = [itemTasks EXCEPT ![w] = [i \in Item |-> {}]]
        /\ UNCHANGED <<owner, itemOf>>
        /\ \A u \in Task : owner[u] # w => run'[u] = run[u] /\ cleaner'[u] = cleaner[u]
    BY <1>11 DEF Crash
  <2>2. /\ tasks'[w] = {} /\ \A i \in Item : itemTasks'[w][i] = {}
        /\ \A v \in Instance \ {w} : tasks'[v] = tasks[v] /\ itemTasks'[v] = itemTasks[v]
    BY <1>0, <2>1 DEF TypeOK
  <2>. QED
    BY <2>1, <2>2
<1>12. CASE UNCHANGED vars
  BY <1>12 DEF vars
<1>. QED
  BY <1>1, <1>2, <1>3, <1>4, <1>5, <1>6, <1>7, <1>8, <1>9, <1>10, <1>11, <1>12
  DEF Next, TaskStep, InstanceStep

(* LocalLeftovers, which LocalDrains rests on: cleanup_task's part in      *)
(* `tasks` and `item_tasks` is never skipped but by an error of Redis.     *)
THEOREM LeftoversAreOwed == Spec => []LocalLeftovers
<1>1. Init => LeftoversInv
  BY DEF Init, LeftoversInv, LocalLeftovers
<1>2. LeftoversInv => LocalLeftovers
  BY DEF LeftoversInv
<1>. QED
  BY <1>1, <1>2, LeftoversInductive, RegistryInvHolds, PTL DEF Spec

-----------------------------------------------------------------------------
(***************************************************************************)
(* What enters and what leaves Redis                                       *)
(***************************************************************************)

(* redis_save_task alone lists an id, once: after create_task() has        *)
(* returned, what has left the hash or a set does not come back.           *)
ForgottenForGood ==
    [][\A t \in Task : creator[t] = "returned" =>
          /\ t \notin hash => t \notin hash'
          /\ \A i \in Item : t \notin itemSet[i] => t \notin itemSet'[i]]_vars

(* An id of a live coroutine disappears from the set of its item in one    *)
(* way only: cleanup_task has found the set empty for another task of the  *)
(* item, and its second transaction deletes the key that create_task() has *)
(* filled again in between.                                                *)
OnlyTheDeleteLoses ==
    [][\A t \in Task :
          /\ run[t] \in Active /\ creator[t] = "returned"
          /\ t \in itemSet[itemOf[t]] /\ t \notin itemSet'[itemOf[t]]
          => \E u \in Task \ {t} :
                 /\ itemOf[u] = itemOf[t] /\ run[u] \notin Active
                 /\ cleaner[u] = "emptying" /\ cleaner'[u] = "local"]_vars

(* How a step changes what Redis has of the tasks.                         *)
LEMMA RedisSteps ==
    ASSUME RegistryInv, [Next]_vars
    PROVE  \/ UNCHANGED <<hash, itemSet>>
           \/ \E t \in Task : RedisSaveTask(t) \/ RedisForget(t) \/ RedisDeleteItem(t)
<1>1. ASSUME NEW t \in Task, TaskStep(t)
      PROVE  UNCHANGED <<hash, itemSet>> \/ RedisSaveTask(t) \/ RedisForget(t) \/ RedisDeleteItem(t)
  BY <1>1 DEF TaskStep, CreateTask, EndTask, LocalForget, RedisError, StopTask
<1>2. ASSUME NEW i \in Item, StopItemTasks(i) \/ StopNext(i) PROVE UNCHANGED <<hash, itemSet>>
  BY <1>2 DEF StopItemTasks, StopNext
<1>3. ASSUME NEW w \in Instance, InstanceStep(w) PROVE UNCHANGED <<hash, itemSet>>
  BY <1>3 DEF InstanceStep, Subscribe, HandleStop, ListenerFails, Crash, Restart
<1>4. CASE UNCHANGED vars
  BY <1>4 DEF vars
<1>. QED
  BY <1>1, <1>2, <1>3, <1>4 DEF Next

(* ForgottenForGood: the safety half of RegistryDrains.                    *)
THEOREM NoReturnToRedis == Spec => ForgottenForGood
<1>1. RegistryInv /\ [Next]_vars
        => [\A t \in Task : creator[t] = "returned" =>
               /\ t \notin hash => t \notin hash'
               /\ \A i \in Item : t \notin itemSet[i] => t \notin itemSet'[i]]_vars
  <2>. SUFFICES ASSUME RegistryInv, [Next]_vars, NEW t \in Task, creator[t] = "returned"
                PROVE  /\ t \notin hash => t \notin hash'
                       /\ \A i \in Item : t \notin itemSet[i] => t \notin itemSet'[i]
    OBVIOUS
  <2>1. itemSet \in [Item -> SUBSET Task]
    BY DEF RegistryInv, TypeOK
  <2>2. ASSUME NEW u \in Task, RedisSaveTask(u) \/ RedisForget(u) \/ RedisDeleteItem(u)
        PROVE  /\ t \notin hash => t \notin hash'
               /\ \A i \in Item : t \notin itemSet[i] => t \notin itemSet'[i]
    BY <2>1, <2>2 DEF RedisSaveTask, RedisForget, RedisDeleteItem
  <2>. QED
    BY <2>2, RedisSteps
<1>. QED
  BY <1>1, RegistryInvHolds, PTL DEF Spec, ForgottenForGood

(* OnlyTheDeleteLoses: the two transactions of cleanup_task are all that   *)
(* ItemListComplete can fail by, once the save has been made.              *)
THEOREM LossNeedsTheDelete == Spec => OnlyTheDeleteLoses
<1>1. RegistryInv /\ [Next]_vars
        => [\A t \in Task :
               /\ run[t] \in Active /\ creator[t] = "returned"
               /\ t \in itemSet[itemOf[t]] /\ t \notin itemSet'[itemOf[t]]
               => \E u \in Task \ {t} :
                      /\ itemOf[u] = itemOf[t] /\ run[u] \notin Active
                      /\ cleaner[u] = "emptying" /\ cleaner'[u] = "local"]_vars
  <2>. SUFFICES ASSUME RegistryInv, [Next]_vars, NEW t \in Task,
                       run[t] \in Active, creator[t] = "returned",
                       t \in itemSet[itemOf[t]], t \notin itemSet'[itemOf[t]]
                PROVE  \E u \in Task \ {t} :
                           /\ itemOf[u] = itemOf[t] /\ run[u] \notin Active
                           /\ cleaner[u] = "emptying" /\ cleaner'[u] = "local"
    OBVIOUS
  <2>1. /\ itemSet \in [Item -> SUBSET Task]
        /\ cleaner \in [Task -> CleanerState]
        /\ itemOf[t] \in Item
        /\ cleaner[t] = "none"
    BY DEF RegistryInv, TypeOK, Placed, CleanedAfterEnd, Active
  <2>2. PICK u \in Task : RedisSaveTask(u) \/ RedisForget(u) \/ RedisDeleteItem(u)
    BY RedisSteps
  <2>3. CASE RedisSaveTask(u)
    BY <2>1, <2>3 DEF RedisSaveTask
  <2>4. CASE RedisForget(u)
    <3>1. u # t
      BY <2>1, <2>4 DEF RedisForget
    <3>2. itemSet' = [itemSet EXCEPT ![itemOf[u]] = itemSet[itemOf[u]] \ {u}]
      BY <2>4 DEF RedisForget
    <3>. QED
      BY <2>1, <3>1, <3>2
  <2>5. CASE RedisDeleteItem(u)
    <3>1. /\ cleaner[u] = "emptying"
          /\ itemSet' = [itemSet EXCEPT ![itemOf[u]] = {}]
          /\ cleaner' = [cleaner EXCEPT ![u] = "local"]
      BY <2>5 DEF RedisDeleteItem
    <3>2. u # t /\ itemOf[u] = itemOf[t] /\ cleaner'[u] = "local"
      BY <2>1, <3>1
    <3>3. run[u] \notin Active
      BY <3>1 DEF RegistryInv, CleanedAfterEnd
    <3>. QED
      BY <3>1, <3>2, <3>3
  <2>. QED
    BY <2>2, <2>3, <2>4, <2>5
<1>. QED
  BY <1>1, RegistryInvHolds, PTL DEF Spec, OnlyTheDeleteLoses
=============================================================================
