---------------------------- MODULE TaskRegistry ----------------------------
(***************************************************************************)
(* The distributed registry of asyncio tasks (open_webui/tasks.py) in the  *)
(* deployment with Redis: several server instances share one Redis, each   *)
(* keeps its own dictionary `tasks`, and a stop command reaches the task   *)
(* over a pub/sub channel that every instance listens to.                  *)
(*                                                                         *)
(* A step is what one coroutine does between two awaits.  A redis-py       *)
(* pipeline is a MULTI/EXEC transaction, so the commands of one execute()  *)
(* are one step; two execute() calls of one function are two steps, and    *)
(* two coroutines use two connections: nothing orders their commands.      *)
(***************************************************************************)
EXTENDS Naturals

CONSTANTS Instance,     \* server processes
          Task,         \* task ids: uuid4, each used once
          Item,         \* what create_task is called for: chats, case nodes, notes
          NoInstance,   \* the owner of a task that does not exist yet
          NoItem,       \* its item
          MaxStops,     \* bound on the stop requests of a behaviour
          MaxFaults     \* bound on its crashes, listener failures, Redis errors

ASSUME RegistryAssumption ==
    /\ NoInstance \notin Instance
    /\ NoItem \notin Item
    /\ MaxStops \in Nat
    /\ MaxFaults \in Nat

VARIABLES
    listener,   \* instance -> state of its redis_task_command_listener
    owner,      \* task -> the instance whose event loop runs it
    itemOf,     \* task -> the item given to create_task
    run,        \* task -> state of the coroutine
    creator,    \* task -> where its create_task() call is
    cleaner,    \* task -> where its cleanup_task() call is
    tasks,      \* instance -> keys of its dictionary `tasks`
    itemTasks,  \* instance -> item -> ids in its dictionary `item_tasks`
    hash,       \* keys of the Redis hash REDIS_TASKS_KEY
    itemSet,    \* item -> members of the Redis set REDIS_ITEM_TASKS_KEY:<item>
    inbox,      \* instance -> stop commands its subscription has yet to yield
    stopping,   \* item -> ids its stop_item_tasks() calls have yet to publish
    stops,      \* stop requests made so far
    faults      \* crashes, listener failures and Redis errors so far

vars == <<listener, owner, itemOf, run, creator, cleaner, tasks, itemTasks,
          hash, itemSet, inbox, stopping, stops, faults>>

-----------------------------------------------------------------------------
Active == {"running", "cancelling"}

ListenerState == {"down", "starting", "subscribed", "failed"}
RunState      == Active \cup {"none", "done", "lost"}
CreatorState  == {"none", "saving", "returned", "failed", "lost"}
CleanerState  == {"none", "scheduled", "emptying", "local", "finished", "failed",
                  "lost"}

Up == {w \in Instance : listener[w] # "down"}

TypeOK ==
    /\ listener \in [Instance -> ListenerState]
    /\ owner \in [Task -> Instance \cup {NoInstance}]
    /\ itemOf \in [Task -> Item \cup {NoItem}]
    /\ run \in [Task -> RunState]
    /\ creator \in [Task -> CreatorState]
    /\ cleaner \in [Task -> CleanerState]
    /\ tasks \in [Instance -> SUBSET Task]
    /\ itemTasks \in [Instance -> [Item -> SUBSET Task]]
    /\ hash \in SUBSET Task
    /\ itemSet \in [Item -> SUBSET Task]
    /\ inbox \in [Instance -> SUBSET Task]
    /\ stopping \in [Item -> SUBSET Task]
    /\ stops \in 0..MaxStops
    /\ faults \in 0..MaxFaults

Init ==
    /\ listener = [w \in Instance |-> "starting"]
    /\ owner = [t \in Task |-> NoInstance]
    /\ itemOf = [t \in Task |-> NoItem]
    /\ run = [t \in Task |-> "none"]
    /\ creator = [t \in Task |-> "none"]
    /\ cleaner = [t \in Task |-> "none"]
    /\ tasks = [w \in Instance |-> {}]
    /\ itemTasks = [w \in Instance |-> [i \in Item |-> {}]]
    /\ hash = {}
    /\ itemSet = [i \in Item |-> {}]
    /\ inbox = [w \in Instance |-> {}]
    /\ stopping = [i \in Item |-> {}]
    /\ stops = 0
    /\ faults = 0

-----------------------------------------------------------------------------
(***************************************************************************)
(* Faulty variants of the definitions below: each is the code with one     *)
(* plausible mistake, and some property must tell it from the code.        *)
(***************************************************************************)

(* the item's tasks all leave the hash with the first that ends *)
RedisForgetItem(t) ==
    LET left == itemSet[itemOf[t]] \ {t} IN
    /\ cleaner[t] = "scheduled"
    /\ hash' = hash \ itemSet[itemOf[t]]
    /\ itemSet' = [itemSet EXCEPT ![itemOf[t]] = left]
    /\ cleaner' = [cleaner EXCEPT ![t] = IF left = {} THEN "emptying" ELSE "local"]
    /\ UNCHANGED <<listener, owner, itemOf, run, creator, tasks, itemTasks,
                   inbox, stopping, stops, faults>>

(* the id never leaves the hash *)
RedisForgetSetOnly(t) ==
    LET left == itemSet[itemOf[t]] \ {t} IN
    /\ cleaner[t] = "scheduled"
    /\ itemSet' = [itemSet EXCEPT ![itemOf[t]] = left]
    /\ cleaner' = [cleaner EXCEPT ![t] = IF left = {} THEN "emptying" ELSE "local"]
    /\ UNCHANGED <<listener, owner, itemOf, run, creator, tasks, itemTasks, hash,
                   inbox, stopping, stops, faults>>

(* a deleted key is not read as the empty set *)
RedisDropKey(t) ==
    /\ cleaner[t] = "emptying"
    /\ itemSet' = [i \in Item \ {itemOf[t]} |-> itemSet[i]]
    /\ cleaner' = [cleaner EXCEPT ![t] = "local"]
    /\ UNCHANGED <<listener, owner, itemOf, run, creator, tasks, itemTasks, hash,
                   inbox, stopping, stops, faults>>

(* item_tasks keeps the id *)
LocalForgetTaskOnly(t) ==
    /\ cleaner[t] = "local"
    /\ tasks' = [tasks EXCEPT ![owner[t]] = @ \ {t}]
    /\ cleaner' = [cleaner EXCEPT ![t] = "finished"]
    /\ UNCHANGED <<listener, owner, itemOf, run, creator, itemTasks, hash, itemSet,
                   inbox, stopping, stops, faults>>

(* the listener pops the task, as the branch of stop_task without Redis does *)
HandleStopPops(w) ==
    \E t \in inbox[w] :
        /\ listener[w] = "subscribed"
        /\ inbox' = [inbox EXCEPT ![w] = @ \ {t}]
        /\ tasks' = [tasks EXCEPT ![w] = @ \ {t}]
        /\ run' = IF t \in tasks[w] /\ run[t] = "running"
                  THEN [run EXCEPT ![t] = "cancelling"] ELSE run
        /\ UNCHANGED <<listener, owner, itemOf, creator, cleaner, itemTasks, hash,
                       itemSet, stopping, stops, faults>>

(* stop_item_tasks returns after its first command *)
StopFirst(i) ==
    \E t \in stopping[i] :
        /\ inbox' = [w \in Instance |-> IF listener[w] = "subscribed"
                                        THEN inbox[w] \cup {t} ELSE inbox[w]]
        /\ stopping' = [stopping EXCEPT ![i] = {}]
        /\ UNCHANGED <<listener, owner, itemOf, run, creator, cleaner, tasks,
                       itemTasks, hash, itemSet, stops, faults>>

-----------------------------------------------------------------------------
(* create_task: register locally, then save in Redis while it may run.     *)

CreateTask(t, w, i) ==
    /\ run[t] = "none"
    /\ w \in Up
    /\ owner' = [owner EXCEPT ![t] = w]
    /\ itemOf' = [itemOf EXCEPT ![t] = i]
    /\ run' = [run EXCEPT ![t] = "running"]
    /\ creator' = [creator EXCEPT ![t] = "saving"]
    /\ tasks' = [tasks EXCEPT ![w] = @ \cup {t}]
    /\ itemTasks' = [itemTasks EXCEPT ![w][i] = @ \cup {t}]
    /\ UNCHANGED <<listener, cleaner, hash, itemSet, inbox, stopping, stops, faults>>

RedisSaveTask(t) ==
    /\ creator[t] = "saving"
    /\ hash' = hash \cup {t}
    /\ itemSet' = [itemSet EXCEPT ![itemOf[t]] = @ \cup {t}]
    /\ creator' = [creator EXCEPT ![t] = "returned"]
    /\ UNCHANGED <<listener, owner, itemOf, run, cleaner, tasks, itemTasks,
                   inbox, stopping, stops, faults>>

(* The coroutine returns or raises; its done callback starts cleanup_task. *)
EndTask(t) ==
    /\ run[t] \in Active
    /\ run' = [run EXCEPT ![t] = "done"]
    /\ cleaner' = [cleaner EXCEPT ![t] = "scheduled"]
    /\ UNCHANGED <<listener, owner, itemOf, creator, tasks, itemTasks, hash,
                   itemSet, inbox, stopping, stops, faults>>

-----------------------------------------------------------------------------
(* cleanup_task: HDEL/SREM/SCARD in one transaction, DEL of the item's set *)
(* in a second one if SCARD answered 0, then the local dictionaries.       *)

RedisForget(t) ==
    LET left == itemSet[itemOf[t]] \ {t} IN
    /\ cleaner[t] = "scheduled"
    /\ hash' = hash \ {t}
    /\ itemSet' = [itemSet EXCEPT ![itemOf[t]] = left]
    /\ cleaner' = [cleaner EXCEPT ![t] = IF left = {} THEN "emptying" ELSE "local"]
    /\ UNCHANGED <<listener, owner, itemOf, run, creator, tasks, itemTasks,
                   inbox, stopping, stops, faults>>

RedisDeleteItem(t) ==
    /\ cleaner[t] = "emptying"
    /\ itemSet' = [itemSet EXCEPT ![itemOf[t]] = {}]
    /\ cleaner' = [cleaner EXCEPT ![t] = "local"]
    /\ UNCHANGED <<listener, owner, itemOf, run, creator, tasks, itemTasks, hash,
                   inbox, stopping, stops, faults>>

LocalForget(t) ==
    /\ cleaner[t] = "local"
    /\ tasks' = [tasks EXCEPT ![owner[t]] = @ \ {t}]
    /\ itemTasks' = [itemTasks EXCEPT ![owner[t]][itemOf[t]] = @ \ {t}]
    /\ cleaner' = [cleaner EXCEPT ![t] = "finished"]
    /\ UNCHANGED <<listener, owner, itemOf, run, creator, hash, itemSet, inbox,
                   stopping, stops, faults>>

(* Redis refuses the transaction: neither call catches the exception, so a *)
(* coroutine stays unlisted, or its cleanup_task ends before the local part.*)
RedisError(t) ==
    /\ faults < MaxFaults
    /\ \/ /\ creator[t] = "saving"
          /\ creator' = [creator EXCEPT ![t] = "failed"]
          /\ UNCHANGED cleaner
       \/ /\ cleaner[t] \in {"scheduled", "emptying"}
          /\ cleaner' = [cleaner EXCEPT ![t] = "failed"]
          /\ UNCHANGED creator
    /\ faults' = faults + 1
    /\ UNCHANGED <<listener, owner, itemOf, run, tasks, itemTasks, hash, itemSet,
                   inbox, stopping, stops>>

-----------------------------------------------------------------------------
(* stop_task publishes; stop_item_tasks reads the item's set once and then *)
(* publishes one command per id.  Pub/sub reaches current subscribers only.*)

Published(t) ==
    [w \in Instance |->
        IF listener[w] = "subscribed" THEN inbox[w] \cup {t} ELSE inbox[w]]

StopTask(t) ==
    /\ run[t] # "none"
    /\ stops < MaxStops
    /\ inbox' = Published(t)
    /\ stops' = stops + 1
    /\ UNCHANGED <<listener, owner, itemOf, run, creator, cleaner, tasks,
                   itemTasks, hash, itemSet, stopping, faults>>

StopItemTasks(i) ==
    /\ itemSet[i] # {}
    /\ stops < MaxStops
    /\ stopping' = [stopping EXCEPT ![i] = @ \cup itemSet[i]]
    /\ stops' = stops + 1
    /\ UNCHANGED <<listener, owner, itemOf, run, creator, cleaner, tasks,
                   itemTasks, hash, itemSet, inbox, faults>>

StopNext(i) ==
    \E t \in stopping[i] :
        /\ inbox' = Published(t)
        /\ stopping' = [stopping EXCEPT ![i] = @ \ {t}]
        /\ UNCHANGED <<listener, owner, itemOf, run, creator, cleaner, tasks,
                       itemTasks, hash, itemSet, stops, faults>>

-----------------------------------------------------------------------------
(* redis_task_command_listener: started once with the process.             *)

Subscribe(w) ==
    /\ listener[w] = "starting"
    /\ listener' = [listener EXCEPT ![w] = "subscribed"]
    /\ UNCHANGED <<owner, itemOf, run, creator, cleaner, tasks, itemTasks, hash,
                   itemSet, inbox, stopping, stops, faults>>

HandleStop(w) ==
    \E t \in inbox[w] :
        /\ listener[w] = "subscribed"
        /\ inbox' = [inbox EXCEPT ![w] = @ \ {t}]
        /\ run' = IF t \in tasks[w] /\ run[t] = "running"
                  THEN [run EXCEPT ![t] = "cancelling"] ELSE run
        /\ UNCHANGED <<listener, owner, itemOf, creator, cleaner, tasks,
                       itemTasks, hash, itemSet, stopping, stops, faults>>

(* pubsub.listen() raises outside the try of the loop: the listener ends.  *)
ListenerFails(w) ==
    /\ listener[w] \in {"starting", "subscribed"}
    /\ faults < MaxFaults
    /\ listener' = [listener EXCEPT ![w] = "failed"]
    /\ inbox' = [inbox EXCEPT ![w] = {}]
    /\ faults' = faults + 1
    /\ UNCHANGED <<owner, itemOf, run, creator, cleaner, tasks, itemTasks, hash,
                   itemSet, stopping, stops>>

(* The process dies with its coroutines and dictionaries; Redis stays.     *)
Crash(w) ==
    LET here(f, gone) == [t \in Task |-> IF owner[t] = w /\ f[t] \in gone
                                         THEN "lost" ELSE f[t]]
    IN
    /\ w \in Up
    /\ faults < MaxFaults
    /\ listener' = [listener EXCEPT ![w] = "down"]
    /\ run' = here(run, Active)
    /\ creator' = here(creator, {"saving"})
    /\ cleaner' = here(cleaner, {"scheduled", "emptying", "local"})
    /\ tasks' = [tasks EXCEPT ![w] = {}]
    /\ itemTasks' = [itemTasks EXCEPT ![w] = [i \in Item |-> {}]]
    /\ inbox' = [inbox EXCEPT ![w] = {}]
    /\ faults' = faults + 1
    /\ \E served \in SUBSET Item :     \* the stop_item_tasks() calls it was serving
           stopping' = [i \in Item |-> IF i \in served THEN {} ELSE stopping[i]]
    /\ UNCHANGED <<owner, itemOf, hash, itemSet, stops>>

Restart(w) ==
    /\ listener[w] = "down"
    /\ listener' = [listener EXCEPT ![w] = "starting"]
    /\ UNCHANGED <<owner, itemOf, run, creator, cleaner, tasks, itemTasks, hash,
                   itemSet, inbox, stopping, stops, faults>>

-----------------------------------------------------------------------------
TaskStep(t) ==
    \/ \E w \in Instance, i \in Item : CreateTask(t, w, i)
    \/ RedisSaveTask(t)
    \/ EndTask(t)
    \/ RedisForget(t)
    \/ RedisDeleteItem(t)
    \/ LocalForget(t)
    \/ RedisError(t)
    \/ StopTask(t)

InstanceStep(w) ==
    \/ Subscribe(w)
    \/ HandleStop(w)
    \/ ListenerFails(w)
    \/ Crash(w)
    \/ Restart(w)

Next ==
    \/ \E t \in Task : TaskStep(t)
    \/ \E i \in Item : StopItemTasks(i) \/ StopNext(i)
    \/ \E w \in Instance : InstanceStep(w)

Spec == Init /\ [][Next]_vars

(* An event loop keeps running its ready callbacks, so a started call goes *)
(* on, the listener consumes its subscription and a cancelled coroutine    *)
(* ends.  Nothing obliges a coroutine that nobody cancels to end.          *)
EndCancelled(t) == run[t] = "cancelling" /\ EndTask(t)

FairSpec ==
    /\ Spec
    /\ \A t \in Task : /\ WF_vars(RedisSaveTask(t)) /\ WF_vars(EndCancelled(t))
                       /\ WF_vars(RedisForget(t)) /\ WF_vars(RedisDeleteItem(t))
                       /\ WF_vars(LocalForget(t))
    /\ \A i \in Item : WF_vars(StopNext(i))
    /\ \A w \in Instance : WF_vars(HandleStop(w))

-----------------------------------------------------------------------------
(***************************************************************************)
(* Properties                                                              *)
(***************************************************************************)

(* From the moment create_task() returns until the coroutine ends, the id  *)
(* is in the global list that /api/tasks serves (list_tasks), whatever the *)
(* other tasks' saves and cleanups do meanwhile.                           *)
ActiveListed ==
    \A t \in Task : run[t] \in Active /\ creator[t] = "returned" => t \in hash

(* A live coroutine is in the dictionary of exactly the instance that runs *)
(* it, so a stop command that any instance publishes finds it there, and   *)
(* no other instance would cancel it.                                      *)
ActiveReachable ==
    \A t \in Task : run[t] \in Active =>
        /\ owner[t] \in Up
        /\ \A w \in Instance : t \in tasks[w] <=> w = owner[t]

(* A stop_item_tasks() call that has listed an id ends that task, unless   *)
(* its instance does not listen or a process dies first (stop_item_tasks,  *)
(* redis_send_command and redis_task_command_listener together).           *)
ItemStopTakesEffect ==
    \A t \in Task :
        (\E i \in Item : t \in stopping[i]) ~>
            \/ run[t] \notin Active
            \/ listener[owner[t]] # "subscribed"
            \/ Up # Instance

(* The dictionaries of a process do not leak: cleanup_task removes every   *)
(* finished task from `tasks` and `item_tasks`, unless Redis fails it.     *)
LocalDrains ==
    \A t \in Task : run[t] = "done" ~>
        \/ cleaner[t] = "failed"
        \/ \A w \in Instance : /\ t \notin tasks[w]
                                /\ \A i \in Item : t \notin itemTasks[w][i]

(* A task whose create_task() call returned before the coroutine ended     *)
(* leaves Redis for good, unless its instance dies before the cleanup or   *)
(* Redis refuses it (redis_save_task against redis_cleanup_task).          *)
RegistryDrains ==
    \A t \in Task :
        []((run[t] \in Active /\ creator[t] = "returned") =>
            [](run[t] = "done" =>
                <>(cleaner[t] \in {"failed", "lost"}
                   \/ [](t \notin hash /\ \A i \in Item : t \notin itemSet[i]))))

-----------------------------------------------------------------------------
(***************************************************************************)
(* What a docstring says and an interleaving refutes.                      *)
(***************************************************************************)

(* "List all tasks associated with a specific ID."                         *)
(* (list_task_ids_by_item_id): an active task whose create_task() call has *)
(* returned is in the set of its item, where stop_item_tasks looks for it. *)
ItemListComplete ==
    \A t \in Task :
        run[t] \in Active /\ creator[t] = "returned" => t \in itemSet[itemOf[t]]
=============================================================================
