----------------------------- MODULE LocalTasks -----------------------------
(***************************************************************************)
(* open_webui/tasks.py without Redis: one process, one event loop, the     *)
(* dictionaries `tasks` and `item_tasks`, and stop requests that cancel a  *)
(* task and await it.                                                      *)
(*                                                                         *)
(* A step runs one coroutine up to its next suspension.  Three facts of    *)
(* asyncio shape the interleavings: awaiting a finished task does not      *)
(* suspend; the callbacks of a finished task run in the order in which     *)
(* they were added, so whoever awaits it resumes before the body of        *)
(* cleanup_task, which the first callback only schedules; and a `for` over *)
(* a list keeps an index into the list itself, whatever others remove.     *)
(***************************************************************************)
EXTENDS Naturals, Sequences

CONSTANTS Task,      \* task ids
          Item,      \* ids that tasks are created for
          Stopper,   \* stop requests, each made once
          NoTask,    \* what a request that does not wait waits for
          NoItem     \* the item of a request for a single task

ASSUME LocalAssumption == NoTask \notin Task /\ NoItem \notin Item

VARIABLES
    run,        \* task -> state of its coroutine
    swallows,   \* task -> its coroutine catches CancelledError and returns
    itemOf,     \* task -> the item it was created for
    cleanup,    \* task -> whether cleanup_task is yet to run
    tasks,      \* keys of the dictionary `tasks`
    itemTasks,  \* item -> its list in `item_tasks`, <<>> when it has no key
    pc,         \* request -> where it is
    waits,      \* request -> the task whose end it awaits
    item,       \* request -> the item whose tasks it stops, or NoItem
    pos,        \* request -> next index of its `for`; 0 when its list is gone
    listed,     \* request -> the ids its `for` started from (history)
    reply       \* request -> its answer

vars == <<run, swallows, itemOf, cleanup, tasks, itemTasks, pc, waits, item, pos,
          listed, reply>>

taskVars == <<run, swallows, itemOf, cleanup, tasks, itemTasks>>

-----------------------------------------------------------------------------
Ended   == {"returned", "raised", "cancelled"}
Alive   == {"running", "cancelling"}
Answers == {"stopped", "not stopped", "raised", "KeyError", "all", "no tasks"}

TypeOK ==
    /\ run \in [Task -> Ended \cup Alive \cup {"none"}]
    /\ swallows \in [Task -> BOOLEAN]
    /\ itemOf \in [Task -> Item \cup {NoItem}]
    /\ cleanup \in [Task -> {"no", "due", "done"}]
    /\ tasks \subseteq Task
    /\ itemTasks \in [Item -> Seq(Task)]
    /\ pc \in [Stopper -> {"idle", "looping", "awaiting", "answered"}]
    /\ waits \in [Stopper -> Task \cup {NoTask}]
    /\ item \in [Stopper -> Item \cup {NoItem}]
    /\ pos \in [Stopper -> Nat]
    /\ listed \in [Stopper -> SUBSET Task]
    /\ reply \in [Stopper -> Answers \cup {"none"}]

Init ==
    /\ run = [t \in Task |-> "none"]
    /\ swallows = [t \in Task |-> FALSE]
    /\ itemOf = [t \in Task |-> NoItem]
    /\ cleanup = [t \in Task |-> "no"]
    /\ tasks = {}
    /\ itemTasks = [i \in Item |-> <<>>]
    /\ pc = [s \in Stopper |-> "idle"]
    /\ waits = [s \in Stopper |-> NoTask]
    /\ item = [s \in Stopper |-> NoItem]
    /\ pos = [s \in Stopper |-> 0]
    /\ listed = [s \in Stopper |-> {}]
    /\ reply = [s \in Stopper |-> "none"]

(* A `for` that has not suspended keeps the event loop to itself.          *)
LoopFree == \A s \in Stopper : pc[s] # "looping"

ElementsOf(ids) == {ids[n] : n \in DOMAIN ids}

(* list.remove, if it is there: the first one goes.                        *)
Without(ids, t) ==
    IF t \in ElementsOf(ids)
    THEN LET first == CHOOSE n \in DOMAIN ids :
                          ids[n] = t /\ \A m \in DOMAIN ids : ids[m] = t => n <= m
         IN  SubSeq(ids, 1, first - 1) \o SubSeq(ids, first + 1, Len(ids))
    ELSE ids

-----------------------------------------------------------------------------
(***************************************************************************)
(* Faulty variants of definitions below, one plausible mistake each.       *)
(***************************************************************************)

(* every key of item_tasks shares one list *)
CreateShared(t, i, catches) ==
    /\ LoopFree
    /\ run[t] = "none"
    /\ run' = [run EXCEPT ![t] = "running"]
    /\ swallows' = [swallows EXCEPT ![t] = catches]
    /\ itemOf' = [itemOf EXCEPT ![t] = i]
    /\ tasks' = tasks \cup {t}
    /\ itemTasks' = [j \in Item |-> Append(itemTasks[j], t)]
    /\ UNCHANGED <<cleanup, pc, waits, item, pos, listed, reply>>

(* the key is popped with the first task that ends *)
CleanupPopsKey(t) ==
    LET i == itemOf[t] IN
    /\ LoopFree
    /\ cleanup[t] = "due"
    /\ \A s \in Stopper : waits[s] # t
    /\ cleanup' = [cleanup EXCEPT ![t] = "done"]
    /\ tasks' = tasks \ {t}
    /\ itemTasks' = [itemTasks EXCEPT ![i] = <<>>]
    /\ pos' = [s \in Stopper |-> IF item[s] = i THEN 0 ELSE pos[s]]
    /\ UNCHANGED <<run, swallows, itemOf, pc, waits, item, listed, reply>>

(* the clean-up body runs before the waiters resume *)
CleanupFirst(t) ==
    LET i    == itemOf[t]
        left == Without(itemTasks[i], t)
    IN
    /\ LoopFree
    /\ cleanup[t] = "due"
    /\ cleanup' = [cleanup EXCEPT ![t] = "done"]
    /\ tasks' = tasks \ {t}
    /\ itemTasks' = [itemTasks EXCEPT ![i] = left]
    /\ pos' = [s \in Stopper |-> IF left = <<>> /\ item[s] = i THEN 0 ELSE pos[s]]
    /\ UNCHANGED <<run, swallows, itemOf, pc, waits, item, listed, reply>>

(* nothing is cleaned up for a task that stop_task popped *)
CleanupIfPresent(t) ==
    LET i    == itemOf[t]
        left == IF t \in tasks THEN Without(itemTasks[i], t) ELSE itemTasks[i]
    IN
    /\ LoopFree
    /\ cleanup[t] = "due"
    /\ \A s \in Stopper : waits[s] # t
    /\ cleanup' = [cleanup EXCEPT ![t] = "done"]
    /\ tasks' = tasks \ {t}
    /\ itemTasks' = [itemTasks EXCEPT ![i] = left]
    /\ pos' = [s \in Stopper |-> IF left = <<>> /\ item[s] = i THEN 0 ELSE pos[s]]
    /\ UNCHANGED <<run, swallows, itemOf, pc, waits, item, listed, reply>>

-----------------------------------------------------------------------------
(* create_task runs to its end without suspending.                         *)
CreateTask(t, i, catches) ==
    /\ LoopFree
    /\ run[t] = "none"
    /\ run' = [run EXCEPT ![t] = "running"]
    /\ swallows' = [swallows EXCEPT ![t] = catches]
    /\ itemOf' = [itemOf EXCEPT ![t] = i]
    /\ tasks' = tasks \cup {t}
    /\ itemTasks' = [itemTasks EXCEPT ![i] = Append(@, t)]
    /\ UNCHANGED <<cleanup, pc, waits, item, pos, listed, reply>>

(* The coroutine ends: of itself, or in answer to a cancellation.          *)
EndTask(t) ==
    /\ LoopFree
    /\ run[t] \in Alive
    /\ \E outcome \in Ended :
           /\ run[t] = "running" => outcome # "cancelled"
           /\ run[t] = "cancelling" => (outcome = "cancelled" <=> ~swallows[t])
           /\ run' = [run EXCEPT ![t] = outcome]
    /\ cleanup' = [cleanup EXCEPT ![t] = "due"]
    /\ UNCHANGED <<swallows, itemOf, tasks, itemTasks, pc, waits, item, pos,
                   listed, reply>>

(* A list that becomes empty leaves item_tasks: requests that iterate it   *)
(* keep the empty object, and a later create_task starts another list.     *)
CleanupTask(t) ==
    LET i    == itemOf[t]
        left == Without(itemTasks[i], t)
    IN
    /\ LoopFree
    /\ cleanup[t] = "due"
    /\ \A s \in Stopper : waits[s] # t
    /\ cleanup' = [cleanup EXCEPT ![t] = "done"]
    /\ tasks' = tasks \ {t}
    /\ itemTasks' = [itemTasks EXCEPT ![i] = left]
    /\ pos' = [s \in Stopper |-> IF left = <<>> /\ item[s] = i THEN 0 ELSE pos[s]]
    /\ UNCHANGED <<run, swallows, itemOf, pc, waits, item, listed, reply>>

-----------------------------------------------------------------------------
Answer(s, a) ==
    /\ pc' = [pc EXCEPT ![s] = "answered"]
    /\ reply' = [reply EXCEPT ![s] = a]

(* faulty: the coroutine's outcome is answered as it is *)
ResumeRaw(s, outcome) == Answer(s, outcome)

(* What `await task` does to the request once the task has ended: return   *)
(* status True and go on with the list, return status False, or raise.     *)
Resume(s, outcome) ==
    CASE outcome = "cancelled" /\ item[s] # NoItem ->
            pc' = [pc EXCEPT ![s] = "looping"] /\ UNCHANGED reply
      [] outcome = "cancelled" /\ item[s] = NoItem -> Answer(s, "stopped")
      [] outcome = "returned" -> Answer(s, "not stopped")
      [] outcome = "raised" -> Answer(s, "raised")

(* faulty: get instead of pop *)
StopGets(s, t) ==
    IF t \notin tasks
    THEN Answer(s, "KeyError") /\ UNCHANGED <<run, tasks, waits>>
    ELSE /\ UNCHANGED tasks
         /\ IF run[t] \in Ended
            THEN Resume(s, run[t]) /\ UNCHANGED <<run, waits>>
            ELSE /\ run' = [run EXCEPT ![t] = "cancelling"]
                 /\ waits' = [waits EXCEPT ![s] = t]
                 /\ pc' = [pc EXCEPT ![s] = "awaiting"]
                 /\ UNCHANGED reply

(* faulty: no cancel before the await *)
StopAwaits(s, t) ==
    IF t \notin tasks
    THEN Answer(s, "KeyError") /\ UNCHANGED <<run, tasks, waits>>
    ELSE /\ tasks' = tasks \ {t}
         /\ UNCHANGED run
         /\ IF run[t] \in Ended
            THEN Resume(s, run[t]) /\ UNCHANGED waits
            ELSE /\ waits' = [waits EXCEPT ![s] = t]
                 /\ pc' = [pc EXCEPT ![s] = "awaiting"]
                 /\ UNCHANGED reply

(* The body of stop_task: pop, cancel, await.                              *)
Stop(s, t) ==
    IF t \notin tasks
    THEN Answer(s, "KeyError") /\ UNCHANGED <<run, tasks, waits>>
    ELSE /\ tasks' = tasks \ {t}
         /\ IF run[t] \in Ended
            THEN Resume(s, run[t]) /\ UNCHANGED <<run, waits>>
            ELSE /\ run' = [run EXCEPT ![t] = "cancelling"]
                 /\ waits' = [waits EXCEPT ![s] = t]
                 /\ pc' = [pc EXCEPT ![s] = "awaiting"]
                 /\ UNCHANGED reply

StopTask(s, t) ==
    /\ LoopFree
    /\ pc[s] = "idle"
    /\ run[t] # "none"
    /\ Stop(s, t)
    /\ UNCHANGED <<swallows, itemOf, cleanup, itemTasks, item, pos, listed>>

StopItemTasks(s, i) ==
    /\ LoopFree
    /\ pc[s] = "idle"
    /\ item' = [item EXCEPT ![s] = i]
    /\ listed' = [listed EXCEPT ![s] = ElementsOf(itemTasks[i])]
    /\ IF itemTasks[i] = <<>>
       THEN Answer(s, "no tasks") /\ UNCHANGED pos
       ELSE /\ pc' = [pc EXCEPT ![s] = "looping"]
            /\ pos' = [pos EXCEPT ![s] = 1]
            /\ UNCHANGED reply
    /\ UNCHANGED <<taskVars, waits>>

(* The next iteration of `for task_id in task_ids`.                        *)
StopNext(s) ==
    LET ids == itemTasks[item[s]] IN
    /\ pc[s] = "looping"
    /\ IF pos[s] \in DOMAIN ids
       THEN Stop(s, ids[pos[s]]) /\ pos' = [pos EXCEPT ![s] = @ + 1]
       ELSE Answer(s, "all") /\ UNCHANGED <<run, tasks, waits, pos>>
    /\ UNCHANGED <<swallows, itemOf, cleanup, itemTasks, item, listed>>

(* The task that the request awaits has ended.                             *)
Awake(s) ==
    /\ LoopFree
    /\ pc[s] = "awaiting"
    /\ run[waits[s]] \in Ended
    /\ Resume(s, run[waits[s]])
    /\ waits' = [waits EXCEPT ![s] = NoTask]
    /\ UNCHANGED <<taskVars, item, pos, listed>>

-----------------------------------------------------------------------------
Next ==
    \/ \E t \in Task, i \in Item, catches \in BOOLEAN : CreateTask(t, i, catches)
    \/ \E t \in Task : EndTask(t) \/ CleanupTask(t)
    \/ \E s \in Stopper, t \in Task : StopTask(s, t)
    \/ \E s \in Stopper, i \in Item : StopItemTasks(s, i)
    \/ \E s \in Stopper : StopNext(s) \/ Awake(s)

Spec == Init /\ [][Next]_vars

(* The event loop runs what is ready, and a coroutine that was cancelled   *)
(* ends; one that nobody cancels may run for ever.                         *)
EndCancelled(t) == run[t] = "cancelling" /\ EndTask(t)

FairSpec ==
    /\ Spec
    /\ \A t \in Task : WF_vars(EndCancelled(t)) /\ WF_vars(CleanupTask(t))
    /\ \A s \in Stopper : WF_vars(StopNext(s)) /\ WF_vars(Awake(s))

-----------------------------------------------------------------------------
(***************************************************************************)
(* Properties                                                              *)
(***************************************************************************)

(* A coroutine that nobody has cancelled is in `tasks` and once in the     *)
(* list of its item, whatever ended, stopped or cleaned up around it.      *)
RunningTracked ==
    \A t \in Task : run[t] = "running" =>
        /\ t \in tasks
        /\ \E n \in DOMAIN itemTasks[itemOf[t]] :
               /\ itemTasks[itemOf[t]][n] = t
               /\ \A m \in DOMAIN itemTasks[itemOf[t]] \ {n} :
                      itemTasks[itemOf[t]][m] # t

(* stop_task pops before it cancels: a task is awaited by one request at   *)
(* most, and nobody cancels it a second time while it ends.                *)
OneAwaiter ==
    \A s \in Stopper : pc[s] = "awaiting" =>
        /\ waits[s] \notin tasks
        /\ \A r \in Stopper \ {s} : waits[r] # waits[s]

(* A request for an item cancels none but that item's tasks: what the list *)
(* under its index holds after the removals and additions of others is     *)
(* still the item's.                                                       *)
OnlyItsItem ==
    [][\A t \in Task : run[t] = "running" /\ run'[t] = "cancelling" =>
           \E s \in Stopper : /\ waits'[s] = t
                              /\ item[s] \in {NoItem, itemOf[t]}]_vars

(* With two tasks listed, "All tasks for item ... stopped" is true: the    *)
(* first is cleaned up only after the loop has fetched the second.         *)
PairStopped ==
    \A s \in Stopper : reply[s] = "all" =>
        \/ \A t \in listed[s] : run[t] \notin Alive
        \/ \E t, u, v \in listed[s] : t # u /\ u # v /\ t # v

(* Every stop request is answered: no request waits for a task that        *)
(* another one already consumed.                                           *)
Answered ==
    \A s \in Stopper : pc[s] # "idle" ~> pc[s] = "answered"

(* cleanup_task leaves no trace of an ended task, even of one that a stop  *)
(* request popped first.                                                   *)
DictionariesDrain ==
    \A t \in Task : run[t] \in Ended ~>
        /\ t \notin tasks
        /\ \A i \in Item : t \notin ElementsOf(itemTasks[i])

-----------------------------------------------------------------------------
(***************************************************************************)
(* What a message says and the code refutes.                               *)
(***************************************************************************)

(* "All tasks for item {item_id} stopped.": of the tasks that were listed, *)
(* none is alive.                                                          *)
AllMeansAll ==
    \A s \in Stopper : reply[s] = "all" =>
        \A t \in listed[s] : run[t] \notin Alive
=============================================================================
