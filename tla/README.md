# Verification of the Open WebUI backend

This directory holds TLA+ models of the concurrent core of the backend under
`src/open_webui`, the TLC configurations that check them on small instances, and
TLAPS proofs of their main invariants for every value of the constants. The code
is the reference throughout: where a comment, a log message or a docstring says
something that the code does not do, the model follows the code, and a run that is
expected to fail shows the difference.

## 1. Inventory

The backend is a FastAPI application (`main.py`) with a Socket.IO server
(`socket/main.py`) on one asyncio loop per process. Several processes may serve
the same database; then Redis holds what they share. Three sorts of scheduling
meet in it: coroutines, which are interrupted at an `await` only; endpoints
declared with plain `def`, which run in threads; and the processes, which
interleave at each command to Redis and each transaction of the database.

| Component | State | Operations | What makes it hard | What makes it correct |
|---|---|---|---|---|
| Task registry with Redis (`tasks.py`) | `tasks`, `item_tasks` per process; a hash and a set per item in Redis; pub/sub | create, clean up, stop one, stop an item's, list, listener | two transactions per clean-up, commands on several connections, lost messages, crashes | a live task is listed, found by a stop command, and forgotten when it ends |
| Task registry without Redis (`tasks.py`) | the two dictionaries | the same | lists changed while they are iterated, order of asyncio's callbacks, awaiting a cancelled task | a running task is tracked, a request stops its own tasks and is answered |
| Usage pool (`socket/main.py`, `socket/utils.py`) | models in use with time stamps; a lock with expiry | usage event, periodic clean-up, acquire, renew, release | expiry under a stalled process, crashes, read-sweep-write | one cleaner, one that comes back after a crash, nothing in time is swept |
| Collaborative notes (`socket/main.py`, `socket/utils.py`) | users and updates of a document, room, debounced saves | join, state, update, leave, disconnect, save | emits suspend in the middle of handlers, other processes between commands, cancelled saves | no update is missed or forgotten while a session is in the document; the last one is saved |
| Troubleshooting cases (`routers/cases_migrated.py`, `models/cases.py`) | case, nodes, edges, JSON metadata | create, update, rate, lay out, delete, regenerate in the background, stop | a task that awaits a model for long over rows that others change; several commits per request | nothing is left of a deleted case, ratings stay, PROCESSING means that something is processing |
| Chat responses (`utils/middleware.py`, `models/chats.py`) | content blocks of each response, the chat's JSON document | stream, tools, code, cancellation, background, clients' posts, deletion | whole-document writes by several responses, cancellation at any await, broken streams | what is announced is stored, the text is saved as it streams, a response ends |
| Socket sessions (`socket/main.py`) | `SESSION_POOL`, `USER_POOL` | connect, user-join, disconnect, emit | lists in Redis read and written back | a connected session is listed once per user, a gone one is not |
| Events of tools (`socket/main.py`) | the same chat document | status, message, replace | a second writer of a response's content | an event is not lost to the response's next save |
| Folders and chats of a user (`routers/folders.py`, `models/folders.py`, `models/chats.py`, `routers/chats.py`) | rows of folders with a parent, of chats with a folder, of shared copies | create (in a thread), rename, move, delete recursively; create, move, share and delete chats | one commit per row, moves that make cycles, a recursion limit, crashes between commits | an answered deletion is complete, a cut-off one leaves a whole tree, no copy outlives what it was shared from |
| Accounts and groups (`routers/auths.py`, `utils/oauth.py`, `routers/users.py`, `models/auths.py`, `models/users.py`, `models/groups.py`) | rows of accounts and passwords, roles, members of groups in JSON lists | sign up in four ways, log in, add, change and delete an account, edit groups | an OAuth callback awaits a picture with a row in hand; several commits per request; lists changed in place | one first admin, who stays one; members have accounts |
| Knowledge bases (`routers/knowledge.py`, `models/knowledge.py`, `routers/retrieval.py`, `routers/files.py`) | the list of file ids in a base's row, the rows of files, a vector collection | add, add several, update and remove files in threads; list, edit, reset, reindex and delete in the loop | lists read early and written back late, three stores, steps of which one fails | a file whose addition was settled stays listed and findable |
| Channels and messages, stored files | rows, files | create, update, delete | steps of which one fails | rows and files agree |
| Configuration (`config.py`) | one JSON row, a key in Redis per value | set, get, reload | two stores written one after the other | the processes agree on a value |
| Access control, proxies, retrieval, filters, audio, images, code interpreter, migrations, telemetry and the rest | single rows, or none | see `PROJECT.json` | mostly input and output | not modelled; `PROJECT.json` gives the reason for each |

How they interact: a chat response, the regeneration of a case's node and the
debounced save of a note are all tasks of the registry, created for an item (the
chat, the node, the document). A stop request reaches them as a cancellation,
which each of them handles in its own way. The socket server's `disconnect` ends
a session in the pool and in every document. The database and Redis are shared by
all of them; each `get_db` block is one transaction, each Redis command one step,
and a redis-py pipeline is one step as well (MULTI/EXEC).

## 2. Modules

| Module | Models | Proofs | Instance |
|---|---|---|---|
| `TaskRegistry` | `tasks.py` with Redis | `TaskRegistry_proofs` | `MC_TaskRegistry` |
| `LocalTasks` | `tasks.py` without Redis | `LocalTasks_proofs` | `MC_LocalTasks` |
| `UsagePool` | `periodic_usage_pool_cleanup`, `usage`, `RedisLock` | `UsagePool_proofs` | `MC_UsagePool` |
| `SharedDocument` | what a collaborative document promises (abstract) | | |
| `Ydoc` | the ydoc handlers, `disconnect`, `YdocManager`; implements `SharedDocument` | `Ydoc_proofs` | `MC_Ydoc` |
| `CaseGraph` | the case endpoints over `CasesTable`, and `_regenerate_task` | `CaseGraph_proofs` | `MC_CaseGraph` |
| `ChatStream` | `response_handler`, the saves of `ChatTable`, `background_tasks_handler` | `ChatStream_proofs` | `MC_ChatStream` |
| `ChatLibrary` | a user's folders, chats and shared copies under `routers/folders.py` and `routers/chats.py` | `ChatLibrary_proofs` | `MC_Workspace` |
| `Accounts` | accounts, roles and groups under registration, the OAuth callback and the admin's requests | `Workspace_proofs` | `MC_Workspace` |
| `Knowledge` | one knowledge base under `routers/knowledge.py` and the deletion of files | `Workspace_proofs` | `MC_Workspace` |
| `Ids` | `uuid.uuid4` (external) | | |

`PROJECT.json` maps each definition to the lines it stands for. A module keeps the
names of the functions it models where TLA+ allows it. Definitions that a comment
calls *faulty* belong to no specification: each is a plausible bug, put in the
place of the definition after it to see that a property notices.

**TaskRegistry.** `tasks[w]` and `itemTasks[w]` are the dictionaries of process
`w`; `hash` and `itemSet` are the keys in Redis; `inbox[w]` holds the stop commands
that `w`'s subscription has yet to yield. `creator[t]` and `cleaner[t]` say how far the calls
of `create_task` and `cleanup_task` for `t` have come. `redis_cleanup_task` is
two actions, because it executes two pipelines. Crashes, the end of a listener
and a refused Redis transaction are actions bounded by `MaxFaults`. A process that restarts
has empty dictionaries and a listener that is not yet subscribed.

**LocalTasks.** A step runs a coroutine up to its next suspension. `pos[s]` is the
index of the `for` in `stop_item_tasks` over the live list `itemTasks[item]`, so an id removed by
`cleanup_task` shifts it, as CPython's list iterator does. `swallows[t]`
says whether the coroutine catches its cancellation and returns (chat responses do) or is cancelled.

**UsagePool.** Time is counted in ticks of half the lock's life. `ttl`
counts the lock down; `timer[w]` the wait between attempts. A process whose
`renewed[w]` is still false at a tick has stalled; `MaxStalls` bounds these ticks. Entries
of the pool are `fresh`, `stale` or `none`; `shot[w]` is what a sweep has read, and is
what it writes back; by then its entries may have timed out (`Later`). `Free` and `Dead` are values of the lock's key.

**Ydoc.** One document. `users` and `updates` are the manager's, `room` the
room's participants, `join`, `away` and `upc` the places of the handlers. Without Redis the
manager's methods do not suspend, and an emit suspends only if it has a recipient: an update into an otherwise empty room goes on at once to the creation of its save, before handlers
that are still in their emits (`Store`, `StartSave`). With Redis every command is a step
and emitted updates travel over `bus`. `Modes` is the set of deployments a run considers,
`Carries` whether updates carry the note's data. The client is external: it applies what it is
sent, and starts from an empty document at every join.

**CaseGraph.** Handlers of one process do not suspend between their transactions,
so they are one step there; with several processes `todo[r]` holds the rows that a
handler has yet to insert. `Regenerate` marks the node and creates the task; `TaskRead` and
`TaskWrite` are the two transactions around the model's answer. Nothing makes the transactions of several processes serializable: there a change of metadata reads in one step
(`Reads`, which leaves the edit in `open`; `TaskMerge`, which leaves the rating in `copy`) and writes the whole column in another (`WriteNode`, `WriteLayout`, `TaskCommit`). `filled`, `rating` and `layout`
follow what SQLAlchemy flushes of a JSON column: an in-place change is not seen. `rated`
and `laidOut` are history: what the client was told.

**ChatStream.** `db` holds the parts of the chat's document that are up to date with
what the tasks have produced: `<<m, "all">>` for everything and `<<m, "text">>` for the
text of message `m`. Producing something makes every copy of the document that anyone
holds out of date in that part; saving brings `db` up to date, or, with several
processes, first reads (`snap`) and then writes the whole document. `loop` and
`rounds` are the two loops' counters, `then` is where a save returns to, and `overwritten` holds the
messages that a client has posted over since their last save.

**ChatLibrary.** `folders`, `chats` and `copies` are the ids that have rows, `known`, `created` and
`copied` those that were given out. `op` says what the coroutine that runs has committed, and so where a crash cuts it
off; `stack` is the call stack of `delete_children`, each frame with the children it has yet to do, and `ids` is
`folder_ids`. `CreateLookUp` and `CreateInsert` are the two transactions of `create_folder`, which runs in a thread and
meets anything in between. A rename and a move look their place up (`Rename`, `Move`, which leave it in `goal`) before they commit (`PlaceFolder`), and such a thread
may insert between the two. `arrived` is history: which folders others have brought to the place that a request has found free. `subtree` is history: what was below the folder when its deletion began.

**Accounts.** `task`, `about` and `plan` are the handler that runs, between two of its commits; `wait`, `who` and
`sawAdmin` are the callbacks that await a picture, with the account and the role they have read. `since` is `created_at` in
seconds: it never runs backwards, and several accounts may share a second. A request of an admin needs someone who was an admin
when it was authorised (`wasAdmin`), because the role is checked in a thread before the handler starts. `lost` and `founders` are history:
accounts deleted while a callback of theirs waited, and accounts that became an admin's by their own registration or login.

**Knowledge.** One base. `listed`, `rows` and `vectors` are its list, the files' rows and the files with entries in its
collection; `valid` says whether `data` is a dict that is not empty. Each actor (a thread, or the event loop as a whole) is
at a step of one request, with the list it `read` when it began. `alone`, `settled` and `intact` are history: which requests
overlapped no other, and which files they added. The threads of `routers/retrieval.py` take the name of a collection from their form: `process_web` and
`process_youtube_video` replace a base's collection by one page (`StartOverwrite`, `OverwriteCollection`), `process_file` and `process_files_batch` put entries of a file into it that no list
names (`IndexUnlisted`).

`MC_Workspace` puts the last three side by side. They share no variable, and no step of one depends on another: `part` picks the one
that moves in a behaviour, and every behaviour of all three, seen by one of them, is such a behaviour with stuttering.

## 3. Runs

Seven runs pass and five are expected to fail, each with its own configuration. A passing run checks everything its
module promises in a deployment; a failing one checks a sentence of the repository.

| Run | Instance | Shows |
|---|---|---|
| `registry` | 2 processes, 2 tasks of 1 item, 1 stop request, 1 fault | live tasks stay listed (`ActiveListed`) and reachable (`ActiveReachable`); a stop takes effect (`ItemStopTakesEffect`); nothing leaks in the dictionaries or in Redis (`LocalDrains`, `RegistryDrains`) |
| `registry_item_lost` (fails) | 2 processes, 2 tasks | "List all tasks associated with a specific ID.": the set of an item is deleted after another task was added to it (`tasks.py:65`) |
| `local` | 2 tasks, 2 items, 2 requests | `RunningTracked`, `OneAwaiter`, `OnlyItsItem`, `PairStopped`, `Answered`, `DictionariesDrain` |
| `local_skip` (fails) | 3 tasks, 1 request | "All tasks for item ... stopped.": the third is skipped (`tasks.py:178`) |
| `usage` | 2 processes, 1 model, 2 sessions, 1 stall, 1 crash, 2 events | `OneCleanerPerStall`, `CleanupSurvives`, `SeenFreshStays`, `CleanerComesBack`, `StaleRemoved` |
| `usage_steal` (fails) | 2 processes, 1 stall | "Unable to renew cleanup lock. Exiting ...": `renew_lock` takes the lock from its new holder (`socket/utils.py:38`) |
| `ydoc` | 1 process, or the commands of several; 2 sessions, 2 updates, with Redis at most 3 joins and updates together | `Synced`: no session misses an update; in one process `Implements` (refines `SharedDocument`) and `LatestSaved`, as long as nobody is alone in the room while an update is sent there |
| `ydoc_wipe` (fails) | the commands of several processes, 2 sessions, 2 updates | "Cleaning up document ... as no users are left": it is cleared under a session that has joined (`socket/main.py:591`) |
| `cases` | 3 requests, 4 nodes, 2 single-transaction handlers, 1 crash; one process and several | `DeletedIsGone`, `ProcessingIsWorkedOn`; `RatingSurvives`: with several processes a rating is lost only to a transaction that had read the node before it |
| `cases_rating` (fails) | 1 request | Plan.md's rating and layout are acknowledged and not stored (`models/cases.py:253`) |
| `workspace` | library: 3 folders, 2 names, 1 thread that creates, 1 chat, 2 copies; accounts: 3 accounts, 1 group, 1 callback; knowledge: 2 files, 2 threads; crashes anywhere | `DeletedFromBelow`, `AcknowledgedDeletion`, `OnlyOverlapTwins`, `Withdrawn`; `OneFounder`, `PrimaryAdmin`, `MembersExist`; `SettledStays` |
| `chat` | 2 responses, 1 round of each loop, 1 post; one process and several, saving at the end or at each delta | `StoredWhenOver`, `RealtimeKeepsUp`, `Ends` |

Each passing run also checks the type invariant of its module; that of `workspace` is the one of the part that moves.

**Why the bounds are enough to be interesting.** Two processes are what every race here needs;
the proofs cover more. `local` has two tasks because `PairStopped` is about two, and `local_skip` needs
three for the list to shift under the loop. One stall lets a lock expire and be taken by
another process, one crash leaves a lock of a dead process behind. In `usage`, `FewTogether` allows two usage events in a
behaviour with the stall or with the crash, and one in a behaviour with both. Two updates order themselves against each other's
saves. Three requests in `cases` let two regenerations overlap while a third inserts. With several processes `FewTogether` allows
two edits and a crash as long as one node is not given out, and one of these after that. In
`chat` one round of each loop reaches the limit, the way past it and the code loop after the tool loop; the real limits are
10 and 5, and the proof of `TypeOK` holds for any. With Redis
the handlers of `ydoc` are many commands each, and `RedisCalls` bounds the joins and updates there to three together: two joins
and an update for one session to miss, or one join and two updates for the second to stop the save of the first (four in
`ydoc_wipe`), and `FewGone` lets one session disconnect there, beside the leaves of both. Without Redis there is no such bound, and the proof of `Synced` holds for any.
In `workspace` crashes are not bounded. Three folders make every shape of tree and cycle that a deletion tells apart (a chain, two
children, a cycle below or through the folder), and `RecursionLimit` is one more than they are, so that only a cycle reaches it; the
interpreter's is about 1000. One creation in a thread suffices for a name to be taken between its two transactions, by a rename or a move or by
the next creation, and to be taken between theirs; two copies of one chat come of a crash. Sharing reads nothing of folders, so `FewFolders` lets only a user who has had at most two folders share a chat. Three accounts are the first, the one that is
deleted and an admin who does it. Two files and two threads, beside the loop, are two requests that write back what the other has replaced. `FewRequests` lets two requests overlap at a
time, of threads or of a thread and the loop; the proof of `SettledStays` has no such bound. Deadlock is not checked anywhere, because each
of these systems may come to rest: the bounds stop the clients, and a finished task does nothing more.

Symmetry is used only where a run checks invariants and action properties, never with liveness.

## 4. Fairness

- `TaskRegistry`: a coroutine that has started a Redis call goes on, a cancelled one ends, a listener handles what
  it has received. asyncio schedules every ready coroutine and Redis answers; nothing is assumed of clients, of running tasks or
  of faults.
- `LocalTasks`: a cancelled coroutine ends, scheduled clean-ups run, requests go on. That is asyncio's ready queue, and the
  assumption that no coroutine of this code swallows its cancellation and goes on for ever.
- `UsagePool`: a cleanup loop goes on, time passes, and a process that died is started again (by whoever runs the server).
- `Ydoc`: the update handlers and their saves go on. Sessions need not do anything.
- `ChatStream`: weak fairness of what a task awaits (emission, tool, code, model). The one strong fairness is for the end of a stream:
  a stream pauses to be saved and goes on again and again, so its end is enabled again and again and not always; that
  it comes is the assumption that a model's answer is finite. The limits of the loops are then what makes a response end.

`Ends` is about one response of finitely many rounds; it would fail with a tool that never returns,
and the code has no timeout for one.

## 5. Proofs

Everything in `*_proofs` is checked by TLAPS from the named assumptions of the modules
(`RegistryAssumption`, `LocalAssumption`, `UsageAssumption`, `YdocAssumption`, `CaseAssumption`, `ChatAssumption`, `LibraryAssumption`, `AccountsAssumption`, `KnowledgeAssumption`),
which say that bounds are natural numbers, that special values are no ids, and that the set of processes is finite where it is counted.

| Theorem | Says, for all constants | Inductive invariant |
|---|---|---|
| `TaskRegistry_proofs!TypeCorrect`, `ActiveIsListed`, `ActiveIsReachable` | live tasks are in the hash, and in exactly their process's dictionary | `RegistryInv`: `Placed` (where a task runs), `CleanedAfterEnd` (a clean-up follows the end), `KeptByOwner` |
| `TaskRegistry_proofs!LeftoversAreOwed`, `NoReturnToRedis`, `LossNeedsTheDelete` | what a dictionary holds, a clean-up owes; what left Redis stays out; a live task is lost from its item's set by another clean-up's `DEL` only | `LeftoversInv`: an id is in the list of its own process and item, from which its own clean-up takes it |
| `LocalTasks_proofs!AwaitedByOne` | a task is awaited by one request at most | `AwaitInv`: who waits does so for a task that exists and has been popped |
| `LocalTasks_proofs!TypeCorrect`, `RunningIsTracked` | types; a running task is in `tasks` and once in its item's list | `TrackInv`: `ListedOnce` (a task is in the list of its item, and once, from its creation to its clean-up) and `Tracked` (a clean-up is due exactly after the end) |
| `LocalTasks_proofs!TwoAreStopped`, `OnlyItsItemCancelled` | "all stopped" is true of two listed tasks; a request cancels its own item's tasks only | `PairInv`: `LoopPlace` (where the `for` of a request over two tasks is: before the first; past it, while the first is ended or awaited and keeps index 1; past both) and `OneLoop` |
| `LocalTasks_proofs!WaitsEndWithTheTask`, `NothingIsLeftOver` | requests wait for cancelled tasks only; what is listed is alive or about to be cleaned up | `DrainInv`: a cleaned-up id is not in `tasks`; its other half comes from `ListedOnce` |
| `UsagePool_proofs!TypeCorrect`, `OnlyExpiryEndsCleanup`, `SweepsSpareTheFresh` | types; a cleanup ends only after its lock expired; a sweep removes nothing that it saw in time | `SurvivalInv`: `SweptOnce` (a model that a sweep is still to do has its key, while no other process cleans) |
| `UsagePool_proofs!CleanersAreBounded`, `OneCleaner` | at most one cleaner and one more per stalled tick | `LockInv`: `HolderCleans`, `HolderLate` (a lock about to expire was not renewed), `ExpiryNeedsStall` |
| `UsagePool_proofs!RefusedForAReason`, `SweepsHoldTheLock` | the lock is held by a cleaner or by a dead process's key that expires; a sweep without the lock needs an expiry | `LockInv`, and that the key exists as long as it has time to live |
| `Ydoc_proofs!TypeCorrect`, `NothingIsMissed` | with Redis or without, no session misses an update | `SyncInv`: who is about to enter the room has not been sent the state |
| `Ydoc_proofs!DocumentIsKept` | `Ydoc` implements `SharedDocument` | `AloneInv`: the steps of Redis are not taken without it |
| `Ydoc_proofs!LatestIsNotDropped` | one process, where nobody is alone in the room while an update is sent there, does not drop the data of the last update | `SaveInv`, kept under the premise `Accompanied`: `InOrder` (handlers and timers go through the stored updates in order, so no older save follows a newer one) and `LastSave` (the last save is cancelled only while a newer update waits to be stored) |
| `CaseGraph_proofs!TypeCorrect`, `RatingsSurvive` | types; a stored rating goes only with a transaction of another process that had read the node before | `IInv`: `TypeOK` and `Fresh` (ids to be inserted are new, each once) |
| `CaseGraph_proofs!NothingIsLeft` | one process leaves nothing of a deleted case | `GoneInv`: nor is any handler about to insert |
| `CaseGraph_proofs!NoSilentProcessing` | a marked node has a regeneration that runs or has broken | `ProcessingIsWorkedOn` itself, with the types |
| `ChatStream_proofs!TypeCorrect`, `ResponsesAreStored`, `TextIsKept` | one process has stored what it announces; the text is stored at each await | `IInv`: `TypeOK` and `Alone` (only several processes are between the two transactions of a save) |
| `ChatStream_proofs!RoundsRunOut` | a response begins work for the model a bounded number of times | `OnwardInv`: a save never goes on into a round; `RoundsLeft` is the measure that goes down |
| `ChatLibrary_proofs!LibraryTypes`, `BranchesStayWhole`, `CopiesGoFirst` | types; a deletion takes no folder that has children; an answer leaves no copy | `LibraryInv`: `Descent` (the children of a folder on the stack are still to do, or next on it), `Blank` (a deleted folder is nobody's child), `Withdrawing` (copies go before links and chats) |
| `ChatLibrary_proofs!TwinsOverlap` | two folders get one parent and one name only from requests that overlap | `TwinsInv`: whoever is at the place of an open request has arrived there since its lookup |
| `ChatLibrary_proofs!DeletionIsDone` | an answered deletion has removed all folders below and every chat in them, unless the folder is on a cycle | `DeletionInv`: `Path` (the stack is a path of parents; it passes a folder twice only after passing its start twice), `Shrinking` (the subtree is still the least set with the folder, what has gone and the children of its members), `Purging` |
| `Workspace_proofs!PartsInterleave`, `WorkspaceTypes` | the composition has every property that is proved of a part | none: the parts share no variable |
| `Workspace_proofs!AccountsTypes`, `MembersAlwaysExist`, `PrimaryAdminStays`, `FounderIsFirst` | types; members have accounts; the first account stays admin; all ways of registration together found one, the oldest | `AccountsInv`: `HeldExist` (the account that a handler or callback holds is there, or lost) and `GroupsFit` (a deletion has yet to leave each group that the account is in) |
| `Workspace_proofs!KnowledgeTypes`, `SettledFilesStay` | types; settled files stay listed until taken out, and findable until their entries or the collection begin to be replaced | `KnowledgeInv`: `Pending` (a list to be written back holds every settled file, and what is to be taken out is settled no more), `AdditionsKept` (a request that is alone has lost nothing yet) |

The argument has the same shape everywhere: a property is seldom inductive, because it speaks
of the end of a protocol and not of its middle. The strengthening says what the middle knows: who holds what, and which calls
can still be under way. The comment at each strengthening says what goes wrong without it. The proofs have one
step per action; actions that touch the same variables in the same way share a lemma
(`StoredStep`, `SaveTypes`, `TaskStepKeeps`, `OthersKeep`).

**Only model-checked.** All liveness (`ItemStopTakesEffect`, `LocalDrains`, `RegistryDrains`, `Answered`, `DictionariesDrain`, `CleanerComesBack`,
`StaleRemoved`, `LatestSaved`, `Ends`): liveness under fairness is beyond the prover. Every safety property that a passing run checks is also a theorem.

What can be proved of a liveness property is the part of it that a scheduler could not repair: that whoever waits, waits for
something that is under way, and that what must go away has somebody left whose task it is. `LocalDrains` rests on `LeftoversAreOwed`,
`RegistryDrains` on `NoReturnToRedis`, `Answered` on `WaitsEndWithTheTask`, `DictionariesDrain` on `NothingIsLeftOver`,
`CleanerComesBack` on `RefusedForAReason`, `LatestSaved` on `LatestIsNotDropped` and `Ends` on `RoundsRunOut`. None of these
implies its liveness property: that the steps are taken is what TLC checks under the fairness of section 4.

`LossNeedsTheDelete`, `SweepsHoldTheLock` and `TwoAreStopped` are about failing runs: they say what every violation needs, and so that the
counterexample TLC shows is the only kind. A live task that was saved leaves the set of its item only through the second transaction of another task's
`redis_cleanup_task`; a sweep begins without the lock only after the lock of a live process has expired, that is after a stall;
the message of `stop_item_tasks` is wrong only when three tasks or more were listed.

`DeletionIsDone` is about all that is below a folder, at any depth, and the prover has no induction over the tree. The model
therefore defines the subtree as the least set with the folder and the children of its members (`Below`), and the invariant carries that
leastness from step to step: a row that goes moves from "child" to "gone" and the set stays least. At the end only the folder itself
and what has gone are needed to be such a set, so there is nothing else. That the recursion limit is met on a cycle only is the
pigeonhole principle on the stack, which is longer than there are folders.

## 6. What the failing runs show

1. `tasks.py:65`: `SCARD` and `DEL` of an item's set are two transactions; a task created between them is neither listed for its item nor stopped with it.
2. `tasks.py:178`: `stop_item_tasks` iterates the list that `cleanup_task` shortens; every other task may be skipped while the answer is "All tasks ... stopped."
3. `socket/utils.py:38`: `renew_lock` sets the key whenever it exists, so a process whose lock has expired takes it from the next holder.
4. `socket/main.py:591`: users are counted and the document cleared in separate commands.
5. `models/cases.py:253`: metadata that is changed in place is not flushed, so a rating of a node that has metadata is lost, and a layout can be saved once.

## 7. Observations without a run

- The ids of a process that dies stay in Redis for ever; a coroutine that ends before `redis_save_task` ran is saved after it was cleaned up. `RegistryDrains` states exactly the tasks that do leave, and so catches neither of the two.
- `stop_item_tasks` returns at the first task that was not cancelled (`tasks.py:181`), and `tasks.pop` raises `KeyError` where the endpoint expects `ValueError` (`tasks.py:156`).
- An error of Redis in the usage cleanup ends it; processes that skipped cleanup do not take over. Usage events of two processes overwrite each other, and a sweep overwrites one that came after its reading; `SeenFreshStays` is about what a sweep has read.
- The save of a note fails when its author has disconnected within the 0.5 s of the debounce (`socket/main.py:555`); `LatestSaved` names the premise. An update that is sent into an otherwise empty room overtakes those whose emit began before the others left (l. 543): its save comes first, and older data is saved over it; `Accompanied` is the premise that excludes this. An update handler that waits for a cancelled save can leave updates in a document that nobody is in.
- With Redis a join overlapping the session's own disconnect leaves a user in the document (`socket/utils.py:164`).
- An `AI_ANALYSIS` node is created as PROCESSING and nothing processes it. Deleting a node leaves its edges. Several processes can insert into a deleted case, and their changes of one node's metadata overwrite each other, ratings included (`models/cases.py:249`, `cases_migrated.py:805`). A regeneration that failed, was stopped or was lost leaves its node PROCESSING; `ProcessingIsWorkedOn` excuses these.
- The docstring of the node's regeneration says that the updated node is returned at once, which the default, asynchronous, way does not do.
- A response whose first stream raises is neither announced nor saved (`middleware.py:2155`); a later broken stream counts as complete (l. 2498), and its unclosed code block is executed. With Redis a second stop command during the emission of `task-cancelled` loses the save (l. 2545).
- With `ENABLE_REALTIME_CHAT_SAVE` reasoning, tool results, code output and the delta that closes a code block are shown and not stored, unless text follows (l. 2067, 2509). `RealtimeKeepsUp` is therefore stated of the text.
- A cancellation during the background work writes the response over what a user may have edited since (l. 2549).
- Two processes that save messages of one chat write whole documents over each other (`models/chats.py:244`, `266`). The safety properties of `ChatStream` are stated for one process; run `chat` contains the losses of several.
- Folders: `FolderForm` allows further fields, and `insert_new_folder` spreads them after `id` (`models/folders.py:61`, `73`), so that a client may choose a folder's id. `update_folder_parent_id_by_id` checks neither that the new parent exists nor that it is elsewhere in the tree. The deletion of a folder on a cycle ends at the recursion limit, is answered `True` and leaves what it had not come to (`models/folders.py:282`). Deleting a folder deletes the chats in it and leaves their shared copies, which nothing removes after that (`routers/folders.py:249`). A crash between the folders and the chats leaves chats whose folder is gone.
- Sharing: after a crash between copy and link, the next share makes a second copy; later updates refresh whichever copy is found first, and the id they return may be the one that is not linked (`models/chats.py:326`). After a crash between the removal of the copies and of the link, sharing again fails until the sharing is ended once more, because `insert_shared_chat_by_chat_id` looks for a chat of a user `shared` (l. 292).
- Accounts: a crash during the first registration leaves an admin without a row in `auth`, or sign-up still enabled; one during a deletion leaves the row of `auth` (`models/auths.py:197`). Two accounts of one mail address can come of two OAuth callbacks that await pictures (`utils/oauth.py:465`). A login goes on with the row it read: an account that became an admin's meanwhile is moved between groups, one that was deleted is put back into them (`MembersExist` names these as `lost`). `created_at` is in seconds, and of two first accounts of one second either may be taken for the primary admin.
- Groups: `add_users_to_group` stores nothing unless the group was empty, and `remove_users_from_group` stores nothing at all (`models/groups.py:296`, `320`).
- Knowledge bases: when a page or a video is processed under the name of a base's collection, that collection is deleted and holds the page alone afterwards (`routers/retrieval.py:1256`), while the list still names the files. `POST /retrieval/delete` passes an argument that no vector client takes, and answers `false`. Additions that overlap lose one another's ids, while the entries stay in the collection; such a file cannot be added again, as its content counts as a duplicate (`routers/retrieval.py:1167`). An edit that does not send `data` empties the list (`models/knowledge.py:173`). The reindexing deletes a base to which no file was ever added (`routers/knowledge.py:186`). A batch that cannot be saved fails as a whole with an error of validation, because the result is built without a status (`routers/retrieval.py:2327`). Deleting a file leaves its entries in the bases' collections, and they are found by searches. A thread that indexes while the base is deleted makes its collection anew.
- Configuration: a value is saved to the database and then set in Redis (`config.py:258`); should the second fail, the processes go on reading the old one.

## 8. What is abstracted, and what is not modelled

- A transaction of the database and a pipeline of Redis are atomic and durable. Failures of the database are not modelled, failures of Redis only in `TaskRegistry`.
- Ids are model values or the next number. Text, updates and model answers are what the properties tell apart, and no more.
- `Ydoc`: the note exists and its access does not change; awareness messages keep no state.
- `CaseGraph`: the columns of the case other than its metadata, the upsert of feedback, and the read-only endpoints are left out. A crash loses all tasks and handlers, and the rows stay.
- `ChatStream`: responses without a stream, filters, the events of tools that write into the document, and the other columns of a chat are left out. A response's background saves the follow-ups or the title, of which it makes at most one save here. A post by a client is out of date in the messages it names and up to date in the others.
- `ChatLibrary`, `Accounts` and `Knowledge` are models of one process. Coroutines that do not suspend run one at a time, and only threads and the callback's await come between their commits. With several processes every lookup and insertion could interleave.
- `ChatLibrary`: one user; the contents of chats (which are `ChatStream`'s), tags, pins and the archive are left out, and so is the admin who deletes another's chat, which is the same two commits. A client may name any folder that it has ever seen. A new folder's id is fresh, as it is unless the client sends one of its own.
- `Accounts`: SCIM (`routers/scim.py`) is left out. It can demote, deactivate or delete the primary admin and write any ids as the members of a group, without the checks of the other routers, so `PrimaryAdmin`, `OneFounder` and `MembersExist` hold of servers on which it is off or not used for that. `DEFAULT_USER_ROLE` is not `admin`, OAuth's role management is off and no group is blocked; with role management on, a login can take the role of the primary admin away. Which account a mail address or a subject leads to is any. The deletion of an account deletes its chats between two of the steps here, as `ChatLibrary` has it. Roles other than `admin` are one. The LDAP login's creation of groups is `CreateGroup`.
- `Knowledge`: one base and its files; the collection of a single file, the models that refer to a base (rows of another table, changed before the base is deleted), access control and the bypass of embedding are left out. All files are uploaded before; one that comes later is one that no request has been about.
- `src/open_webui/static` holds vendored JavaScript for the API's documentation page. It is not part of the system and is not modelled.
- The remaining components are listed in `PROJECT.json` with the reason for each.

## 9. Plan

1. `SessionPool`: `USER_POOL` under connect, user-join and disconnect with Redis (`socket/main.py:271`, `293`), then composed with `Ydoc`'s `disconnect`.
2. `ConfigStore`: one value in the database and in Redis (`config.py:258`).
3. `ChatStream`: events of tools as a second writer (`socket/main.py:685`), and an abstract document that several responses refine; a run for what realtime saving leaves out.
4. `Accounts` with several processes: two first registrations (`routers/auths.py:557`), and with OAuth's role management.
5. `Knowledge`: the collections of single files and the upload that fills them.

The hazards that these components have are in `PROJECT.json` as far as they are the strongest ones, and otherwise here and in section 7.
