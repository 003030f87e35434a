----------------------------- MODULE UsagePool -----------------------------
(***************************************************************************)
(* The pool of models in use (open_webui/socket/main.py) shared by several *)
(* server processes through Redis, and the periodic cleanup that one of    *)
(* them at a time is meant to run under the RedisLock of socket/utils.py.  *)
(*                                                                         *)
(* A step is one Redis command: these clients are synchronous, so a        *)
(* process keeps its event loop from the first command of a section to the *)
(* next sleep, and only other processes come in between.  One tick is half *)
(* of WEBSOCKET_REDIS_LOCK_TIMEOUT: the lock lives two ticks, a retry waits *)
(* one or two, and a cleanup renews many times per tick unless its process *)
(* stalls.                                                                 *)
(***************************************************************************)
EXTENDS Naturals, FiniteSets

CONSTANTS Worker,      \* server processes
          Model, Sid,  \* keys of USAGE_POOL, and of its values
          Free,        \* the lock key does not exist
          Dead,        \* it holds the lock_id of a process that has died
          MaxStalls,   \* bound on ticks in which a cleanup does not renew
          MaxCrashes,  \* bound on process crashes
          MaxReports   \* bound on usage events

ASSUME UsageAssumption ==
    /\ IsFiniteSet(Worker)
    /\ Free \notin Worker /\ Dead \notin Worker /\ Free # Dead
    /\ {MaxStalls, MaxCrashes, MaxReports} \subseteq Nat

VARIABLES
    lock,      \* value of the key usage_cleanup_lock
    ttl,       \* ticks until it expires
    pc,        \* worker -> where its periodic_usage_pool_cleanup() is
    attempt,   \* worker -> attempts to acquire made
    timer,     \* worker -> ticks until it may retry
    renewed,   \* worker -> it renewed since the last tick
    pool,      \* USAGE_POOL: model -> sid -> age of its entry
    shot,      \* worker -> the items of USAGE_POOL it is going through
    todo,      \* worker -> models of shot yet to visit
    event,     \* worker -> the usage event it is handling
    expiries,  \* times the lock of a live process expired (history)
    stalls,    \* ticks that found a cleanup late
    crashes,
    reports

vars == <<lock, ttl, pc, attempt, timer, renewed, pool, shot, todo, event,
          expiries, stalls, crashes, reports>>

lockVars == <<lock, ttl, renewed, expiries, stalls>>

-----------------------------------------------------------------------------
Ages    == {"none", "fresh", "stale"}    \* "none": the sid has no entry
Entries == [Sid -> Ages]
NoEntry == [s \in Sid |-> "none"]        \* the model has no key
NoEvent == [at |-> "none"]

Event == {NoEvent}
    \cup [at : {"get"}, sid : Sid, model : Model]
    \cup [at : {"set"}, sid : Sid, model : Model, read : Entries]

Attempts == 3       \* max_retries + 1
LockTicks == 2      \* ex = WEBSOCKET_REDIS_LOCK_TIMEOUT

Sweeping == {"reading", "sweeping"}
Leaving  == {"releasing", "deleting"}
Cleaning == {"acquired", "asleep"} \cup Sweeping \cup Leaving

Cleaners == {w \in Worker : pc[w] \in Cleaning}

TypeOK ==
    /\ lock \in Worker \cup {Free, Dead}
    /\ ttl \in 0..LockTicks
    /\ pc \in [Worker -> Cleaning \cup {"attempting", "skipped", "exited", "down"}]
    /\ attempt \in [Worker -> 0..Attempts]
    /\ timer \in [Worker -> 0..LockTicks]
    /\ renewed \in [Worker -> BOOLEAN]
    /\ pool \in [Model -> Entries]
    /\ shot \in [Worker -> [Model -> Entries]]
    /\ todo \in [Worker -> SUBSET Model]
    /\ event \in [Worker -> Event]
    /\ {expiries, stalls, crashes, reports} \subseteq Nat

Init ==
    /\ lock = Free
    /\ ttl = 0
    /\ pc = [w \in Worker |-> "attempting"]
    /\ attempt = [w \in Worker |-> 0]
    /\ timer = [w \in Worker |-> 0]
    /\ renewed = [w \in Worker |-> FALSE]
    /\ pool = [m \in Model |-> NoEntry]
    /\ shot = [w \in Worker |-> [m \in Model |-> NoEntry]]
    /\ todo = [w \in Worker |-> {}]
    /\ event = [w \in Worker |-> NoEvent]
    /\ expiries = 0
    /\ stalls = 0
    /\ crashes = 0
    /\ reports = 0

(* The event loop is between two callbacks.                                *)
LoopIdle(w) == /\ pc[w] \in {"attempting", "asleep", "skipped", "exited"}
               /\ event[w] = NoEvent

-----------------------------------------------------------------------------
(***************************************************************************)
(* Faulty variants of definitions below, one plausible mistake each.       *)
(***************************************************************************)

(* SET without nx *)
AcquireAlways(w) ==
    /\ LoopIdle(w) /\ pc[w] = "attempting"
    /\ timer[w] = 0
    /\ lock' = w
    /\ ttl' = LockTicks
    /\ renewed' = [renewed EXCEPT ![w] = TRUE]
    /\ pc' = [pc EXCEPT ![w] = "acquired"]
    /\ UNCHANGED <<attempt, timer, pool, shot, todo, event, expiries, stalls,
                   crashes, reports>>

(* one attempt fewer: the last retry is not made *)
FailTooSoon(w) ==
    /\ LoopIdle(w) /\ pc[w] = "attempting"
    /\ timer[w] = 0
    /\ lock # Free
    /\ attempt' = [attempt EXCEPT ![w] = @ + 1]
    /\ IF attempt[w] + 2 < Attempts
       THEN /\ \E delay \in 1..LockTicks : timer' = [timer EXCEPT ![w] = delay]
            /\ UNCHANGED pc
       ELSE /\ pc' = [pc EXCEPT ![w] = "skipped"]
            /\ UNCHANGED timer
    /\ UNCHANGED <<lockVars, pool, shot, todo, event, crashes, reports>>

(* the retries have no end *)
FailForever(w) ==
    /\ LoopIdle(w) /\ pc[w] = "attempting"
    /\ timer[w] = 0
    /\ lock # Free
    /\ attempt' = [attempt EXCEPT ![w] = @ + 1]
    /\ \E delay \in 1..LockTicks : timer' = [timer EXCEPT ![w] = delay]
    /\ UNCHANGED <<lockVars, pc, pool, shot, todo, event, crashes, reports>>

(* the renewal does not extend the key's life *)
RenewKeepsTtl(w) ==
    /\ pc[w] = "acquired" \/ (LoopIdle(w) /\ pc[w] = "asleep")
    /\ IF lock = Free
       THEN pc' = [pc EXCEPT ![w] = "releasing"] /\ UNCHANGED <<lock, renewed>>
       ELSE /\ lock' = w
            /\ renewed' = [renewed EXCEPT ![w] = TRUE]
            /\ pc' = [pc EXCEPT ![w] = "reading"]
    /\ UNCHANGED <<ttl, attempt, timer, pool, shot, todo, event, expiries, stalls,
                   crashes, reports>>

(* a model is written back as it was read *)
SweepKeeps(w, m) ==
    /\ pc[w] = "sweeping"
    /\ m \in todo[w]
    /\ pool' = [pool EXCEPT ![m] = shot[w][m]]
    /\ todo' = [todo EXCEPT ![w] = @ \ {m}]
    /\ UNCHANGED <<lockVars, pc, attempt, timer, shot, event, crashes, reports>>

(* a model with one timed-out entry is deleted *)
SweepDeletes(w, m) ==
    /\ pc[w] = "sweeping"
    /\ m \in todo[w]
    /\ pool' = IF \E s \in Sid : shot[w][m][s] = "stale"
               THEN [pool EXCEPT ![m] = NoEntry] ELSE pool
    /\ todo' = [todo EXCEPT ![w] = @ \ {m}]
    /\ UNCHANGED <<lockVars, pc, attempt, timer, shot, event, crashes, reports>>

-----------------------------------------------------------------------------
(* aquire_lock: SET nx, at most Attempts times, a sleep in between.        *)

Acquire(w) ==
    /\ LoopIdle(w) /\ pc[w] = "attempting"
    /\ timer[w] = 0
    /\ lock = Free
    /\ lock' = w
    /\ ttl' = LockTicks
    /\ renewed' = [renewed EXCEPT ![w] = TRUE]
    /\ pc' = [pc EXCEPT ![w] = "acquired"]
    /\ UNCHANGED <<attempt, timer, pool, shot, todo, event, expiries, stalls,
                   crashes, reports>>

FailToAcquire(w) ==
    /\ LoopIdle(w) /\ pc[w] = "attempting"
    /\ timer[w] = 0
    /\ lock # Free
    /\ attempt' = [attempt EXCEPT ![w] = @ + 1]
    /\ IF attempt[w] + 1 < Attempts
       THEN /\ \E delay \in 1..LockTicks : timer' = [timer EXCEPT ![w] = delay]
            /\ UNCHANGED pc
       ELSE /\ pc' = [pc EXCEPT ![w] = "skipped"]
            /\ UNCHANGED timer
    /\ UNCHANGED <<lockVars, pool, shot, todo, event, crashes, reports>>

(* renew_lock: SET xx, which asks only that the key exist.                 *)
Renew(w) ==
    /\ pc[w] = "acquired" \/ (LoopIdle(w) /\ pc[w] = "asleep")
    /\ IF lock = Free
       THEN pc' = [pc EXCEPT ![w] = "releasing"] /\ UNCHANGED <<lock, ttl, renewed>>
       ELSE /\ lock' = w
            /\ ttl' = LockTicks
            /\ renewed' = [renewed EXCEPT ![w] = TRUE]
            /\ pc' = [pc EXCEPT ![w] = "reading"]
    /\ UNCHANGED <<attempt, timer, pool, shot, todo, event, expiries, stalls,
                   crashes, reports>>

(* list(USAGE_POOL.items())                                                *)
ReadPool(w) ==
    /\ pc[w] = "reading"
    /\ shot' = [shot EXCEPT ![w] = pool]
    /\ todo' = [todo EXCEPT ![w] = {m \in Model : pool[m] # NoEntry}]
    /\ pc' = [pc EXCEPT ![w] = "sweeping"]
    /\ UNCHANGED <<lockVars, attempt, timer, pool, event, crashes, reports>>

(* What a copy says by the time it is written: its entries keep the time   *)
(* they were reported at, and may have timed out since it was read.        *)
Later(copy) == {late \in Entries : \A s \in Sid :
                   late[s] = copy[s] \/ (copy[s] = "fresh" /\ late[s] = "stale")}

(* Write back what the copy says of a model, or delete it: `del` of a key  *)
(* that another process deleted is a KeyError that ends the loop.          *)
Sweep(w, m) ==
    LET left == [s \in Sid |-> IF shot[w][m][s] = "stale" THEN "none"
                               ELSE shot[w][m][s]]
    IN
    /\ pc[w] = "sweeping"
    /\ m \in todo[w]
    /\ IF left = NoEntry /\ pool[m] = NoEntry
       THEN /\ pc' = [pc EXCEPT ![w] = "releasing"]
            /\ UNCHANGED <<pool, todo>>
       ELSE /\ \E late \in Later(left) : pool' = [pool EXCEPT ![m] = late]
            /\ todo' = [todo EXCEPT ![w] = @ \ {m}]
            /\ UNCHANGED pc
    /\ UNCHANGED <<lockVars, attempt, timer, shot, event, crashes, reports>>

SweepDone(w) ==
    /\ pc[w] = "sweeping"
    /\ todo[w] = {}
    /\ pc' = [pc EXCEPT ![w] = "asleep"]
    /\ shot' = [shot EXCEPT ![w] = [m \in Model |-> NoEntry]]
    /\ UNCHANGED <<lockVars, attempt, timer, pool, todo, event, crashes, reports>>

(* release_lock: GET, compare, DEL.                                        *)
ReleaseGet(w) ==
    /\ pc[w] = "releasing"
    /\ pc' = [pc EXCEPT ![w] = IF lock = w THEN "deleting" ELSE "exited"]
    /\ UNCHANGED <<lockVars, attempt, timer, pool, shot, todo, event, crashes,
                   reports>>

ReleaseDelete(w) ==
    /\ pc[w] = "deleting"
    /\ lock' = Free
    /\ ttl' = 0
    /\ pc' = [pc EXCEPT ![w] = "exited"]
    /\ UNCHANGED <<attempt, timer, renewed, pool, shot, todo, event, expiries,
                   stalls, crashes, reports>>

-----------------------------------------------------------------------------
(* usage: HEXISTS, HGET, HSET.                                             *)

UsageCheck(w, s, m) ==
    /\ LoopIdle(w)
    /\ reports < MaxReports
    /\ event' = [event EXCEPT ![w] =
           IF pool[m] # NoEntry
           THEN [at |-> "get", sid |-> s, model |-> m]
           ELSE [at |-> "set", sid |-> s, model |-> m, read |-> NoEntry]]
    /\ reports' = reports + 1
    /\ UNCHANGED <<lockVars, pc, attempt, timer, pool, shot, todo, crashes>>

UsageGet(w) ==
    LET e == event[w] IN
    /\ e.at = "get"
    /\ event' = [event EXCEPT ![w] =
           IF pool[e.model] = NoEntry THEN NoEvent        \* KeyError
           ELSE [at |-> "set", sid |-> e.sid, model |-> e.model,
                 read |-> pool[e.model]]]
    /\ UNCHANGED <<lockVars, pc, attempt, timer, pool, shot, todo, crashes, reports>>

UsageSet(w) ==
    LET e == event[w] IN
    /\ e.at = "set"
    /\ \E late \in Later(e.read) :
          pool' = [pool EXCEPT ![e.model] = [late EXCEPT ![e.sid] = "fresh"]]
    /\ event' = [event EXCEPT ![w] = NoEvent]
    /\ UNCHANGED <<lockVars, pc, attempt, timer, shot, todo, crashes, reports>>

(* More than TIMEOUT_DURATION has passed since the entry was written.      *)
Age(m, s) ==
    /\ pool[m][s] = "fresh"
    /\ pool' = [pool EXCEPT ![m][s] = "stale"]
    /\ UNCHANGED <<lockVars, pc, attempt, timer, shot, todo, event, crashes, reports>>

-----------------------------------------------------------------------------
(* Half of the lock's lifetime passes.                                     *)
Tick ==
    LET late    == {w \in Cleaners : ~renewed[w]}
        expires == ttl = 1
    IN
    /\ late # {} => stalls < MaxStalls
    /\ stalls' = IF late = {} THEN stalls ELSE stalls + 1
    /\ ttl' = IF ttl = 0 THEN 0 ELSE ttl - 1
    /\ lock' = IF expires THEN Free ELSE lock
    /\ expiries' = IF expires /\ lock \in Worker THEN expiries + 1 ELSE expiries
    /\ renewed' = [w \in Worker |-> FALSE]
    /\ timer' = [w \in Worker |-> IF timer[w] = 0 THEN 0 ELSE timer[w] - 1]
    /\ UNCHANGED <<pc, attempt, pool, shot, todo, event, crashes, reports>>

(* The process dies; the next one draws a lock_id of its own.              *)
Crash(w) ==
    /\ pc[w] # "down"
    /\ crashes < MaxCrashes
    /\ pc' = [pc EXCEPT ![w] = "down"]
    /\ lock' = IF lock = w THEN Dead ELSE lock
    /\ event' = [event EXCEPT ![w] = NoEvent]
    /\ shot' = [shot EXCEPT ![w] = [m \in Model |-> NoEntry]]
    /\ todo' = [todo EXCEPT ![w] = {}]
    /\ crashes' = crashes + 1
    /\ UNCHANGED <<ttl, attempt, timer, renewed, pool, expiries, stalls, reports>>

Restart(w) ==
    /\ pc[w] = "down"
    /\ pc' = [pc EXCEPT ![w] = "attempting"]
    /\ attempt' = [attempt EXCEPT ![w] = 0]
    /\ timer' = [timer EXCEPT ![w] = 0]
    /\ UNCHANGED <<lockVars, pool, shot, todo, event, crashes, reports>>

-----------------------------------------------------------------------------
CleanupStep(w) ==
    \/ Acquire(w) \/ FailToAcquire(w) \/ Renew(w) \/ ReadPool(w)
    \/ (\E m \in Model : Sweep(w, m)) \/ SweepDone(w)
    \/ ReleaseGet(w) \/ ReleaseDelete(w)

UsageStep(w) ==
    \/ \E s \in Sid, m \in Model : UsageCheck(w, s, m)
    \/ UsageGet(w)
    \/ UsageSet(w)

Next ==
    \/ \E w \in Worker : CleanupStep(w) \/ UsageStep(w) \/ Crash(w) \/ Restart(w)
    \/ \E m \in Model, s \in Sid : Age(m, s)
    \/ Tick

Spec == Init /\ [][Next]_vars

(* Sleeps end, event loops go on, time passes and processes are restarted. *)
Fairness ==
    /\ \A w \in Worker : /\ WF_vars(CleanupStep(w)) /\ WF_vars(UsageGet(w) \/ UsageSet(w))
                         /\ WF_vars(Restart(w))
    /\ WF_vars(Tick)

FairSpec == Spec /\ Fairness

-----------------------------------------------------------------------------
(***************************************************************************)
(* Properties                                                              *)
(***************************************************************************)

(* Mutual exclusion, as far as the lock gives it: each tick in which a     *)
(* cleanup was too late to renew may add one cleanup beside the others,    *)
(* and nothing else does, neither a crash nor the take-over by renew_lock  *)
(* nor the gap between the GET and the DEL of release_lock.                *)
OneCleanerPerStall == Cardinality(Cleaners) <= 1 + stalls

(* The same with the lock's expiries, and who holds it, in the place of    *)
(* the stalls: the inductive form.                                         *)
CleanersBounded ==
    Cardinality(Cleaners) <= (IF lock \in Worker THEN 1 ELSE 0) + expiries

(* The cleanup loop of a process ends by an exception, a failed renewal or *)
(* a KeyError, only after the lock of a live process has expired.          *)
CleanupSurvives ==
    \A w \in Worker : pc[w] \in Leaving \cup {"exited"} => expiries > 0

(* Crashes do not end the cleanup: three attempts outlast the lock of a    *)
(* dead process, so when processes are restarted, one of them ends up      *)
(* cleaning for good, unless an exception has ended a cleanup loop.        *)
CleanerComesBack ==
    \/ <>[](\E w \in Worker : pc[w] \in Cleaning)
    \/ <>(\E w \in Worker : pc[w] = "exited")

(* get_models_in_use forgets what is no longer in use: a timed-out entry   *)
(* is removed or reported again, as long as no cleanup loop has ended.     *)
StaleRemoved ==
    \A m \in Model, s \in Sid :
        pool[m][s] = "stale" ~>
            pool[m][s] # "stale" \/ \E w \in Worker : pc[w] = "exited"

(* A sweep does not remove what it saw in time, although it writes back    *)
(* whole models and other processes write them too.                        *)
SeenFreshStays ==
    [][\A w \in Worker, m \in Model, s \in Sid :
          (todo'[w] # todo[w] /\ shot[w][m][s] = "fresh" /\ pool[m][s] # "none")
              => pool'[m][s] # "none"]_vars

-----------------------------------------------------------------------------
(***************************************************************************)
(* What a log message says and the code refutes.                           *)
(***************************************************************************)

(* "Unable to renew cleanup lock. Exiting usage pool cleanup.": a process  *)
(* that no longer holds the lock does not begin another sweep.             *)
LostLockExits ==
    [][\A w \in Worker :
          pc[w] # "reading" /\ pc'[w] = "reading" => lock = w]_vars
=============================================================================
