-------------------------------- MODULE Ydoc --------------------------------
(***************************************************************************)
(* One collaborative note: the ydoc handlers and the disconnect handler of *)
(* open_webui/socket/main.py over the YdocManager of socket/utils.py, with *)
(* the debounced save of the note.                                         *)
(*                                                                         *)
(* Without Redis the manager's methods never suspend, so a handler runs up *)
(* to its first emit that has a recipient.  With Redis each command is a   *)
(* step, handlers run in several processes, and an emit is published and   *)
(* handled by every process later.  The client is external: it sends       *)
(* updates for a document it got the state of, leaves what it joined, and  *)
(* starts from an empty Y.Doc whenever it joins.                           *)
(*                                                                         *)
(* The note exists and its access does not change.                         *)
(***************************************************************************)
EXTENDS Naturals, Sequences, FiniteSets

CONSTANTS Session,    \* socket.io session ids
          Update,     \* updates sent by clients, each once
          Modes,      \* the deployments considered: with Redis (TRUE), without
          Carries,    \* updates considered: with the note's data (TRUE), without
          MaxJoins,   \* bound on the joins of a session
          NoOne, NoUpdate,
          RedisCalls  \* bound on the joins and updates where Redis is used

ASSUME YdocAssumption ==
    /\ Modes \subseteq BOOLEAN
    /\ Carries \subseteq BOOLEAN
    /\ RedisCalls \in Nat
    /\ MaxJoins \in Nat
    /\ NoOne \notin Session
    /\ NoUpdate \notin Update

VARIABLES
    redis,       \* whether the manager has a Redis connection
    connected,   \* keys of SESSION_POOL
    users,       \* the document's users in the manager
    room,        \* participants of the socket.io room doc_<id>
    updates,     \* the document's updates in the manager
    join,        \* session -> where its join handler is
    joins,       \* session -> how often it joined
    away,        \* session and kind -> where its leave or disconnect handler is
    served,      \* session -> it got the state of the document it is in
    has,         \* session -> updates applied to the client's Y.Doc
    bus,         \* session -> updates emitted that are yet to reach its client
    upc,         \* update -> where its handler is
    author,      \* update -> the session that sent it
    withData,    \* update -> it carries the content of the note
    accepted,    \* the updates in the order in which they were stored (history)
    save,        \* update -> its debounced_save task
    timers,      \* the saves in the order in which one process created them
    stops,       \* saves that a stop command in flight names
    note         \* the update whose data was saved last

docVars    == <<connected, users, room, updates>>
clientVars == <<join, joins, served, has>>
updateVars == <<upc, author, withData, accepted>>
saveVars   == <<save, timers, stops, note>>

vars == <<redis, docVars, clientVars, away, bus, updateVars, saveVars>>

-----------------------------------------------------------------------------
Kinds == {"leave", "disconnect"}

TypeOK ==
    /\ redis \in Modes
    /\ connected \subseteq Session /\ users \subseteq Session /\ room \subseteq Session
    /\ updates \subseteq Update
    /\ join \in [Session -> {"idle", "asked", "added", "entered"}]
    /\ joins \in [Session -> 0..MaxJoins]
    /\ away \in [Session \X Kinds ->
                    {"idle", "check", "removed", "listed", "count", "clear",
                     "clearUsers", "done"}]
    /\ served \in [Session -> BOOLEAN]
    /\ has \in [Session -> SUBSET Update]
    /\ bus \in [Session -> SUBSET Update]
    /\ upc \in [Update -> {"new", "stopping", "stored", "emitted", "done"}]
    /\ author \in [Update -> Session \cup {NoOne}]
    /\ \A u \in Update : upc[u] # "new" => author[u] # NoOne
    /\ withData \in [Update -> BOOLEAN]
    /\ accepted \in Seq(Update)
    /\ save \in [Update -> {"none", "pending", "cancelled", "saved", "failed"}]
    /\ timers \in Seq(Update)
    /\ stops \subseteq Update
    /\ note \in Update \cup {NoUpdate}

Init ==
    /\ redis \in Modes
    /\ connected = Session
    /\ users = {} /\ room = {} /\ updates = {}
    /\ join = [x \in Session |-> "idle"]
    /\ joins = [x \in Session |-> 0]
    /\ away = [h \in Session \X Kinds |-> "idle"]
    /\ served = [x \in Session |-> FALSE]
    /\ has = [x \in Session |-> {}]
    /\ bus = [x \in Session |-> {}]
    /\ upc = [u \in Update |-> "new"]
    /\ author = [u \in Update |-> NoOne]
    /\ withData = [u \in Update |-> FALSE]
    /\ accepted = <<>>
    /\ save = [u \in Update |-> "none"]
    /\ timers = <<>>
    /\ stops = {}
    /\ note = NoUpdate

(* The bound on what clients send: with Redis a handler is many steps.      *)
InBounds ==
    redis => Cardinality({u \in Update : upc[u] # "new"})
                + Cardinality({e \in Session \X (1..MaxJoins) : e[2] <= joins[e[1]]})
             < RedisCalls

Pending == {u \in Update : save[u] = "pending"}

(* The first in a sequence of those that are waiting.                      *)
First(u, order, waiting) ==
    \E n \in DOMAIN order :
        /\ order[n] = u
        /\ \A m \in 1..(n - 1) : order[m] \notin waiting

-----------------------------------------------------------------------------
(***************************************************************************)
(* ydoc:document:join                                                      *)
(***************************************************************************)

(* The whole state is emitted to the session.  Applying an update that the *)
(* client has changes nothing.                                             *)
EmitState(x) == bus' = [bus EXCEPT ![x] = @ \cup (updates \ has'[x])]

MayJoin(x) ==
    /\ x \in connected
    /\ join[x] = "idle"
    /\ joins[x] < MaxJoins
    /\ InBounds

(* Without Redis nothing suspends before the state is queued.              *)
JoinAtOnce(x) ==
    /\ ~redis
    /\ MayJoin(x)
    /\ users' = users \cup {x}
    /\ room' = room \cup {x}
    /\ joins' = [joins EXCEPT ![x] = @ + 1]
    /\ served' = [served EXCEPT ![x] = TRUE]
    /\ has' = [has EXCEPT ![x] = {}]
    /\ EmitState(x)
    /\ UNCHANGED <<redis, connected, updates, join, away, updateVars, saveVars>>

(* With Redis: the session is looked up in SESSION_POOL,                   *)
JoinAsk(x) ==
    /\ redis
    /\ MayJoin(x)
    /\ join' = [join EXCEPT ![x] = "asked"]
    /\ joins' = [joins EXCEPT ![x] = @ + 1]
    /\ served' = [served EXCEPT ![x] = FALSE]
    /\ has' = [has EXCEPT ![x] = {}]
    /\ UNCHANGED <<redis, docVars, away, bus, updateVars, saveVars>>

(* faulty: the state is read before the room is entered *)
JoinReadsFirst(x) ==
    /\ join[x] = "asked"
    /\ users' = users \cup {x}
    /\ join' = [join EXCEPT ![x] = "added"]
    /\ served' = [served EXCEPT ![x] = TRUE]
    /\ UNCHANGED <<redis, connected, room, updates, joins, has, away, updateVars, saveVars>>
    /\ EmitState(x)

(* and added to the users, though it may have disconnected by then.        *)
JoinAdd(x) ==
    /\ join[x] = "asked"
    /\ users' = users \cup {x}
    /\ join' = [join EXCEPT ![x] = "added"]
    /\ UNCHANGED <<redis, connected, room, updates, joins, served, has, away, bus,
                   updateVars, saveVars>>

(* enter_room raises for a session that socket.io has disconnected; the    *)
(* handler then ends, and the session stays among the users.               *)
JoinEnter(x) ==
    /\ join[x] = "added"
    /\ IF away[<<x, "disconnect">>] = "done"
       THEN join' = [join EXCEPT ![x] = "idle"] /\ UNCHANGED room
       ELSE join' = [join EXCEPT ![x] = "entered"] /\ room' = room \cup {x}
    /\ UNCHANGED <<redis, connected, users, updates, joins, served, has, away, bus,
                   updateVars, saveVars>>

JoinRead(x) ==
    /\ join[x] = "entered"
    /\ join' = [join EXCEPT ![x] = "idle"]
    /\ served' = [served EXCEPT ![x] = TRUE]
    /\ UNCHANGED <<redis, docVars, joins, has, away, updateVars, saveVars>>
    /\ EmitState(x)

(* ydoc:document:state: a participant asks for the state again.            *)
RequestState(x) ==
    /\ x \in connected \cap room
    /\ served[x]
    /\ updates # {}
    /\ UNCHANGED <<redis, docVars, clientVars, away, updateVars, saveVars>>
    /\ EmitState(x)

-----------------------------------------------------------------------------
(***************************************************************************)
(* ydoc:document:leave and disconnect                                      *)
(***************************************************************************)

(* The handler returns; socket.io drops a disconnected session's rooms.    *)
Finish(x, kind) ==
    /\ away' = [away EXCEPT ![<<x, kind>>] = IF kind = "leave" THEN "idle" ELSE "done"]
    /\ room' = IF kind = "leave" THEN room ELSE room \ {x}

ClearUnused == updates' = IF users' = {} THEN {} ELSE updates

MayLeave(x) ==
    /\ x \in connected
    /\ away[<<x, "leave">>] = "idle"
    /\ join[x] # "idle" \/ x \in room

(* Without Redis the handler suspends only to tell those still in the room.*)
LeaveAtOnce(x) ==
    /\ ~redis
    /\ MayLeave(x)
    /\ users' = users \ {x}
    /\ room' = room \ {x}
    /\ served' = [served EXCEPT ![x] = FALSE]
    /\ IF room \ {x} = {}
       THEN ClearUnused /\ UNCHANGED away
       ELSE away' = [away EXCEPT ![<<x, "leave">>] = "check"] /\ UNCHANGED updates
    /\ UNCHANGED <<redis, connected, join, joins, has, bus, updateVars, saveVars>>

(* faulty: who is left is decided before the others are told *)
LeaveDecidesFirst(x) ==
    /\ away[<<x, "leave">>] = "check"
    /\ away' = [away EXCEPT ![<<x, "leave">>] = "idle"]
    /\ updates' = {}
    /\ UNCHANGED <<redis, connected, users, room, clientVars, bus, updateVars, saveVars>>

LeaveCheck(x) ==
    /\ away[<<x, "leave">>] = "check"
    /\ away' = [away EXCEPT ![<<x, "leave">>] = "idle"]
    /\ UNCHANGED <<redis, connected, users, room, clientVars, bus, updateVars, saveVars>>
    /\ ClearUnused

LeaveRemove(x) ==
    /\ redis
    /\ MayLeave(x)
    /\ users' = users \ {x}
    /\ away' = [away EXCEPT ![<<x, "leave">>] = "removed"]
    /\ UNCHANGED <<redis, connected, room, updates, clientVars, bus, updateVars, saveVars>>

(* leave_room, the emit, and document_exists.                              *)
LeaveRoom(x) ==
    /\ away[<<x, "leave">>] = "removed"
    /\ room' = room \ {x}
    /\ served' = [served EXCEPT ![x] = FALSE]
    /\ away' = [away EXCEPT ![<<x, "leave">>] = IF updates = {} THEN "idle" ELSE "count"]
    /\ UNCHANGED <<redis, connected, users, updates, join, joins, has, bus, updateVars,
                   saveVars>>

(* Without Redis: SESSION_POOL and the manager in one go.                  *)
DisconnectAtOnce(x) ==
    /\ ~redis
    /\ x \in connected
    /\ connected' = connected \ {x}
    /\ users' = users \ {x}
    /\ updates' = IF users = {x} THEN {} ELSE updates
    /\ Finish(x, "disconnect")
    /\ UNCHANGED <<redis, clientVars, bus, updateVars, saveVars>>

(* SESSION_POOL, then KEYS: a document has a users key while it has users. *)
DisconnectList(x) ==
    /\ redis
    /\ x \in connected
    /\ connected' = connected \ {x}
    /\ IF users = {}
       THEN Finish(x, "disconnect")
       ELSE away' = [away EXCEPT ![<<x, "disconnect">>] = "listed"] /\ UNCHANGED room
    /\ UNCHANGED <<redis, users, updates, clientVars, bus, updateVars, saveVars>>

DisconnectRemove(x) ==
    /\ away[<<x, "disconnect">>] = "listed"
    /\ users' = users \ {x}
    /\ away' = [away EXCEPT ![<<x, "disconnect">>] = "count"]
    /\ UNCHANGED <<redis, connected, room, updates, clientVars, bus, updateVars, saveVars>>

CountUsers(x, kind) ==
    /\ away[<<x, kind>>] = "count"
    /\ IF users = {}
       THEN away' = [away EXCEPT ![<<x, kind>>] = "clear"] /\ UNCHANGED room
       ELSE Finish(x, kind)
    /\ UNCHANGED <<redis, connected, users, updates, clientVars, bus, updateVars, saveVars>>

(* The two DELs of clear_document.                                         *)
ClearUpdates(x, kind) ==
    /\ away[<<x, kind>>] = "clear"
    /\ updates' = {}
    /\ away' = [away EXCEPT ![<<x, kind>>] = "clearUsers"]
    /\ UNCHANGED <<redis, connected, users, room, clientVars, bus, updateVars, saveVars>>

ClearUsers(x, kind) ==
    /\ away[<<x, kind>>] = "clearUsers"
    /\ users' = {}
    /\ Finish(x, kind)
    /\ UNCHANGED <<redis, connected, updates, clientVars, bus, updateVars, saveVars>>

-----------------------------------------------------------------------------
(***************************************************************************)
(* ydoc:document:update                                                    *)
(***************************************************************************)

(* To everyone else in the room; with Redis each process looks later who   *)
(* is there.                                                               *)
Broadcast(u, x) ==
    bus' = [y \in Session |->
               IF y # x /\ (redis \/ y \in room) THEN bus[y] \cup {u} ELSE bus[y]]

(* The save of an update that carries data becomes a task.                 *)
StartSave(u, data) ==
    /\ save' = [save EXCEPT ![u] = IF data THEN "pending" ELSE @]
    /\ timers' = IF data /\ ~redis THEN Append(timers, u) ELSE timers

(* append_to_updates, and without Redis the emit that follows it.  When    *)
(* nobody else is in the room the emit does not suspend, and the handler   *)
(* goes on to its end, before others that are still in their emits.        *)
Store(u, x, data) ==
    /\ updates' = updates \cup {u}
    /\ accepted' = Append(accepted, u)
    /\ IF redis \/ room \ {x} # {}
       THEN upc' = [upc EXCEPT ![u] = IF redis THEN "stored" ELSE "emitted"]
            /\ UNCHANGED <<save, timers>>
       ELSE upc' = [upc EXCEPT ![u] = "done"] /\ StartSave(u, data)
    /\ IF redis THEN UNCHANGED bus ELSE Broadcast(u, x)

(* faulty: the session is not kept for the save *)
ReceiveAnonymous(u, x, data) ==
    /\ upc[u] = "new"
    /\ InBounds
    /\ x \in connected
    /\ served[x]
    /\ withData' = [withData EXCEPT ![u] = data]
    /\ has' = [has EXCEPT ![x] = @ \cup {u}]
    /\ IF Pending = {} /\ ~redis
       THEN Store(u, x, data)
       ELSE /\ upc' = [upc EXCEPT ![u] = "stopping"]
            /\ UNCHANGED <<updates, accepted, bus, save, timers>>
    /\ stops' = IF redis THEN stops \cup Pending ELSE stops
    /\ UNCHANGED <<redis, connected, users, room, join, joins, served, away, author,
                   note>>

(* stop_item_tasks finds no save, or else suspends until one is stopped.   *)
Receive(u, x, data) ==
    /\ upc[u] = "new"
    /\ InBounds
    /\ x \in connected
    /\ served[x]
    /\ author' = [author EXCEPT ![u] = x]
    /\ withData' = [withData EXCEPT ![u] = data]
    /\ has' = [has EXCEPT ![x] = @ \cup {u}]
    /\ IF Pending = {} /\ ~redis
       THEN Store(u, x, data)
       ELSE /\ upc' = [upc EXCEPT ![u] = "stopping"]
            /\ UNCHANGED <<updates, accepted, bus, save, timers>>
    /\ stops' = IF redis THEN stops \cup Pending ELSE stops
    /\ UNCHANGED <<redis, connected, users, room, join, joins, served, away, note>>

(* Without Redis stop_item_tasks cancels the saves it comes upon; it may   *)
(* pass over some or end early (LocalTasks), and no exception gets past    *)
(* the handler's bare except.                                              *)
CancelSave(u, v) ==
    /\ ~redis
    /\ upc[u] = "stopping"
    /\ save[v] = "pending"
    /\ save' = [save EXCEPT ![v] = "cancelled"]
    /\ UNCHANGED <<redis, docVars, clientVars, away, bus, updateVars, timers, stops,
                   note>>

(* With Redis a stop command reaches the save's process later.             *)
StopSave(v) ==
    /\ v \in stops
    /\ stops' = stops \ {v}
    /\ save' = [save EXCEPT ![v] = IF @ = "pending" THEN "cancelled" ELSE @]
    /\ UNCHANGED <<redis, docVars, clientVars, away, bus, updateVars, timers, note>>

StoreUpdate(u) ==
    /\ upc[u] = "stopping"
    /\ Store(u, author[u], withData[u])
    /\ UNCHANGED <<redis, connected, users, room, clientVars, away, author, withData,
                   stops, note>>

EmitUpdate(u) ==
    /\ upc[u] = "stored"
    /\ upc' = [upc EXCEPT ![u] = "emitted"]
    /\ UNCHANGED <<redis, docVars, clientVars, away, author, withData, accepted, saveVars>>
    /\ Broadcast(u, author[u])

Deliver(x, u) ==
    /\ u \in bus[x]
    /\ bus' = [bus EXCEPT ![x] = @ \ {u}]
    /\ IF x \in connected /\ (redis => x \in room)
       THEN has' = [has EXCEPT ![x] = @ \cup {u}]
       ELSE UNCHANGED has
    /\ UNCHANGED <<redis, docVars, join, joins, served, away, updateVars, saveVars>>

(* faulty: no save while another one is pending *)
CreateIfNone(u) ==
    /\ upc[u] = "emitted"
    /\ ~redis => First(u, accepted, {v \in Update : upc[v] = "emitted"})
    /\ upc' = [upc EXCEPT ![u] = "done"]
    /\ StartSave(u, withData[u] /\ Pending = {})
    /\ UNCHANGED <<redis, docVars, clientVars, away, bus, author, withData, accepted,
                   stops, note>>

(* In one process the emits that suspend end in the order they began in.   *)
CreateSave(u) ==
    /\ upc[u] = "emitted"
    /\ ~redis => First(u, accepted, {v \in Update : upc[v] = "emitted"})
    /\ upc' = [upc EXCEPT ![u] = "done"]
    /\ StartSave(u, withData[u])
    /\ UNCHANGED <<redis, docVars, clientVars, away, bus, author, withData, accepted,
                   stops, note>>

(* After its 0.5 s the save looks its author up in SESSION_POOL; for one   *)
(* that is gone document_save_handler fails.  In one process the timers    *)
(* end in the order in which they were set.                                *)
Save(u) ==
    /\ save[u] = "pending"
    /\ ~redis => First(u, timers, Pending)
    /\ IF author[u] \in connected
       THEN note' = u /\ save' = [save EXCEPT ![u] = "saved"]
       ELSE save' = [save EXCEPT ![u] = "failed"] /\ UNCHANGED note
    /\ UNCHANGED <<redis, docVars, clientVars, away, bus, updateVars, timers, stops>>

-----------------------------------------------------------------------------
JoinStep(x) == JoinAdd(x) \/ JoinEnter(x) \/ JoinRead(x)

AwayStep(x) ==
    \/ LeaveCheck(x)
    \/ LeaveRoom(x)
    \/ DisconnectRemove(x)
    \/ \E kind \in Kinds : CountUsers(x, kind) \/ ClearUpdates(x, kind) \/ ClearUsers(x, kind)

UpdateStep(u) ==
    \/ StopSave(u)
    \/ StoreUpdate(u)
    \/ EmitUpdate(u)
    \/ CreateSave(u)
    \/ Save(u)

Next ==
    \/ \E x \in Session :
           \/ JoinAtOnce(x) \/ JoinAsk(x) \/ JoinStep(x) \/ RequestState(x)
           \/ LeaveAtOnce(x) \/ LeaveRemove(x)
           \/ DisconnectAtOnce(x) \/ DisconnectList(x)
           \/ AwayStep(x)
    \/ \E u \in Update, x \in Session, data \in Carries : Receive(u, x, data)
    \/ \E u, v \in Update : CancelSave(u, v)
    \/ \E u \in Update : UpdateStep(u)
    \/ \E x \in Session, u \in Update : Deliver(x, u)

Spec == Init /\ [][Next]_vars

(* A handler that has started goes on: the event loop runs what is ready.  *)
Fairness ==
    \A u \in Update : WF_vars(StoreUpdate(u)) /\ WF_vars(CreateSave(u)) /\ WF_vars(Save(u))

FairSpec == Spec /\ Fairness

-----------------------------------------------------------------------------
(***************************************************************************)
(* Properties                                                              *)
(***************************************************************************)

Document ==
    INSTANCE SharedDocument WITH
        single  <- ~redis,
        members <- users,
        log     <- updates

(* Without Redis no update is forgotten while a session is in the document,*)
(* however joins, leaves, disconnects and late updates interleave.         *)
Implements == Document!Spec

(* No update is missed: a session that got the state has, or will be sent, *)
(* every update of the others that the document holds, though entering the *)
(* room, reading, storing and emitting are steps of their own.             *)
Synced ==
    \A x \in Session, u \in updates :
        x \in connected \cap room /\ served[x] =>
            \/ u \in has[x]
            \/ author[u] = x
            \/ upc[u] = "stored"
            \/ u \in bus[x]

(* The updates carry data and their authors are there when it is saved.    *)
Undisturbed ==
    \A u \in Update : upc[u] # "new" => withData[u] /\ author[u] \in connected

Latest == IF accepted = <<>> THEN NoUpdate ELSE accepted[Len(accepted)]

(* Nobody is alone in the room while an update is being sent there: one    *)
(* sent into an otherwise empty room does not wait for those before it.    *)
Accompanied ==
    \A u \in Update : upc[u] = "emitted" => \A x \in Session : room \ {x} # {}

(* In one process, unless an update overtakes others in that way, the      *)
(* debounced saves end with the data of the update that was stored last,   *)
(* whichever saves the handlers cancelled.                                 *)
LatestSaved ==
    [](~redis /\ Undisturbed /\ Accompanied) =>
        \A u \in Update : Latest = u ~> note = u \/ Latest # u

-----------------------------------------------------------------------------
(***************************************************************************)
(* What a message says and the code with Redis refutes.                    *)
(***************************************************************************)

(* "Cleaning up document {document_id} as no users are left"               *)
CleanedUpWhenUnused == [][updates # {} /\ updates' = {} => users = {}]_vars
=============================================================================
