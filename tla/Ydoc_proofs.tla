---------------------------- MODULE Ydoc_proofs ----------------------------
(***************************************************************************)
(* For any sessions and updates, with and without Redis: the types, what a *)
(* session in the document has been sent, and that one process keeps a     *)
(* document while a session is in it and saves the update stored last.     *)
(***************************************************************************)
EXTENDS Ydoc, SequenceTheorems, TLAPS

USE YdocAssumption DEF YdocAssumption, Kinds

(* The steps of Next, one by one, for the proofs below to go through.      *)
Step ==
    \/ \E x \in Session :
           \/ JoinAtOnce(x) \/ JoinAsk(x) \/ JoinAdd(x) \/ JoinEnter(x) \/ JoinRead(x)
           \/ RequestState(x)
           \/ LeaveAtOnce(x) \/ LeaveCheck(x) \/ LeaveRemove(x) \/ LeaveRoom(x)
           \/ DisconnectAtOnce(x) \/ DisconnectList(x) \/ DisconnectRemove(x)
    \/ \E x \in Session, kind \in Kinds :
           CountUsers(x, kind) \/ ClearUpdates(x, kind) \/ ClearUsers(x, kind)
    \/ \E u \in Update, x \in Session, data \in BOOLEAN : Receive(u, x, data)
    \/ \E u, v \in Update : CancelSave(u, v)
    \/ \E u \in Update :
           StopSave(u) \/ StoreUpdate(u) \/ EmitUpdate(u) \/ CreateSave(u) \/ Save(u)
    \/ \E x \in Session, u \in Update : Deliver(x, u)

LEMMA NextIsStep == Next => Step
BY DEF Next, Step, JoinStep, AwayStep, UpdateStep

USE DEF vars, docVars, clientVars, updateVars, saveVars

-----------------------------------------------------------------------------
(***************************************************************************)
(* Types                                                                   *)
(***************************************************************************)

LEMMA TypeOfStart ==
    ASSUME TypeOK, NEW u \in Update, NEW data \in BOOLEAN, StartSave(u, data)
    PROVE  /\ save' \in [Update -> {"none", "pending", "cancelled", "saved", "failed"}]
           /\ timers' \in Seq(Update)
<1>1. save \in [Update -> {"none", "pending", "cancelled", "saved", "failed"}]
      /\ timers \in Seq(Update)
  BY DEF TypeOK
<1>2. save' \in [Update -> {"none", "pending", "cancelled", "saved", "failed"}]
  BY <1>1 DEF StartSave
<1>3. timers' = timers \/ timers' = Append(timers, u)
  BY DEF StartSave
<1>. QED
  BY <1>1, <1>2, <1>3, AppendProperties

LEMMA TypeOfStore ==
    ASSUME TypeOK, NEW u \in Update, NEW x \in Session, NEW data \in BOOLEAN,
           Store(u, x, data)
    PROVE  /\ updates' \subseteq Update
           /\ accepted' \in Seq(Update)
           /\ bus' \in [Session -> SUBSET Update]
           /\ upc' \in [Update -> {"new", "stopping", "stored", "emitted", "done"}]
           /\ \A v \in Update \ {u} : upc'[v] = upc[v]
           /\ upc'[u] \in {"stored", "emitted", "done"}
           /\ save' \in [Update -> {"none", "pending", "cancelled", "saved", "failed"}]
           /\ timers' \in Seq(Update)
<1>1. updates' \subseteq Update /\ accepted' \in Seq(Update)
  BY DEF TypeOK, Store
<1>2. bus' \in [Session -> SUBSET Update]
  <2>1. bus \in [Session -> SUBSET Update]
    BY DEF TypeOK
  <2>2. CASE Broadcast(u, x)
    BY <2>1, <2>2 DEF Broadcast
  <2>. QED
    BY <2>1, <2>2 DEF Store
<1>3. /\ upc' \in [Update -> {"new", "stopping", "stored", "emitted", "done"}]
      /\ \A v \in Update \ {u} : upc'[v] = upc[v]
      /\ upc'[u] \in {"stored", "emitted", "done"}
  <2>1. upc \in [Update -> {"new", "stopping", "stored", "emitted", "done"}]
    BY DEF TypeOK
  <2>2. \/ upc' = [upc EXCEPT ![u] = "stored"]
        \/ upc' = [upc EXCEPT ![u] = "emitted"]
        \/ upc' = [upc EXCEPT ![u] = "done"]
    BY DEF Store
  <2>. QED
    BY <2>1, <2>2
<1>4. /\ save' \in [Update -> {"none", "pending", "cancelled", "saved", "failed"}]
      /\ timers' \in Seq(Update)
  <2>1. CASE UNCHANGED <<save, timers>>
    BY <2>1 DEF TypeOK
  <2>2. CASE StartSave(u, data)
    BY <2>2, TypeOfStart
  <2>. QED
    BY <2>1, <2>2 DEF Store
<1>. QED
  BY <1>1, <1>2, <1>3, <1>4

LEMMA TypeOfStep == TypeOK /\ [Next]_vars => TypeOK'
<1>. SUFFICES ASSUME TypeOK, Step \/ UNCHANGED vars PROVE TypeOK'
  BY NextIsStep
<1>. USE DEF TypeOK
<1>1. CASE UNCHANGED vars
  BY <1>1
<1>2. ASSUME NEW x \in Session, JoinAtOnce(x)
      PROVE  TypeOK'
  BY <1>2 DEF JoinAtOnce, MayJoin, EmitState
<1>3. ASSUME NEW x \in Session, JoinAdd(x)
      PROVE  TypeOK'
  <2>1. /\ join' \in [Session -> {"idle", "asked", "added", "entered"}]
        /\ users' \subseteq Session
    BY <1>3 DEF JoinAdd
  <2>. QED
    BY <1>3, <2>1 DEF JoinAdd
<1>25. ASSUME NEW x \in Session, JoinAsk(x)
      PROVE  TypeOK'
  <2>1. joins' \in [Session -> 0..MaxJoins]
    BY <1>25 DEF JoinAsk, MayJoin
  <2>2. /\ join' \in [Session -> {"idle", "asked", "added", "entered"}]
        /\ served' \in [Session -> BOOLEAN]
        /\ has' \in [Session -> SUBSET Update]
    BY <1>25 DEF JoinAsk
  <2>. QED
    BY <1>25, <2>1, <2>2 DEF JoinAsk
<1>4. ASSUME NEW x \in Session, JoinEnter(x)
      PROVE  TypeOK'
  <2>1. \/ join' = [join EXCEPT ![x] = "idle"] /\ room' = room
        \/ join' = [join EXCEPT ![x] = "entered"] /\ room' = room \cup {x}
    <3>. HIDE DEF TypeOK
    <3>. QED
      BY <1>4 DEF JoinEnter
  <2>2. /\ join' \in [Session -> {"idle", "asked", "added", "entered"}]
        /\ room' \subseteq Session
    BY <2>1
  <2>. QED
    BY <1>4, <2>2 DEF JoinEnter
<1>5. ASSUME NEW x \in Session, JoinRead(x)
      PROVE  TypeOK'
  BY <1>5 DEF JoinRead, EmitState
<1>6. ASSUME NEW x \in Session, RequestState(x)
      PROVE  TypeOK'
  BY <1>6 DEF RequestState, EmitState
<1>7. ASSUME NEW x \in Session, LeaveAtOnce(x)
      PROVE  TypeOK'
  BY <1>7 DEF LeaveAtOnce, MayLeave, ClearUnused
<1>8. ASSUME NEW x \in Session, LeaveCheck(x)
      PROVE  TypeOK'
  BY <1>8 DEF LeaveCheck, ClearUnused
<1>9. ASSUME NEW x \in Session, LeaveRemove(x)
      PROVE  TypeOK'
  BY <1>9 DEF LeaveRemove, MayLeave
<1>10. ASSUME NEW x \in Session, LeaveRoom(x)
      PROVE  TypeOK'
  BY <1>10 DEF LeaveRoom
<1>11. ASSUME NEW x \in Session, DisconnectAtOnce(x)
      PROVE  TypeOK'
  BY <1>11 DEF DisconnectAtOnce, Finish
<1>12. ASSUME NEW x \in Session, DisconnectList(x)
      PROVE  TypeOK'
  BY <1>12 DEF DisconnectList, Finish
<1>13. ASSUME NEW x \in Session, DisconnectRemove(x)
      PROVE  TypeOK'
  BY <1>13 DEF DisconnectRemove
<1>14. ASSUME NEW x \in Session, NEW kind \in Kinds, CountUsers(x, kind)
      PROVE  TypeOK'
  <2>1. CASE /\ away' = [away EXCEPT ![<<x, kind>>] = "clear"]
             /\ UNCHANGED room
    BY <1>14, <2>1 DEF CountUsers
  <2>2. CASE Finish(x, kind)
    BY <1>14, <2>2 DEF CountUsers, Finish
  <2>. QED
    BY <1>14, <2>1, <2>2 DEF CountUsers
<1>15. ASSUME NEW x \in Session, NEW kind \in Kinds, ClearUpdates(x, kind)
      PROVE  TypeOK'
  BY <1>15 DEF ClearUpdates
<1>16. ASSUME NEW x \in Session, NEW kind \in Kinds, ClearUsers(x, kind)
      PROVE  TypeOK'
  BY <1>16 DEF ClearUsers, Finish
<1>17. ASSUME NEW u \in Update, NEW x \in Session, NEW data \in BOOLEAN, Receive(u, x, data)
      PROVE  TypeOK'
  <2>1. /\ author' \in [Update -> Session \cup {NoOne}]
        /\ author'[u] # NoOne
        /\ \A v \in Update \ {u} : author'[v] = author[v]
        /\ withData' \in [Update -> BOOLEAN]
        /\ has' \in [Session -> SUBSET Update]
        /\ stops' \subseteq Update
    BY <1>17 DEF Receive, Pending
  <2>2. /\ updates' \subseteq Update
        /\ accepted' \in Seq(Update)
        /\ bus' \in [Session -> SUBSET Update]
        /\ upc' \in [Update -> {"new", "stopping", "stored", "emitted", "done"}]
        /\ \A v \in Update \ {u} : upc'[v] = upc[v]
        /\ save' \in [Update -> {"none", "pending", "cancelled", "saved", "failed"}]
        /\ timers' \in Seq(Update)
    <3>1. CASE Store(u, x, data)
      BY <3>1, TypeOfStore
    <3>2. CASE /\ upc' = [upc EXCEPT ![u] = "stopping"]
               /\ UNCHANGED <<updates, accepted, bus, save, timers>>
      BY <3>2
    <3>. QED
      BY <1>17, <3>1, <3>2 DEF Receive
  <2>. QED
    BY <1>17, <2>1, <2>2 DEF Receive
<1>18. ASSUME NEW u \in Update, NEW v \in Update, CancelSave(u, v)
      PROVE  TypeOK'
  BY <1>18 DEF CancelSave
<1>19. ASSUME NEW u \in Update, StopSave(u)
      PROVE  TypeOK'
  BY <1>19 DEF StopSave
<1>20. ASSUME NEW u \in Update, StoreUpdate(u)
      PROVE  TypeOK'
  <2>1. Store(u, author[u], withData[u])
    BY <1>20 DEF StoreUpdate
  <2>2. author[u] \in Session /\ withData[u] \in BOOLEAN
    BY <1>20 DEF StoreUpdate
  <2>. QED
    BY <1>20, <2>1, <2>2, TypeOfStore DEF StoreUpdate
<1>21. ASSUME NEW u \in Update, EmitUpdate(u)
      PROVE  TypeOK'
  BY <1>21 DEF EmitUpdate, Broadcast
<1>22. ASSUME NEW u \in Update, CreateSave(u)
      PROVE  TypeOK'
  BY <1>22, TypeOfStart DEF CreateSave
<1>23. ASSUME NEW u \in Update, Save(u)
      PROVE  TypeOK'
  BY <1>23 DEF Save
<1>24. ASSUME NEW x \in Session, NEW u \in Update, Deliver(x, u)
      PROVE  TypeOK'
  <2>1. bus' \in [Session -> SUBSET Update]
    BY <1>24 DEF Deliver
  <2>2. has' \in [Session -> SUBSET Update]
    BY <1>24 DEF Deliver
  <2>. QED
    BY <1>24, <2>1, <2>2 DEF Deliver
<1>. HIDE DEF TypeOK
<1>. QED
  BY <1>1, <1>2, <1>3, <1>4, <1>5, <1>6, <1>7, <1>8, <1>9, <1>10, <1>11, <1>12, <1>13, <1>14, <1>15, <1>16, <1>17, <1>18, <1>19, <1>20, <1>21, <1>22, <1>23, <1>24, <1>25 DEF Step

(* TypeOK: the variables of the model keep their types, and the author of  *)
(* an update that a handler works on is known.                             *)
THEOREM TypeCorrect == Spec => []TypeOK
<1>1. Init => TypeOK
  BY DEF Init, TypeOK
<1>. QED
  BY <1>1, TypeOfStep, PTL DEF Spec

-----------------------------------------------------------------------------
(***************************************************************************)
(* Nothing is missed                                                       *)
(***************************************************************************)

(* Synced needs to know that whoever is to enter the room has not been     *)
(* sent the state yet, and that an update in the document has an author    *)
(* who will not change.                                                    *)
SyncInv ==
    /\ \A x \in Session : join[x] # "idle" => ~served[x]
    /\ \A u \in updates : upc[u] # "new"
    /\ Synced

LEMMA SyncOfStep == TypeOK /\ SyncInv /\ [Next]_vars => SyncInv'
<1>. SUFFICES ASSUME TypeOK, SyncInv, [Next]_vars PROVE SyncInv'
  OBVIOUS
<1>1. Step \/ UNCHANGED vars
  BY NextIsStep
<1>2. /\ updates \subseteq Update
      /\ join \in [Session -> {"idle", "asked", "added", "entered"}]
      /\ served \in [Session -> BOOLEAN]
      /\ has \in [Session -> SUBSET Update]
      /\ bus \in [Session -> SUBSET Update]
      /\ upc \in [Update -> {"new", "stopping", "stored", "emitted", "done"}]
      /\ author \in [Update -> Session \cup {NoOne}]
  BY DEF TypeOK
<1>. USE <1>2 DEF SyncInv, Synced
<1>3. ASSUME NEW x \in Session,
             JoinAtOnce(x) \/ JoinAsk(x) \/ JoinAdd(x) \/ JoinEnter(x) \/ JoinRead(x) \/ RequestState(x)
      PROVE  SyncInv'
  <2>1. CASE JoinAtOnce(x)
    BY <2>1 DEF JoinAtOnce, MayJoin, EmitState
  <2>2. CASE JoinAdd(x)
    BY <2>2 DEF JoinAdd
  <2>6. CASE JoinAsk(x)
    <3>1. /\ join' = [join EXCEPT ![x] = "asked"]
          /\ served' = [served EXCEPT ![x] = FALSE]
          /\ has' = [has EXCEPT ![x] = {}]
          /\ UNCHANGED <<connected, room, updates, bus, upc, author>>
      BY <2>6 DEF JoinAsk
    <3>. QED
      BY <3>1
  <2>3. CASE JoinEnter(x)
    BY <2>3 DEF JoinEnter
  <2>4. CASE JoinRead(x)
    BY <2>4 DEF JoinRead, EmitState
  <2>5. CASE RequestState(x)
    BY <2>5 DEF RequestState, EmitState
  <2>. QED
    BY <1>3, <2>1, <2>2, <2>3, <2>4, <2>5, <2>6
<1>4. ASSUME NEW x \in Session,
             LeaveAtOnce(x) \/ LeaveCheck(x) \/ LeaveRemove(x) \/ LeaveRoom(x)
      PROVE  SyncInv'
  BY <1>4 DEF LeaveAtOnce, LeaveCheck, LeaveRemove, LeaveRoom, ClearUnused
<1>5. ASSUME NEW x \in Session,
             DisconnectAtOnce(x) \/ DisconnectList(x) \/ DisconnectRemove(x)
      PROVE  SyncInv'
  BY <1>5 DEF DisconnectAtOnce, DisconnectList, DisconnectRemove, Finish
<1>6. ASSUME NEW x \in Session, NEW kind \in Kinds,
             CountUsers(x, kind) \/ ClearUpdates(x, kind) \/ ClearUsers(x, kind)
      PROVE  SyncInv'
  BY <1>6 DEF CountUsers, ClearUpdates, ClearUsers, Finish
<1>7. ASSUME NEW u \in Update, NEW x \in Session, NEW data \in BOOLEAN,
             Receive(u, x, data)
      PROVE  SyncInv'
  <2>1. /\ upc[u] = "new"
        /\ author' = [author EXCEPT ![u] = x]
        /\ has' = [has EXCEPT ![x] = @ \cup {u}]
        /\ UNCHANGED <<connected, room, join, served>>
    BY <1>7 DEF Receive
  <2>2. CASE Store(u, x, data)
    <3>1. updates' = updates \cup {u} /\ upc'[u] # "new"
      BY <2>2, TypeOfStore DEF Store
    <3>2. \A v \in Update \ {u} : upc'[v] = upc[v]
      BY <2>2, TypeOfStore
    <3>3. \A y \in Session : bus[y] \subseteq bus'[y]
      BY <2>2 DEF Store, Broadcast
    <3>4. upc'[u] = "stored" \/ \A y \in room \ {x} : y \in Session => u \in bus'[y]
      BY <2>2 DEF Store, Broadcast
    <3>. QED
      BY <2>1, <3>1, <3>2, <3>3, <3>4
  <2>3. CASE upc' = [upc EXCEPT ![u] = "stopping"] /\ UNCHANGED <<updates, bus>>
    BY <2>1, <2>3
  <2>. QED
    BY <1>7, <2>2, <2>3 DEF Receive
<1>8. ASSUME NEW u \in Update, StoreUpdate(u) PROVE SyncInv'
  <2>1. /\ Store(u, author[u], withData[u])
        /\ UNCHANGED <<connected, room, join, served, has, author>>
    BY <1>8 DEF StoreUpdate
  <2>2. updates' = updates \cup {u} /\ upc'[u] \in {"stored", "emitted", "done"}
    BY <2>1 DEF Store
  <2>3. \A v \in Update \ {u} : upc'[v] = upc[v]
    BY <2>1 DEF Store
  <2>4. \A y \in Session : bus[y] \subseteq bus'[y]
    BY <2>1 DEF Store, Broadcast
  <2>5. upc'[u] = "stored" \/ \A y \in Session : y \in room /\ y # author[u] => u \in bus'[y]
    BY <2>1 DEF Store, Broadcast
  <2>. QED
    BY <2>1, <2>2, <2>3, <2>4, <2>5
<1>9. ASSUME NEW u \in Update, EmitUpdate(u) PROVE SyncInv'
  BY <1>9 DEF EmitUpdate, Broadcast
<1>10. ASSUME NEW u \in Update, NEW v \in Update, CancelSave(u, v) PROVE SyncInv'
  BY <1>10 DEF CancelSave
<1>11. ASSUME NEW u \in Update, StopSave(u) \/ CreateSave(u) \/ Save(u) PROVE SyncInv'
  BY <1>11 DEF StopSave, CreateSave, Save
<1>12. ASSUME NEW x \in Session, NEW u \in Update, Deliver(x, u) PROVE SyncInv'
  BY <1>12 DEF Deliver
<1>13. CASE UNCHANGED vars
  BY <1>13
<1>. HIDE DEF SyncInv
<1>. QED
  BY <1>1, <1>3, <1>4, <1>5, <1>6, <1>7, <1>8, <1>9, <1>10, <1>11, <1>12, <1>13 DEF Step

(* Synced: a session that got the state has or will be sent every update   *)
(* of the others that the document holds, with and without Redis.          *)
THEOREM NothingIsMissed == Spec => []Synced
<1>1. Init => SyncInv
  BY DEF Init, SyncInv, Synced
<1>2. SyncInv => Synced
  BY DEF SyncInv
<1>. QED
  BY <1>1, <1>2, TypeCorrect, SyncOfStep, PTL DEF Spec

-----------------------------------------------------------------------------
(***************************************************************************)
(* One process keeps the document                                          *)
(***************************************************************************)

(* The steps of Redis never run without it: the handlers that they belong  *)
(* to are not started.                                                     *)
AloneInv ==
    \A x \in Session, kind \in Kinds :
        IF redis THEN away[<<x, kind>>] # "check"
        ELSE away[<<x, kind>>] \in {"idle", "check", "done"}

LEMMA AloneOfStep == TypeOK /\ AloneInv /\ [Next]_vars => AloneInv'
<1>. SUFFICES ASSUME TypeOK, AloneInv, [Next]_vars PROVE AloneInv'
  OBVIOUS
<1>1. Step \/ UNCHANGED vars
  BY NextIsStep
<1>2. DOMAIN away = Session \X Kinds
  BY DEF TypeOK
(* A step changes one handler's place, to one that its deployment knows.   *)
<1>3. ASSUME NEW x \in Session, NEW kind \in Kinds, NEW place,
             away' = [away EXCEPT ![<<x, kind>>] = place],
             redis' = redis,
             IF redis THEN place # "check" ELSE place \in {"idle", "check", "done"}
      PROVE  AloneInv'
  <2>. SUFFICES ASSUME NEW y \in Session, NEW other \in Kinds
                PROVE  IF redis THEN away'[<<y, other>>] # "check"
                       ELSE away'[<<y, other>>] \in {"idle", "check", "done"}
    BY <1>3 DEF AloneInv
  <2>1. <<y, other>> \in DOMAIN away
    BY <1>2
  <2>2. away'[<<y, other>>] = IF <<x, kind>> = <<y, other>> THEN place ELSE away[<<y, other>>]
    BY <1>3, <2>1
  <2>. QED
    BY <1>3, <2>2 DEF AloneInv
<1>4. ASSUME UNCHANGED <<redis, away>> PROVE AloneInv'
  BY <1>4 DEF AloneInv
<1>5. ASSUME NEW x \in Session,
             LeaveAtOnce(x) \/ LeaveCheck(x) \/ LeaveRemove(x) \/ LeaveRoom(x)
      PROVE  AloneInv'
  <2>1. CASE LeaveAtOnce(x)
    BY <2>1, <1>3, <1>4 DEF LeaveAtOnce
  <2>2. CASE LeaveCheck(x)
    BY <2>2, <1>3 DEF LeaveCheck
  <2>3. CASE LeaveRemove(x)
    BY <2>3, <1>3 DEF LeaveRemove
  <2>4. CASE LeaveRoom(x)
    <3>1. redis
      BY <2>4 DEF LeaveRoom, AloneInv
    <3>2. CASE updates = {}
      BY <2>4, <3>1, <3>2, <1>3 DEF LeaveRoom
    <3>3. CASE updates # {}
      BY <2>4, <3>1, <3>3, <1>3 DEF LeaveRoom
    <3>. QED
      BY <3>2, <3>3
  <2>. QED
    BY <1>5, <2>1, <2>2, <2>3, <2>4
<1>6. ASSUME NEW x \in Session, NEW kind \in Kinds, Finish(x, kind), redis' = redis
      PROVE  AloneInv'
  <2>1. CASE kind = "leave"
    BY <1>6, <2>1, <1>3 DEF Finish
  <2>2. CASE kind = "disconnect"
    BY <1>6, <2>2, <1>3 DEF Finish
  <2>. QED
    BY <2>1, <2>2
<1>7. ASSUME NEW x \in Session,
             DisconnectAtOnce(x) \/ DisconnectList(x) \/ DisconnectRemove(x)
      PROVE  AloneInv'
  <2>1. CASE DisconnectAtOnce(x)
    BY <2>1, <1>6 DEF DisconnectAtOnce
  <2>2. CASE DisconnectList(x)
    BY <2>2, <1>3, <1>6 DEF DisconnectList
  <2>3. CASE DisconnectRemove(x)
    <3>1. redis
      BY <2>3 DEF DisconnectRemove, AloneInv
    <3>. QED
      BY <2>3, <3>1, <1>3 DEF DisconnectRemove
  <2>. QED
    BY <1>7, <2>1, <2>2, <2>3
<1>8. ASSUME NEW x \in Session, NEW kind \in Kinds,
             CountUsers(x, kind) \/ ClearUpdates(x, kind) \/ ClearUsers(x, kind)
      PROVE  AloneInv'
  <2>1. redis
    BY <1>8 DEF CountUsers, ClearUpdates, ClearUsers, AloneInv
  <2>2. CASE CountUsers(x, kind)
    BY <2>1, <2>2, <1>3, <1>6 DEF CountUsers
  <2>3. CASE ClearUpdates(x, kind)
    BY <2>1, <2>3, <1>3 DEF ClearUpdates
  <2>4. CASE ClearUsers(x, kind)
    BY <2>4, <1>6 DEF ClearUsers
  <2>. QED
    BY <1>8, <2>2, <2>3, <2>4
<1>9. ASSUME NEW x \in Session,
             JoinAtOnce(x) \/ JoinAsk(x) \/ JoinAdd(x) \/ JoinEnter(x) \/ JoinRead(x) \/ RequestState(x)
      PROVE  AloneInv'
  BY <1>9, <1>4 DEF JoinAtOnce, JoinAsk, MayJoin, JoinAdd, JoinEnter, JoinRead, RequestState
<1>10. ASSUME NEW u \in Update,
              StopSave(u) \/ StoreUpdate(u) \/ EmitUpdate(u) \/ CreateSave(u) \/ Save(u)
       PROVE  AloneInv'
  BY <1>10, <1>4 DEF StopSave, StoreUpdate, EmitUpdate, CreateSave, Save
<1>11. ASSUME \/ \E u \in Update, x \in Session, data \in BOOLEAN : Receive(u, x, data)
              \/ \E u, v \in Update : CancelSave(u, v)
              \/ \E x \in Session, u \in Update : Deliver(x, u)
       PROVE  AloneInv'
  BY <1>11, <1>4 DEF Receive, CancelSave, Deliver
<1>12. CASE UNCHANGED vars
  BY <1>12, <1>4
<1>. QED
  BY <1>1, <1>5, <1>7, <1>8, <1>9, <1>10, <1>11, <1>12 DEF Step

LEMMA ImplementsStep == TypeOK /\ AloneInv /\ [Next]_vars => [Document!Next]_(Document!docVars)
<1>. SUFFICES ASSUME TypeOK, AloneInv, [Next]_vars, ~UNCHANGED <<redis, users, updates>>
              PROVE  Document!Next
  BY DEF Document!docVars
<1>1. Step
  BY NextIsStep
<1>. USE DEF AloneInv, Document!Next, Document!Enter, Document!Exit, Document!Accept,
             Document!Forget, Document!Expel
<1>2. ASSUME NEW x \in Session,
             JoinAtOnce(x) \/ JoinAsk(x) \/ JoinAdd(x) \/ JoinEnter(x) \/ JoinRead(x) \/ RequestState(x)
      PROVE  Document!Next
  BY <1>2 DEF JoinAtOnce, JoinAsk, MayJoin, JoinAdd, JoinEnter, JoinRead, RequestState
<1>3. ASSUME NEW x \in Session,
             LeaveAtOnce(x) \/ LeaveCheck(x) \/ LeaveRemove(x) \/ LeaveRoom(x)
      PROVE  Document!Next
  BY <1>3 DEF LeaveAtOnce, LeaveCheck, LeaveRemove, LeaveRoom, ClearUnused
<1>4. ASSUME NEW x \in Session,
             DisconnectAtOnce(x) \/ DisconnectList(x) \/ DisconnectRemove(x)
      PROVE  Document!Next
  BY <1>4 DEF DisconnectAtOnce, DisconnectList, DisconnectRemove
<1>5. ASSUME NEW x \in Session, NEW kind \in Kinds,
             CountUsers(x, kind) \/ ClearUpdates(x, kind) \/ ClearUsers(x, kind)
      PROVE  Document!Next
  <2>1. redis
    BY <1>5 DEF CountUsers, ClearUpdates, ClearUsers
  <2>2. CASE CountUsers(x, kind)
    BY <2>2 DEF CountUsers
  <2>3. CASE ClearUpdates(x, kind)
    BY <2>1, <2>3 DEF ClearUpdates
  <2>4. CASE ClearUsers(x, kind)
    BY <2>1, <2>4 DEF ClearUsers
  <2>. QED
    BY <1>5, <2>2, <2>3, <2>4
<1>6. ASSUME NEW u \in Update, NEW x \in Session, NEW data \in BOOLEAN,
             Receive(u, x, data)
      PROVE  Document!Next
  BY <1>6 DEF Receive, Store
<1>7. ASSUME NEW u \in Update,
             StopSave(u) \/ StoreUpdate(u) \/ EmitUpdate(u) \/ CreateSave(u) \/ Save(u)
      PROVE  Document!Next
  BY <1>7 DEF StopSave, StoreUpdate, EmitUpdate, CreateSave, Save, Store
<1>8. ASSUME \/ \E u, v \in Update : CancelSave(u, v)
             \/ \E x \in Session, u \in Update : Deliver(x, u)
      PROVE  Document!Next
  BY <1>8 DEF CancelSave, Deliver
<1>. HIDE DEF Document!Next
<1>. QED
  BY <1>1, <1>2, <1>3, <1>4, <1>5, <1>6, <1>7, <1>8 DEF Step

(* Implements: the handlers are a shared document; in one process it keeps *)
(* its updates while a session is in it.                                   *)
THEOREM DocumentIsKept == Spec => Implements
<1>1. Init => AloneInv
  BY DEF Init, AloneInv
<1>2. Init => Document!Init
  BY DEF Init, Document!Init
<1>. QED
  BY <1>1, <1>2, TypeCorrect, AloneOfStep, ImplementsStep, PTL DEF Spec, Implements, Document!Spec

-----------------------------------------------------------------------------
(***************************************************************************)
(* The debounce of one process does not drop the last update               *)
(***************************************************************************)

(* As long as the data of the update that was stored last is not saved,    *)
(* its handler is yet to create the save, or the save waits, or another    *)
(* update is about to be stored, whose handler may have cancelled it; else *)
(* there is nothing to save, or its author has left (ydoc_document_update, *)
(* debounced_save and stop_item_tasks together, in one process).           *)
LatestInHand ==
    ~redis /\ accepted # <<>> =>
        \/ note = Latest
        \/ upc[Latest] = "emitted"
        \/ save[Latest] = "pending"
        \/ \E u \in Update : upc[u] = "stopping"
        \/ ~withData[Latest]
        \/ author[Latest] \notin connected

(* Unless one overtakes, the handlers of one process keep the order in     *)
(* which the updates were stored, and so do the timers of their saves,     *)
(* which go off one after the other; and a save is cancelled only by a     *)
(* handler that is yet to store its update.                                *)
InOrder ==
    /\ \A u \in Update :
           upc[u] \in {"emitted", "done"} <=> \E n \in DOMAIN accepted : accepted[n] = u
    /\ \A m, n \in DOMAIN accepted : accepted[m] = accepted[n] => m = n
    /\ \A m, n \in DOMAIN accepted :
           m < n /\ upc[accepted[n]] = "done" => upc[accepted[m]] = "done"

TimersInOrder ==
    /\ \A u \in Update : save[u] # "none" <=> \E p \in DOMAIN timers : timers[p] = u
    /\ \A p, q \in DOMAIN timers : timers[p] = timers[q] => p = q
    /\ \A p, q \in DOMAIN timers : p < q =>
           /\ save[timers[q]] \in {"saved", "failed"} => save[timers[p]] # "pending"
           /\ \A m, n \in DOMAIN accepted :
                  accepted[m] = timers[p] /\ accepted[n] = timers[q] => m < n

SavesFollow ==
    /\ stops = {}
    /\ \A u \in Update :
           /\ upc[u] # "stored"
           /\ upc[u] # "done" => save[u] = "none"
           /\ upc[u] = "done" /\ withData[u] => save[u] # "none"
           /\ save[u] = "failed" => author[u] \notin connected

LastSave ==
    accepted # <<>> =>
        /\ save[Latest] = "cancelled" => \E u \in Update : upc[u] = "stopping"
        /\ save[Latest] = "saved" => note = Latest

SaveInv == ~redis => InOrder /\ TimersInOrder /\ SavesFollow /\ LastSave

LEMMA LatestOf ==
    ASSUME accepted \in Seq(Update), accepted # <<>>
    PROVE  /\ Len(accepted) \in DOMAIN accepted
           /\ Latest = accepted[Len(accepted)] /\ Latest \in Update
           /\ \A n \in DOMAIN accepted : n # Len(accepted) => n < Len(accepted)
<1>1. Len(accepted) \in Nat /\ DOMAIN accepted = 1..Len(accepted) /\ Len(accepted) # 0
  BY LenProperties, EmptySeq
<1>2. Len(accepted) \in DOMAIN accepted
  BY <1>1
<1>3. accepted[Len(accepted)] \in Update
  BY <1>1, ElementOfSeq
<1>. QED
  BY <1>1, <1>2, <1>3 DEF Latest

(* The save of the update that is in turn is created after all others.     *)
LEMMA TimersOfStart ==
    ASSUME TypeOK, InOrder, InOrder', TimersInOrder, SavesFollow, ~redis,
           NEW u \in Update, NEW data \in BOOLEAN, StartSave(u, data), save[u] = "none",
           accepted' \in Seq(Update),
           \A n \in DOMAIN accepted : n \in DOMAIN accepted' /\ accepted'[n] = accepted[n],
           NEW k \in DOMAIN accepted', accepted'[k] = u,
           \A n \in DOMAIN accepted' : save[accepted'[n]] # "none" => n < k
    PROVE  TimersInOrder'
<1>1. /\ save \in [Update -> {"none", "pending", "cancelled", "saved", "failed"}]
      /\ timers \in Seq(Update) /\ accepted \in Seq(Update)
  BY DEF TypeOK
<1>2. \A p \in DOMAIN timers : timers[p] \in Update /\ save[timers[p]] # "none"
  BY <1>1, ElementOfSeq, LenProperties DEF TimersInOrder
(* Where an update that has a save is stored does not change.              *)
<1>3. \A v \in Update, n \in DOMAIN accepted' :
          accepted'[n] = v /\ save[v] # "none" => n \in DOMAIN accepted /\ accepted[n] = v
  <2>. SUFFICES ASSUME NEW v \in Update, NEW n \in DOMAIN accepted',
                       accepted'[n] = v, save[v] # "none"
                PROVE  n \in DOMAIN accepted /\ accepted[n] = v
    OBVIOUS
  <2>1. upc[v] = "done"
    BY DEF SavesFollow
  <2>2. PICK m \in DOMAIN accepted : accepted[m] = v
    BY <2>1 DEF InOrder
  <2>3. m \in DOMAIN accepted' /\ accepted'[m] = accepted'[n]
    BY <2>2
  <2>4. m = n
    BY <2>3 DEF InOrder
  <2>. QED
    BY <2>2, <2>4
<1>4. \A p, q \in DOMAIN timers, m, n \in DOMAIN accepted' :
          p < q /\ accepted'[m] = timers[p] /\ accepted'[n] = timers[q] => m < n
  BY <1>2, <1>3 DEF TimersInOrder
<1>5. CASE ~data
  <2>1. save' = save /\ timers' = timers
    BY <1>1, <1>5 DEF StartSave
  <2>. QED
    BY <1>4, <2>1 DEF TimersInOrder
<1>6. CASE data
  <2>. DEFINE len == Len(timers)
  <2>1. timers' = Append(timers, u) /\ save' = [save EXCEPT ![u] = "pending"]
    BY <1>6 DEF StartSave
  <2>2. /\ len \in Nat /\ DOMAIN timers = 1..len /\ DOMAIN timers' = 1..(len + 1)
        /\ timers'[len + 1] = u
        /\ \A p \in DOMAIN timers : timers'[p] = timers[p]
    BY <1>1, <2>1, AppendProperties, LenProperties
  <2>. HIDE DEF len
  <2>3. save'[u] = "pending" /\ \A v \in Update : v # u => save'[v] = save[v]
    BY <1>1, <2>1
  <2>4. \A p \in DOMAIN timers : timers[p] # u /\ save'[timers[p]] = save[timers[p]]
    BY <1>2, <2>3
  <2>5. \A p \in DOMAIN timers' :
            \/ p \in DOMAIN timers /\ p < len + 1 /\ timers'[p] = timers[p]
            \/ p = len + 1 /\ timers'[p] = u
    <3>1. \A a \in Nat : \A n \in 1..(a + 1) : (n \in 1..a /\ n < a + 1) \/ n = a + 1
      OBVIOUS
    <3>2. \A p \in DOMAIN timers' : (p \in DOMAIN timers /\ p < len + 1) \/ p = len + 1
      BY <2>2, <3>1
    <3>. QED
      BY <2>2, <3>2
  <2>6. len + 1 \in DOMAIN timers' /\ \A p \in DOMAIN timers : p \in DOMAIN timers'
    <3>1. \A a \in Nat : a + 1 \in 1..(a + 1) /\ \A n \in 1..a : n \in 1..(a + 1)
      OBVIOUS
    <3>. QED
      BY <2>2, <3>1
  <2>7. \A v \in Update : save'[v] # "none" <=> \E p \in DOMAIN timers' : timers'[p] = v
    <3>. SUFFICES ASSUME NEW v \in Update
                  PROVE  save'[v] # "none" <=> \E p \in DOMAIN timers' : timers'[p] = v
      OBVIOUS
    <3>1. CASE v = u
      BY <2>2, <2>3, <2>6, <3>1
    <3>2. CASE v # u
      <4>1. (\E p \in DOMAIN timers' : timers'[p] = v) <=> (\E p \in DOMAIN timers : timers[p] = v)
        BY <2>2, <2>5, <2>6, <3>2
      <4>. QED
        BY <2>3, <3>2, <4>1 DEF TimersInOrder
    <3>. QED
      BY <3>1, <3>2
  <2>8. \A p, q \in DOMAIN timers' : timers'[p] = timers'[q] => p = q
    BY <2>4, <2>5 DEF TimersInOrder
  <2>9. ASSUME NEW p \in DOMAIN timers', NEW q \in DOMAIN timers', p < q
        PROVE  /\ save'[timers'[q]] \in {"saved", "failed"} => save'[timers'[p]] # "pending"
               /\ \A m, n \in DOMAIN accepted' :
                      accepted'[m] = timers'[p] /\ accepted'[n] = timers'[q] => m < n
    <3>1. p \in DOMAIN timers /\ timers'[p] = timers[p]
      <4>1. p \in Nat /\ q \in Nat
        BY <2>2
      <4>. QED
        BY <2>2, <2>5, <2>9, <4>1
    <3>2. CASE q = len + 1
      <4>1. timers'[q] = u
        BY <2>2, <3>2
      <4>2. ASSUME NEW m \in DOMAIN accepted', NEW n \in DOMAIN accepted',
                   accepted'[m] = timers'[p], accepted'[n] = timers'[q]
            PROVE  m < n
        <5>1. n = k
          BY <4>1, <4>2 DEF InOrder
        <5>2. save[accepted'[m]] # "none"
          BY <1>2, <3>1, <4>2
        <5>. QED
          BY <5>1, <5>2
      <4>. QED
        BY <2>3, <4>1, <4>2
    <3>3. CASE q # len + 1
      <4>1. q \in DOMAIN timers /\ timers'[q] = timers[q]
        BY <2>5, <3>3
      <4>. QED
        BY <1>4, <2>4, <2>9, <3>1, <4>1 DEF TimersInOrder
    <3>. QED
      BY <3>2, <3>3
  <2>. QED
    BY <2>7, <2>8, <2>9 DEF TimersInOrder
<1>. QED
  BY <1>5, <1>6

(* The update that is stored becomes the latest.                           *)
LEMMA StoreSaves ==
    ASSUME TypeOK, SaveInv, Accompanied, ~redis, NEW u \in Update, NEW x \in Session,
           NEW data \in BOOLEAN, Store(u, x, data), upc[u] \in {"new", "stopping"},
           UNCHANGED <<redis, connected, stops, note>>, withData'[u] = data,
           \A v \in Update \ {u} : withData'[v] = withData[v] /\ author'[v] = author[v]
    PROVE  SaveInv'
<1>1. /\ accepted \in Seq(Update)
      /\ upc \in [Update -> {"new", "stopping", "stored", "emitted", "done"}]
      /\ save \in [Update -> {"none", "pending", "cancelled", "saved", "failed"}]
      /\ InOrder /\ TimersInOrder /\ SavesFollow /\ save[u] = "none"
  BY DEF TypeOK, SaveInv, SavesFollow
<1>2. /\ accepted' = Append(accepted, u)
      /\ \/ upc' = [upc EXCEPT ![u] = "emitted"] /\ UNCHANGED <<save, timers>>
         \/ upc' = [upc EXCEPT ![u] = "done"] /\ StartSave(u, data) /\ room \ {x} = {}
  BY DEF Store
<1>3. /\ upc'[u] \in {"emitted", "done"}
      /\ upc'[u] = "emitted" => UNCHANGED <<save, timers>>
      /\ upc'[u] = "done" => StartSave(u, data) /\ room \ {x} = {}
      /\ \A v \in Update : v # u => upc'[v] = upc[v]
  BY <1>1, <1>2
<1>4. /\ save'[u] = "none" \/ (upc'[u] = "done" /\ save'[u] = "pending")
      /\ upc'[u] = "done" /\ data => save'[u] # "none"
      /\ \A v \in Update : v # u => save'[v] = save[v]
  BY <1>1, <1>3 DEF StartSave
<1>. DEFINE len == Len(accepted)
<1>5. /\ len \in Nat /\ DOMAIN accepted = 1..len
      /\ DOMAIN accepted' = 1..(len + 1) /\ Len(accepted') = len + 1
      /\ accepted'[len + 1] = u /\ accepted' \in Seq(Update)
      /\ \A n \in DOMAIN accepted : accepted'[n] = accepted[n] /\ accepted[n] \in Update
      /\ accepted' # <<>>
  BY <1>1, <1>2, AppendProperties, LenProperties, ElementOfSeq
<1>. HIDE DEF len
<1>6. \A n \in DOMAIN accepted : accepted[n] # u
  BY <1>1 DEF InOrder
<1>7. /\ len + 1 \in DOMAIN accepted'
      /\ \A n \in DOMAIN accepted : n \in DOMAIN accepted'
      /\ \A n \in DOMAIN accepted' :
          \/ n \in DOMAIN accepted /\ n < len + 1 /\ accepted'[n] = accepted[n]
          \/ n = len + 1 /\ accepted'[n] = u
  <2>1. \A a \in Nat : /\ a + 1 \in 1..(a + 1)
                       /\ \A n \in 1..a : n \in 1..(a + 1)
                       /\ \A n \in 1..(a + 1) : (n \in 1..a /\ n < a + 1) \/ n = a + 1
    OBVIOUS
  <2>2. /\ len + 1 \in DOMAIN accepted'
        /\ \A n \in DOMAIN accepted : n \in DOMAIN accepted'
        /\ \A n \in DOMAIN accepted' : (n \in DOMAIN accepted /\ n < len + 1) \/ n = len + 1
    BY <1>5, <2>1
  <2>. QED
    BY <1>5, <2>2
(* Who is alone in the room finds no handler in its emit.                  *)
<1>8. upc'[u] = "done" => \A n \in DOMAIN accepted : upc[accepted[n]] = "done"
  <2>. SUFFICES ASSUME upc'[u] = "done", NEW n \in DOMAIN accepted
                PROVE  upc[accepted[n]] = "done"
    OBVIOUS
  <2>1. upc[accepted[n]] # "emitted"
    BY <1>3, <1>5 DEF Accompanied
  <2>. QED
    BY <1>1, <1>5, <2>1 DEF InOrder
<1>9. InOrder'
  <2>1. \A v \in Update :
            upc'[v] \in {"emitted", "done"} <=> \E n \in DOMAIN accepted' : accepted'[n] = v
    <3>. SUFFICES ASSUME NEW v \in Update
                  PROVE  upc'[v] \in {"emitted", "done"} <=> \E n \in DOMAIN accepted' : accepted'[n] = v
      OBVIOUS
    <3>1. CASE v = u
      BY <1>3, <1>5, <1>7, <3>1
    <3>2. CASE v # u
      <4>1. (\E n \in DOMAIN accepted' : accepted'[n] = v) <=> (\E n \in DOMAIN accepted : accepted[n] = v)
        BY <1>5, <1>7, <3>2
      <4>. QED
        BY <1>1, <1>3, <3>2, <4>1 DEF InOrder
    <3>. QED
      BY <3>1, <3>2
  <2>2. \A m, n \in DOMAIN accepted' : accepted'[m] = accepted'[n] => m = n
    BY <1>1, <1>6, <1>7 DEF InOrder
  <2>3. ASSUME NEW m \in DOMAIN accepted', NEW n \in DOMAIN accepted', m < n,
               upc'[accepted'[n]] = "done"
        PROVE  upc'[accepted'[m]] = "done"
    <3>1. m \in Nat /\ n \in Nat
      BY <1>5
    <3>2. m \in DOMAIN accepted /\ accepted'[m] = accepted[m]
      BY <1>5, <1>7, <2>3, <3>1
    <3>3. upc'[accepted[m]] = upc[accepted[m]]
      BY <1>3, <1>5, <1>6, <3>2
    <3>4. CASE n = len + 1
      BY <1>5, <1>8, <2>3, <3>2, <3>3, <3>4
    <3>5. CASE n # len + 1
      <4>1. n \in DOMAIN accepted /\ accepted'[n] = accepted[n]
        BY <1>7, <3>5
      <4>2. upc[accepted[n]] = "done"
        BY <1>3, <1>5, <1>6, <2>3, <4>1
      <4>. QED
        BY <1>1, <2>3, <3>2, <3>3, <4>1, <4>2 DEF InOrder
    <3>. QED
      BY <3>4, <3>5
  <2>. QED
    BY <2>1, <2>2, <2>3 DEF InOrder
<1>10. TimersInOrder'
  <2>1. CASE upc'[u] = "done"
    <3>1. \A n \in DOMAIN accepted' : save[accepted'[n]] # "none" => n < len + 1
      BY <1>1, <1>7
    <3>2. \A n \in DOMAIN accepted : n \in DOMAIN accepted' /\ accepted'[n] = accepted[n]
      BY <1>5, <1>7
    <3>. QED
      BY <1>1, <1>3, <1>5, <1>7, <1>9, <2>1, <3>1, <3>2, TimersOfStart
  <2>2. CASE upc'[u] = "emitted"
    <3>1. UNCHANGED <<save, timers>>
      BY <1>3, <2>2
    <3>2. \A p \in DOMAIN timers : timers[p] # u
      BY <1>1 DEF TimersInOrder
    <3>3. \A p, q \in DOMAIN timers : p < q =>
              \A m, n \in DOMAIN accepted' :
                  accepted'[m] = timers[p] /\ accepted'[n] = timers[q] => m < n
      BY <1>1, <1>7, <3>2 DEF TimersInOrder
    <3>. QED
      BY <1>1, <3>1, <3>3 DEF TimersInOrder
  <2>. QED
    BY <1>3, <2>1, <2>2
<1>11. SavesFollow'
  <2>1. stops' = {}
    BY <1>1 DEF SavesFollow
  <2>2. ASSUME NEW v \in Update
        PROVE  /\ upc'[v] # "stored"
               /\ upc'[v] # "done" => save'[v] = "none"
               /\ upc'[v] = "done" /\ withData'[v] => save'[v] # "none"
               /\ save'[v] = "failed" => author'[v] \notin connected'
    <3>1. CASE v = u
      BY <1>3, <1>4, <3>1
    <3>2. CASE v # u
      BY <1>1, <1>3, <1>4, <3>2 DEF SavesFollow
    <3>. QED
      BY <3>1, <3>2
  <2>. QED
    BY <2>1, <2>2 DEF SavesFollow
<1>12. LastSave'
  <2>1. Latest' = u
    BY <1>5 DEF Latest
  <2>. QED
    BY <1>4, <2>1 DEF LastSave
<1>. QED
  BY <1>9, <1>10, <1>11, <1>12 DEF SaveInv

(* Its handler goes on, in its turn, and creates the save.                 *)
LEMMA CreateSaves ==
    ASSUME TypeOK, SaveInv, ~redis, NEW u \in Update, CreateSave(u)
    PROVE  SaveInv'
<1>1. /\ accepted \in Seq(Update)
      /\ upc \in [Update -> {"new", "stopping", "stored", "emitted", "done"}]
      /\ save \in [Update -> {"none", "pending", "cancelled", "saved", "failed"}]
      /\ InOrder /\ TimersInOrder /\ SavesFollow /\ LastSave
      /\ withData[u] \in BOOLEAN
  BY DEF TypeOK, SaveInv
<1>2. /\ upc[u] = "emitted"
      /\ upc' = [upc EXCEPT ![u] = "done"]
      /\ StartSave(u, withData[u])
      /\ UNCHANGED <<redis, connected, author, withData, accepted, stops, note>>
  BY DEF CreateSave
<1>3. PICK k \in DOMAIN accepted :
          /\ accepted[k] = u
          /\ \A m \in 1..(k - 1) : accepted[m] \notin {v \in Update : upc[v] = "emitted"}
  BY DEF CreateSave, First
<1>4. /\ save[u] = "none"
      /\ upc'[u] = "done" /\ (save'[u] = "pending" \/ (~withData[u] /\ save'[u] = "none"))
      /\ \A v \in Update : v # u => upc'[v] = upc[v] /\ save'[v] = save[v]
  BY <1>1, <1>2 DEF SavesFollow, StartSave
<1>5. \A n \in DOMAIN accepted : n \in Nat /\ n # 0 /\ accepted[n] \in Update
  BY <1>1, ElementOfSeq, LenProperties
<1>6. \A n \in DOMAIN accepted : n < k => upc[accepted[n]] = "done"
  <2>. SUFFICES ASSUME NEW n \in DOMAIN accepted, n < k PROVE upc[accepted[n]] = "done"
    OBVIOUS
  <2>1. n \in 1..(k - 1)
    BY <1>5
  <2>2. upc[accepted[n]] \in {"emitted", "done"}
    BY <1>1, <1>5 DEF InOrder
  <2>. QED
    BY <1>3, <1>5, <2>1, <2>2
<1>7. \A n \in DOMAIN accepted : save[accepted[n]] # "none" => n < k
  <2>. SUFFICES ASSUME NEW n \in DOMAIN accepted, save[accepted[n]] # "none" PROVE n < k
    OBVIOUS
  <2>1. upc[accepted[n]] = "done"
    BY <1>1, <1>5 DEF SavesFollow
  <2>2. n # k /\ ~(k < n)
    BY <1>1, <1>2, <1>3, <2>1 DEF InOrder
  <2>. QED
    BY <1>5, <2>2
<1>8. InOrder'
  <2>1. \A v \in Update : upc'[v] \in {"emitted", "done"} <=> upc[v] \in {"emitted", "done"}
    BY <1>2, <1>4
  <2>2. ASSUME NEW m \in DOMAIN accepted, NEW n \in DOMAIN accepted, m < n,
               upc'[accepted[n]] = "done"
        PROVE  upc'[accepted[m]] = "done"
    <3>1. CASE n = k
      BY <1>3, <1>4, <1>5, <1>6, <2>2, <3>1
    <3>2. CASE n # k
      <4>1. upc[accepted[n]] = "done"
        BY <1>1, <1>3, <1>4, <1>5, <2>2, <3>2 DEF InOrder
      <4>. QED
        BY <1>1, <1>4, <1>5, <2>2, <4>1 DEF InOrder
    <3>. QED
      BY <3>1, <3>2
  <2>. QED
    BY <1>1, <1>2, <2>1, <2>2 DEF InOrder
<1>9. TimersInOrder'
  BY <1>1, <1>2, <1>3, <1>4, <1>7, <1>8, TimersOfStart
<1>10. SavesFollow'
  BY <1>1, <1>2, <1>4 DEF SavesFollow
<1>11. LastSave'
  <2>. SUFFICES ASSUME accepted # <<>>
                PROVE  /\ save'[Latest] = "cancelled" => \E v \in Update : upc'[v] = "stopping"
                       /\ save'[Latest] = "saved" => note = Latest
    BY <1>2 DEF LastSave, Latest
  <2>1. Latest \in Update
    BY <1>1, LatestOf
  <2>2. (\E v \in Update : upc[v] = "stopping") => \E v \in Update : upc'[v] = "stopping"
    BY <1>2, <1>4
  <2>3. save'[Latest] \in {"cancelled", "saved"} => save[Latest] = save'[Latest]
    BY <1>4, <2>1
  <2>. QED
    BY <1>1, <2>2, <2>3 DEF LastSave
<1>. QED
  BY <1>8, <1>9, <1>10, <1>11 DEF SaveInv

(* Its time comes, after those created before it have had theirs.          *)
LEMMA SaveSaves ==
    ASSUME TypeOK, SaveInv, ~redis, NEW u \in Update, Save(u)
    PROVE  SaveInv'
<1>1. /\ accepted \in Seq(Update) /\ timers \in Seq(Update)
      /\ save \in [Update -> {"none", "pending", "cancelled", "saved", "failed"}]
      /\ InOrder /\ TimersInOrder /\ SavesFollow /\ LastSave
  BY DEF TypeOK, SaveInv
<1>2. /\ save[u] = "pending"
      /\ \/ author[u] \in connected /\ note' = u /\ save' = [save EXCEPT ![u] = "saved"]
         \/ author[u] \notin connected /\ note' = note /\ save' = [save EXCEPT ![u] = "failed"]
      /\ UNCHANGED <<redis, connected, upc, author, withData, accepted, timers, stops>>
  BY DEF Save
<1>3. PICK k \in DOMAIN timers :
          timers[k] = u /\ \A p \in 1..(k - 1) : timers[p] \notin Pending
  BY DEF Save, First
<1>4. /\ save'[u] \in {"saved", "failed"}
      /\ save'[u] = "saved" => note' = u
      /\ save'[u] = "failed" => author[u] \notin connected
      /\ \A v \in Update : v # u => save'[v] = save[v]
  BY <1>1, <1>2
<1>5. \A p \in DOMAIN timers : p \in Nat /\ p # 0 /\ timers[p] \in Update
  BY <1>1, ElementOfSeq, LenProperties
<1>6. \A p \in DOMAIN timers : p < k => save[timers[p]] # "pending"
  <2>. SUFFICES ASSUME NEW p \in DOMAIN timers, p < k PROVE save[timers[p]] # "pending"
    OBVIOUS
  <2>1. p \in 1..(k - 1)
    BY <1>5
  <2>. QED
    BY <1>3, <1>5, <2>1 DEF Pending
<1>7. InOrder'
  BY <1>1, <1>2 DEF InOrder
<1>8. TimersInOrder'
  <2>1. \A v \in Update : save'[v] # "none" <=> save[v] # "none"
    BY <1>2, <1>4
  <2>2. ASSUME NEW p \in DOMAIN timers, NEW q \in DOMAIN timers, p < q,
               save'[timers[q]] \in {"saved", "failed"}
        PROVE  save'[timers[p]] # "pending"
    <3>1. CASE timers[q] = u
      <4>1. q = k
        BY <1>1, <1>3, <3>1 DEF TimersInOrder
      <4>. QED
        BY <1>4, <1>5, <1>6, <2>2, <4>1
    <3>2. CASE timers[q] # u
      BY <1>1, <1>4, <1>5, <2>2, <3>2 DEF TimersInOrder
    <3>. QED
      BY <3>1, <3>2
  <2>. QED
    BY <1>1, <1>2, <2>1, <2>2 DEF TimersInOrder
<1>9. SavesFollow'
  BY <1>1, <1>2, <1>4 DEF SavesFollow
<1>10. LastSave'
  <2>. SUFFICES ASSUME accepted # <<>>
                PROVE  /\ save'[Latest] = "cancelled" => \E v \in Update : upc'[v] = "stopping"
                       /\ save'[Latest] = "saved" => note' = Latest
    BY <1>2 DEF LastSave, Latest
  <2>1. CASE Latest = u
    BY <1>4, <2>1
  <2>2. CASE Latest # u
    <3>1. /\ Latest \in Update /\ Latest = accepted[Len(accepted)]
          /\ Len(accepted) \in DOMAIN accepted /\ Len(accepted) \in Nat
          /\ \A n \in DOMAIN accepted : n # Len(accepted) => n < Len(accepted)
      BY <1>1, LatestOf, LenProperties
    <3>2. save[Latest] \notin {"saved", "failed"}
      <4>. SUFFICES ASSUME save[Latest] \in {"saved", "failed"} PROVE FALSE
        OBVIOUS
      <4>1. PICK q \in DOMAIN timers : timers[q] = Latest
        BY <1>1, <3>1 DEF TimersInOrder
      <4>2. PICK m \in DOMAIN accepted : accepted[m] = u
        BY <1>1, <1>2 DEF InOrder, SavesFollow
      <4>3. m < Len(accepted)
        BY <2>2, <3>1, <4>2
      <4>4. m \in Nat
        BY <1>1, <4>2, LenProperties
      <4>5. ~(q < k)
        <5>. SUFFICES ASSUME q < k PROVE FALSE
          OBVIOUS
        <5>1. Len(accepted) < m
          BY <1>1, <1>3, <3>1, <4>1, <4>2 DEF TimersInOrder
        <5>. QED
          BY <3>1, <4>3, <4>4, <5>1
      <4>6. q # k
        BY <1>3, <2>2, <4>1
      <4>7. k < q
        BY <1>5, <4>5, <4>6
      <4>. QED
        BY <1>1, <1>2, <1>3, <4>1, <4>7 DEF TimersInOrder
    <3>3. save'[Latest] = save[Latest]
      BY <1>4, <2>2, <3>1
    <3>. QED
      BY <1>1, <1>2, <3>2, <3>3 DEF LastSave
  <2>. QED
    BY <2>1, <2>2
<1>. QED
  BY <1>7, <1>8, <1>9, <1>10 DEF SaveInv

(* A handler that waits to store its update cancels a save.                *)
LEMMA CancelSaves ==
    ASSUME TypeOK, SaveInv, ~redis, NEW u \in Update, NEW v \in Update, CancelSave(u, v)
    PROVE  SaveInv'
<1>1. /\ accepted \in Seq(Update)
      /\ save \in [Update -> {"none", "pending", "cancelled", "saved", "failed"}]
      /\ timers \in Seq(Update)
      /\ InOrder /\ TimersInOrder /\ SavesFollow /\ LastSave
  BY DEF TypeOK, SaveInv
<1>2. /\ upc[u] = "stopping" /\ save[v] = "pending"
      /\ save' = [save EXCEPT ![v] = "cancelled"]
      /\ UNCHANGED <<redis, connected, upc, author, withData, accepted, timers, stops, note>>
  BY DEF CancelSave
<1>3. \A w \in Update : IF w = v THEN save'[w] = "cancelled" ELSE save'[w] = save[w]
  BY <1>1, <1>2
<1>4. \A p \in DOMAIN timers : timers[p] \in Update
  BY <1>1, ElementOfSeq, LenProperties
<1>5. InOrder' /\ TimersInOrder'
  <2>1. \A w \in Update : save'[w] # "none" <=> save[w] # "none"
    BY <1>2, <1>3
  <2>2. \A p, q \in DOMAIN timers :
            p < q /\ save'[timers[q]] \in {"saved", "failed"} => save'[timers[p]] # "pending"
    BY <1>1, <1>3, <1>4 DEF TimersInOrder
  <2>. QED
    BY <1>1, <1>2, <2>1, <2>2 DEF InOrder, TimersInOrder
<1>6. SavesFollow'
  BY <1>1, <1>2, <1>3 DEF SavesFollow
<1>7. LastSave'
  <2>. SUFFICES ASSUME accepted # <<>>, save'[Latest] = "saved" PROVE note = Latest
    BY <1>2 DEF LastSave, Latest
  <2>1. Latest \in Update
    BY <1>1, LatestOf
  <2>. QED
    BY <1>1, <1>3, <2>1 DEF LastSave
<1>. QED
  BY <1>5, <1>6, <1>7 DEF SaveInv

LEMMA DeploymentStays == [Next]_vars => redis' = redis
<1>1. ASSUME NEW x \in Session,
             \/ JoinAtOnce(x) \/ JoinAsk(x) \/ JoinAdd(x) \/ JoinEnter(x) \/ JoinRead(x) \/ RequestState(x)
             \/ LeaveAtOnce(x) \/ LeaveCheck(x) \/ LeaveRemove(x) \/ LeaveRoom(x)
             \/ DisconnectAtOnce(x) \/ DisconnectList(x) \/ DisconnectRemove(x)
      PROVE  redis' = redis
  BY <1>1 DEF JoinAtOnce, JoinAsk, MayJoin, JoinAdd, JoinEnter, JoinRead, RequestState, LeaveAtOnce, LeaveCheck,
              LeaveRemove, LeaveRoom, DisconnectAtOnce, DisconnectList, DisconnectRemove
<1>2. ASSUME NEW x \in Session, NEW kind \in Kinds,
             CountUsers(x, kind) \/ ClearUpdates(x, kind) \/ ClearUsers(x, kind)
      PROVE  redis' = redis
  BY <1>2 DEF CountUsers, ClearUpdates, ClearUsers
<1>3. ASSUME NEW u \in Update, NEW x \in Session, NEW data \in BOOLEAN,
             Receive(u, x, data) \/ Deliver(x, u)
      PROVE  redis' = redis
  BY <1>3 DEF Receive, Deliver
<1>4. ASSUME NEW u \in Update, NEW v \in Update,
             \/ CancelSave(u, v) \/ StopSave(u) \/ StoreUpdate(u) \/ EmitUpdate(u)
             \/ CreateSave(u) \/ Save(u)
      PROVE  redis' = redis
  BY <1>4 DEF CancelSave, StopSave, StoreUpdate, EmitUpdate, CreateSave, Save
<1>5. CASE UNCHANGED vars
  BY <1>5
<1>6. ASSUME NEW x \in Session, NEW u \in Update, Deliver(x, u) PROVE redis' = redis
  BY <1>6 DEF Deliver
<1>. QED
  BY <1>1, <1>2, <1>3, <1>4, <1>5, <1>6, NextIsStep DEF Step

LEMMA SavesOfStep == TypeOK /\ SaveInv /\ Accompanied /\ [Next]_vars => SaveInv'
<1>. SUFFICES ASSUME TypeOK, SaveInv, Accompanied, [Next]_vars, ~redis PROVE SaveInv'
  BY DeploymentStays DEF SaveInv
<1>1. Step \/ UNCHANGED vars
  BY NextIsStep
<1>2. SavesFollow /\ InOrder /\ TimersInOrder /\ LastSave
  BY DEF SaveInv
(* The handlers of joins, leaves and disconnects do not touch the saves.   *)
<1>3. ASSUME UNCHANGED <<redis, updateVars, saveVars>>, connected' \subseteq connected
      PROVE  SaveInv'
  <2>1. InOrder' /\ TimersInOrder' /\ LastSave'
    BY <1>2, <1>3 DEF InOrder, TimersInOrder, LastSave, Latest
  <2>2. SavesFollow'
    BY <1>2, <1>3 DEF SavesFollow
  <2>. QED
    BY <2>1, <2>2 DEF SaveInv
<1>4. ASSUME NEW x \in Session,
             \/ JoinAtOnce(x) \/ JoinAsk(x) \/ JoinAdd(x) \/ JoinEnter(x) \/ JoinRead(x) \/ RequestState(x)
             \/ LeaveAtOnce(x) \/ LeaveCheck(x) \/ LeaveRemove(x) \/ LeaveRoom(x)
      PROVE  SaveInv'
  <2>1. UNCHANGED <<redis, updateVars, saveVars, connected>>
    BY <1>4 DEF JoinAtOnce, JoinAsk, MayJoin, JoinAdd, JoinEnter, JoinRead, RequestState, LeaveAtOnce,
                LeaveCheck, LeaveRemove, LeaveRoom
  <2>. QED
    BY <1>3, <2>1
<1>5. ASSUME NEW x \in Session,
             DisconnectAtOnce(x) \/ DisconnectList(x) \/ DisconnectRemove(x)
      PROVE  SaveInv'
  <2>1. UNCHANGED <<redis, updateVars, saveVars>> /\ connected' \subseteq connected
    BY <1>5 DEF DisconnectAtOnce, DisconnectList, DisconnectRemove
  <2>. QED
    BY <1>3, <2>1
<1>6. ASSUME NEW x \in Session, NEW kind \in Kinds,
             CountUsers(x, kind) \/ ClearUpdates(x, kind) \/ ClearUsers(x, kind)
      PROVE  SaveInv'
  <2>1. UNCHANGED <<redis, updateVars, saveVars, connected>>
    BY <1>6 DEF CountUsers, ClearUpdates, ClearUsers
  <2>. QED
    BY <1>3, <2>1
<1>7. ASSUME NEW x \in Session, NEW u \in Update, Deliver(x, u) PROVE SaveInv'
  <2>1. UNCHANGED <<redis, updateVars, saveVars, connected>>
    BY <1>7 DEF Deliver
  <2>. QED
    BY <1>3, <2>1
<1>8. ASSUME NEW u \in Update, NEW x \in Session, NEW data \in BOOLEAN, Receive(u, x, data)
      PROVE  SaveInv'
  <2>1. /\ upc[u] = "new"
        /\ author' = [author EXCEPT ![u] = x]
        /\ withData' = [withData EXCEPT ![u] = data]
        /\ UNCHANGED <<redis, connected, stops, note>>
    BY <1>8 DEF Receive
  <2>2. /\ withData'[u] = data
        /\ \A v \in Update \ {u} : withData'[v] = withData[v] /\ author'[v] = author[v]
    BY <2>1 DEF TypeOK
  <2>3. CASE Store(u, x, data)
    BY <2>1, <2>2, <2>3, StoreSaves
  <2>4. CASE upc' = [upc EXCEPT ![u] = "stopping"] /\ UNCHANGED <<accepted, save, timers>>
    <3>1. /\ upc'[u] = "stopping"
          /\ \A v \in Update : v # u => upc'[v] = upc[v]
      BY <2>4 DEF TypeOK
    <3>2. accepted \in Seq(Update) /\ \A n \in DOMAIN accepted : accepted[n] \in Update /\ accepted[n] # u
      <4>1. accepted \in Seq(Update)
        BY DEF TypeOK
      <4>. QED
        BY <1>2, <2>1, <4>1, ElementOfSeq, LenProperties DEF InOrder
    <3>3. InOrder'
      BY <1>2, <2>1, <2>4, <3>1, <3>2 DEF InOrder
    <3>6. TimersInOrder'
      BY <1>2, <2>4 DEF TimersInOrder
    <3>4. SavesFollow'
      BY <1>2, <2>1, <2>2, <2>4, <3>1 DEF SavesFollow
    <3>5. LastSave'
      BY <1>2, <2>1, <2>4, <3>1 DEF LastSave, Latest
    <3>. QED
      BY <3>3, <3>4, <3>5, <3>6 DEF SaveInv
  <2>. QED
    BY <1>8, <2>3, <2>4 DEF Receive
<1>9. ASSUME NEW u \in Update, StoreUpdate(u) PROVE SaveInv'
  <2>1. /\ upc[u] = "stopping" /\ Store(u, author[u], withData[u])
        /\ UNCHANGED <<redis, connected, author, withData, stops, note>>
    BY <1>9 DEF StoreUpdate
  <2>2. author[u] \in Session /\ withData[u] \in BOOLEAN
    BY <2>1 DEF TypeOK
  <2>. QED
    BY <2>1, <2>2, StoreSaves
<1>10. ASSUME NEW u \in Update, StopSave(u) \/ EmitUpdate(u) PROVE FALSE
  BY <1>2, <1>10 DEF SavesFollow, StopSave, EmitUpdate
<1>11. CASE UNCHANGED vars
  BY <1>3, <1>11
<1>. QED
  BY <1>1, <1>4, <1>5, <1>6, <1>7, <1>8, <1>9, <1>10, <1>11, CreateSaves, SaveSaves, CancelSaves
  DEF Step

(* LatestInHand: what LatestSaved rests on, from the same premise: nobody  *)
(* is alone in the room while an update is being sent there.               *)
THEOREM LatestIsNotDropped == Spec /\ []Accompanied => []LatestInHand
<1>1. Init => SaveInv
  <2>. SUFFICES ASSUME Init PROVE InOrder /\ TimersInOrder /\ SavesFollow /\ LastSave
    BY DEF SaveInv
  <2>1. accepted = <<>> /\ DOMAIN accepted = {} /\ timers = <<>> /\ DOMAIN timers = {}
    BY EmptySeq DEF Init
  <2>. QED
    BY <2>1 DEF Init, InOrder, TimersInOrder, SavesFollow, LastSave
<1>2. TypeOK /\ SaveInv => LatestInHand
  <2>. SUFFICES ASSUME TypeOK, SaveInv, ~redis, accepted # <<>>,
                       withData[Latest], upc[Latest] # "emitted"
                PROVE  \/ note = Latest
                       \/ save[Latest] = "pending"
                       \/ \E u \in Update : upc[u] = "stopping"
                       \/ author[Latest] \notin connected
    BY DEF LatestInHand
  <2>1. /\ Len(accepted) \in DOMAIN accepted /\ Latest = accepted[Len(accepted)]
        /\ Latest \in Update
    BY LatestOf DEF TypeOK
  <2>2. upc[Latest] = "done"
    BY <2>1 DEF SaveInv, InOrder
  <2>3. save[Latest] \in {"pending", "cancelled", "saved", "failed"}
    BY <2>1, <2>2 DEF TypeOK, SaveInv, SavesFollow
  <2>. QED
    BY <2>1, <2>3 DEF SaveInv, SavesFollow, LastSave
<1>. QED
  BY <1>1, <1>2, TypeCorrect, SavesOfStep, PTL DEF Spec
=============================================================================
