-------------------------- MODULE UsagePool_proofs --------------------------
(***************************************************************************)
(* For any finite set of processes and any number of stalls, crashes and   *)
(* usage events: the types, how far the cleanup lock excludes a second     *)
(* cleaner, what ends a cleanup, and what a sweep leaves alone.            *)
(***************************************************************************)
EXTENDS UsagePool, FiniteSetTheorems, TLAPS

USE DEF Attempts, LockTicks, Sweeping, Leaving, Cleaning

(* The part of the state that the lock protocol reads and writes.          *)
LockTypeOK ==
    /\ lock \in Worker \cup {Free, Dead}
    /\ ttl \in 0..LockTicks
    /\ pc \in [Worker -> Cleaning \cup {"attempting", "skipped", "exited", "down"}]
    /\ renewed \in [Worker -> BOOLEAN]
    /\ expiries \in Nat
    /\ stalls \in Nat

(* The lock names a process only while it runs the cleanup, a lock about   *)
(* to expire was not renewed since the last tick, and so an expiry needs a *)
(* stall.  CleanersBounded alone is not inductive: without HolderCleans a  *)
(* crash could free a place that no cleaner leaves.                        *)
HolderCleans == lock \in Worker => lock \in Cleaners

HolderLate == lock \in Worker /\ ttl = 1 => ~renewed[lock]

ExpiryNeedsStall == expiries <= stalls

LockInv ==
    /\ LockTypeOK
    /\ HolderCleans
    /\ HolderLate
    /\ ExpiryNeedsStall
    /\ CleanersBounded

-----------------------------------------------------------------------------
(* Processes can be counted, whichever of them are cleaning.               *)
LEMMA CleanersFinite == IsFiniteSet(Cleaners) /\ Cardinality(Cleaners) \in Nat
<1>1. Cleaners \subseteq Worker
  BY DEF Cleaners
<1>. QED
  BY <1>1, UsageAssumption, FS_Subset, FS_CardinalityType DEF UsageAssumption

(* One process more, or one less, is one cleaner more or less at most.     *)
LEMMA CleanersJoin ==
    ASSUME NEW w \in Worker, Cleaners' = Cleaners \cup {w}
    PROVE  /\ Cardinality(Cleaners') <= Cardinality(Cleaners) + 1
           /\ w \in Cleaners => Cardinality(Cleaners') = Cardinality(Cleaners)
           /\ Cardinality(Cleaners') \in Nat
<1>1. /\ IsFiniteSet(Cleaners \cup {w})
      /\ Cardinality(Cleaners \cup {w}) =
           IF w \in Cleaners THEN Cardinality(Cleaners) ELSE Cardinality(Cleaners) + 1
  BY CleanersFinite, FS_AddElement
<1>. QED
  BY <1>1, CleanersFinite

LEMMA CleanersLeave ==
    ASSUME NEW w \in Worker, Cleaners' = Cleaners \ {w}
    PROVE  /\ w \in Cleaners => Cardinality(Cleaners') = Cardinality(Cleaners) - 1
           /\ w \notin Cleaners => Cardinality(Cleaners') = Cardinality(Cleaners)
           /\ Cardinality(Cleaners') \in Nat
<1>1. /\ IsFiniteSet(Cleaners \ {w})
      /\ Cardinality(Cleaners \ {w}) =
           IF w \in Cleaners THEN Cardinality(Cleaners) - 1 ELSE Cardinality(Cleaners)
  BY CleanersFinite, FS_RemoveElement
<1>2. Cardinality(Cleaners \ {w}) \in Nat
  BY <1>1, FS_CardinalityType
<1>. QED
  BY <1>1, <1>2, CleanersFinite

-----------------------------------------------------------------------------
(* No process cleans and nobody holds the lock when the program starts.    *)
LEMMA InitLockInv == Init => LockInv
<1>. SUFFICES ASSUME Init PROVE LockInv
  OBVIOUS
<1>1. Cleaners = {}
  BY DEF Init, Cleaners
<1>2. Cardinality(Cleaners) = 0
  BY <1>1, FS_EmptySet
<1>. QED
  BY <1>1, <1>2, UsageAssumption
     DEF Init, LockInv, LockTypeOK, HolderCleans, HolderLate, ExpiryNeedsStall,
         CleanersBounded, UsageAssumption

(* Steps that neither touch the lock nor make anyone start or stop cleaning.*)
LEMMA LockUntouched ==
    ASSUME LockInv, LockTypeOK', UNCHANGED lockVars, Cleaners' = Cleaners
    PROVE  LockInv'
BY DEF LockInv, LockTypeOK, HolderCleans, HolderLate, ExpiryNeedsStall,
       CleanersBounded, lockVars

(* SET nx: the only step that adds a cleaner, and it takes a free lock.    *)
LEMMA AcquireKeeps ==
    ASSUME LockInv, NEW w \in Worker, Acquire(w)
    PROVE  LockInv'
<1>. USE UsageAssumption DEF UsageAssumption, LockInv
<1>1. LockTypeOK' /\ ExpiryNeedsStall'
  BY DEF Acquire, LockTypeOK, ExpiryNeedsStall
<1>2. Cleaners' = Cleaners \cup {w}
  BY DEF Acquire, Cleaners, LockTypeOK
<1>3. HolderCleans' /\ HolderLate'
  BY <1>2 DEF Acquire, HolderCleans, HolderLate
<1>4. CleanersBounded'
  <2>1. lock \notin Worker /\ lock' \in Worker /\ expiries' = expiries
    BY DEF Acquire
  <2>2. Cardinality(Cleaners') <= Cardinality(Cleaners) + 1
        /\ Cardinality(Cleaners') \in Nat
    BY <1>2, CleanersJoin
  <2>. QED
    BY <2>1, <2>2, CleanersFinite DEF CleanersBounded, LockTypeOK
<1>. QED
  BY <1>1, <1>3, <1>4

(* SET xx: a renewal moves the lock between cleaners, or leaves it free.   *)
LEMMA RenewKeeps ==
    ASSUME LockInv, NEW w \in Worker, Renew(w)
    PROVE  LockInv'
<1>. USE UsageAssumption DEF UsageAssumption, LockInv
<1>1. LockTypeOK' /\ ExpiryNeedsStall'
  <2>1. CASE lock = Free
    BY <2>1 DEF Renew, LockTypeOK, ExpiryNeedsStall
  <2>2. CASE lock # Free
    <3>1. /\ lock' = w /\ ttl' = LockTicks /\ UNCHANGED <<expiries, stalls>>
          /\ renewed' = [renewed EXCEPT ![w] = TRUE]
          /\ pc' = [pc EXCEPT ![w] = "reading"]
      BY <2>2 DEF Renew
    <3>. QED
      BY <3>1 DEF LockTypeOK, ExpiryNeedsStall
  <2>. QED
    BY <2>1, <2>2
<1>2. w \in Cleaners /\ Cleaners' = Cleaners
  BY DEF Renew, Cleaners, LockTypeOK, LoopIdle
<1>3. HolderCleans' /\ HolderLate'
  BY <1>2 DEF Renew, HolderCleans, HolderLate
<1>4. CleanersBounded'
  BY <1>2, CleanersFinite DEF Renew, CleanersBounded, LockTypeOK
<1>. QED
  BY <1>1, <1>3, <1>4

(* release_lock: a process leaves, and with DEL the lock becomes free, be  *)
(* it its own or one that another process took after the GET.              *)
LEMMA ReleaseKeeps ==
    ASSUME LockInv, NEW w \in Worker, ReleaseGet(w) \/ ReleaseDelete(w)
    PROVE  LockInv'
<1>. USE UsageAssumption DEF UsageAssumption, LockInv
<1>1. CASE ReleaseGet(w) /\ lock = w
  <2>1. LockTypeOK'
    BY <1>1 DEF ReleaseGet, LockTypeOK, lockVars
  <2>2. Cleaners' = Cleaners
    BY <1>1 DEF ReleaseGet, Cleaners, LockTypeOK
  <2>. QED
    BY <1>1, <2>1, <2>2, LockUntouched DEF ReleaseGet
<1>2. CASE ReleaseGet(w) /\ lock # w
  <2>1. LockTypeOK' /\ ExpiryNeedsStall' /\ HolderLate'
    BY <1>2 DEF ReleaseGet, LockTypeOK, ExpiryNeedsStall, HolderLate, lockVars
  <2>2. w \in Cleaners /\ Cleaners' = Cleaners \ {w}
    BY <1>2 DEF ReleaseGet, Cleaners, LockTypeOK
  <2>3. HolderCleans'
    BY <1>2, <2>2 DEF ReleaseGet, HolderCleans, lockVars
  <2>4. CleanersBounded'
    <3>1. UNCHANGED <<lock, expiries>>
      BY <1>2 DEF ReleaseGet, lockVars
    <3>2. Cardinality(Cleaners') = Cardinality(Cleaners) - 1
      BY <2>2, CleanersLeave
    <3>. QED
      BY <3>1, <3>2, CleanersFinite DEF CleanersBounded, LockTypeOK
  <2>. QED
    BY <2>1, <2>3, <2>4
<1>3. CASE ReleaseDelete(w)
  <2>1. LockTypeOK' /\ ExpiryNeedsStall' /\ HolderLate' /\ HolderCleans'
    BY <1>3 DEF ReleaseDelete, LockTypeOK, ExpiryNeedsStall, HolderLate, HolderCleans
  <2>2. w \in Cleaners /\ Cleaners' = Cleaners \ {w}
    BY <1>3 DEF ReleaseDelete, Cleaners, LockTypeOK
  <2>3. CleanersBounded'
    BY <1>3, <2>2, CleanersLeave, CleanersFinite
       DEF ReleaseDelete, CleanersBounded, LockTypeOK
  <2>. QED
    BY <2>1, <2>3
<1>. QED
  BY <1>1, <1>2, <1>3

(* Half of the lock's life passes: if it ends, its holder was late.        *)
LEMMA TickKeeps ==
    ASSUME LockInv, Tick
    PROVE  LockInv'
<1>. USE UsageAssumption DEF UsageAssumption, LockInv
<1>. DEFINE late == {w \in Cleaners : ~renewed[w]}
<1>1. LockTypeOK'
  BY DEF Tick, LockTypeOK
<1>2. Cleaners' = Cleaners
  BY DEF Tick, Cleaners
<1>3. HolderCleans' /\ HolderLate'
  BY <1>2 DEF Tick, HolderCleans, HolderLate, LockTypeOK, Cleaners
<1>4. CASE ttl = 1 /\ lock \in Worker
  <2>1. late # {}
    BY <1>4 DEF HolderCleans, HolderLate
  <2>2. stalls' = stalls + 1 /\ expiries' = expiries + 1 /\ lock' = Free
    BY <1>4, <2>1 DEF Tick
  <2>3. ExpiryNeedsStall'
    BY <2>2 DEF ExpiryNeedsStall, LockTypeOK
  <2>4. CleanersBounded'
    BY <1>2, <1>4, <2>2, CleanersFinite DEF CleanersBounded, LockTypeOK
  <2>. QED
    BY <1>1, <1>3, <2>3, <2>4
<1>5. CASE ~(ttl = 1 /\ lock \in Worker)
  <2>1. /\ expiries' = expiries
        /\ stalls' = stalls \/ stalls' = stalls + 1
        /\ lock' \in Worker <=> lock \in Worker
    BY <1>5 DEF Tick
  <2>2. ExpiryNeedsStall'
    BY <2>1 DEF ExpiryNeedsStall, LockTypeOK
  <2>3. CleanersBounded'
    BY <1>2, <2>1 DEF CleanersBounded
  <2>. QED
    BY <1>1, <1>3, <2>2, <2>3
<1>. QED
  BY <1>4, <1>5

(* A crash: the cleaner goes, and the lock it held names no process.       *)
LEMMA CrashKeeps ==
    ASSUME LockInv, NEW w \in Worker, Crash(w)
    PROVE  LockInv'
<1>. USE UsageAssumption DEF UsageAssumption, LockInv
<1>1. LockTypeOK' /\ ExpiryNeedsStall'
  BY DEF Crash, LockTypeOK, ExpiryNeedsStall
<1>2. Cleaners' = Cleaners \ {w}
  BY DEF Crash, Cleaners, LockTypeOK
<1>3. HolderCleans' /\ HolderLate'
  BY <1>2 DEF Crash, HolderCleans, HolderLate
<1>4. CleanersBounded'
  <2>1. expiries' = expiries
    BY DEF Crash
  <2>2. CASE lock = w
    <3>1. lock \in Worker /\ lock' \notin Worker
      BY <2>2 DEF Crash
    <3>2. Cardinality(Cleaners') = Cardinality(Cleaners) - 1
      BY <1>2, <2>2, CleanersLeave DEF HolderCleans
    <3>. QED
      BY <2>1, <3>1, <3>2, CleanersFinite DEF CleanersBounded, LockTypeOK
  <2>3. CASE lock # w
    <3>1. lock' = lock
      BY <2>3 DEF Crash
    <3>2. \/ Cardinality(Cleaners') = Cardinality(Cleaners) - 1
          \/ Cardinality(Cleaners') = Cardinality(Cleaners)
      BY <1>2, CleanersLeave
    <3>. QED
      BY <2>1, <3>1, <3>2, CleanersFinite DEF CleanersBounded, LockTypeOK
  <2>. QED
    BY <2>2, <2>3
<1>. QED
  BY <1>1, <1>3, <1>4

(* The sweep, the failed attempts, the usage events: no part of the lock.  *)
LEMMA OthersKeep ==
    ASSUME LockInv,
           \/ \E w \in Worker :
                 \/ FailToAcquire(w) \/ ReadPool(w) \/ SweepDone(w)
                 \/ \E m \in Model : Sweep(w, m)
                 \/ UsageStep(w) \/ Restart(w)
           \/ \E m \in Model, s \in Sid : Age(m, s)
           \/ UNCHANGED vars
    PROVE  LockInv'
<1>1. ASSUME NEW w \in Worker,
             FailToAcquire(w) \/ ReadPool(w) \/ SweepDone(w)
      PROVE  UNCHANGED lockVars /\ LockTypeOK' /\ Cleaners' = Cleaners
  <2>1. CASE FailToAcquire(w)
    BY <2>1 DEF FailToAcquire, LockInv, LockTypeOK, lockVars, Cleaners
  <2>2. CASE ReadPool(w)
    BY <2>2 DEF ReadPool, LockInv, LockTypeOK, lockVars, Cleaners
  <2>3. CASE SweepDone(w)
    BY <2>3 DEF SweepDone, LockInv, LockTypeOK, lockVars, Cleaners
  <2>. QED
    BY <1>1, <2>1, <2>2, <2>3
<1>2. ASSUME NEW w \in Worker, NEW m \in Model, Sweep(w, m)
      PROVE  UNCHANGED lockVars /\ LockTypeOK' /\ Cleaners' = Cleaners
  <2>1. UNCHANGED lockVars
    BY <1>2 DEF Sweep
  <2>2. pc' = pc \/ (pc[w] = "sweeping" /\ pc' = [pc EXCEPT ![w] = "releasing"])
    BY <1>2 DEF Sweep
  <2>. QED
    BY <2>1, <2>2 DEF LockInv, LockTypeOK, lockVars, Cleaners
<1>3. ASSUME NEW w \in Worker, UsageStep(w) \/ Restart(w)
      PROVE  UNCHANGED lockVars /\ LockTypeOK' /\ Cleaners' = Cleaners
  <2>1. CASE UsageStep(w)
    BY <2>1 DEF UsageStep, UsageCheck, UsageGet, UsageSet, LockInv, LockTypeOK,
                lockVars, Cleaners
  <2>2. CASE Restart(w)
    BY <2>2 DEF Restart, LockInv, LockTypeOK, lockVars, Cleaners
  <2>. QED
    BY <1>3, <2>1, <2>2
<1>4. ASSUME NEW m \in Model, NEW s \in Sid, Age(m, s)
      PROVE  UNCHANGED lockVars /\ LockTypeOK' /\ Cleaners' = Cleaners
  BY <1>4 DEF Age, LockInv, LockTypeOK, lockVars, Cleaners
<1>5. CASE UNCHANGED vars
  BY <1>5, LockUntouched DEF vars, lockVars, LockInv, LockTypeOK, Cleaners
<1>. QED
  BY <1>1, <1>2, <1>3, <1>4, <1>5, LockUntouched

(* The lock invariant is inductive.                                        *)
LEMMA LockInductive == LockInv /\ [Next]_vars => LockInv'
BY AcquireKeeps, RenewKeeps, ReleaseKeeps, TickKeeps, CrashKeeps, OthersKeep
   DEF Next, CleanupStep

LEMMA LockInvHolds == Spec => []LockInv
BY InitLockInv, LockInductive, PTL DEF Spec

(* There are no more cleaners than lock holders and lost locks.            *)
THEOREM CleanersAreBounded == Spec => []CleanersBounded
<1>1. LockInv => CleanersBounded
  BY DEF LockInv
<1>. QED
  BY <1>1, LockInvHolds, PTL

(* One cleaner, and one more at most for each tick a cleaner was late.     *)
THEOREM OneCleaner == Spec => []OneCleanerPerStall
<1>1. LockInv => OneCleanerPerStall
  BY CleanersFinite
     DEF LockInv, LockTypeOK, ExpiryNeedsStall, CleanersBounded, OneCleanerPerStall
<1>. QED
  BY <1>1, LockInvHolds, PTL

-----------------------------------------------------------------------------
(***************************************************************************)
(* The types, with the pool, the copies of it and the usage events         *)
(***************************************************************************)

(* What a usage event has read of the pool are entries of a model.         *)
LEMMA EventTypes ==
    /\ NoEvent \in Event /\ NoEvent.at = "none" /\ NoEntry \in Entries
    /\ \A e \in Event : e.at \in {"get", "set"} => e.sid \in Sid /\ e.model \in Model
    /\ \A e \in Event : e.at = "set" => e.read \in Entries
    /\ \A s \in Sid, m \in Model :
          /\ [at |-> "get", sid |-> s, model |-> m] \in Event
          /\ \A r \in Entries : [at |-> "set", sid |-> s, model |-> m, read |-> r] \in Event
BY DEF Event, NoEvent, NoEntry, Entries, Ages

(* A process that is still attempting has attempts left.  TypeOK alone is  *)
(* not inductive: it does not bound the attempts that are still made.      *)
AttemptsLeft == \A w \in Worker : pc[w] = "attempting" => attempt[w] < Attempts

TypeInv == TypeOK /\ AttemptsLeft

LEMMA InitTypeInv == Init => TypeInv
BY EventTypes, UsageAssumption DEF Init, TypeOK, UsageAssumption, TypeInv, AttemptsLeft

LEMMA CleanupTypes ==
    ASSUME TypeInv, NEW w \in Worker, CleanupStep(w)
    PROVE  TypeInv'
<1>. USE UsageAssumption DEF UsageAssumption, TypeOK, lockVars, TypeInv, AttemptsLeft
<1>1. CASE Acquire(w)
  BY <1>1 DEF Acquire
<1>2. CASE FailToAcquire(w)
  <2>1. attempt[w] \in 0..2 /\ attempt' = [attempt EXCEPT ![w] = @ + 1]
    BY <1>2 DEF FailToAcquire, LoopIdle
  <2>2. attempt' \in [Worker -> 0..Attempts]
    BY <2>1
  <2>3. CASE attempt[w] + 1 < Attempts
    <3>1. PICK delay \in 1..LockTicks : timer' = [timer EXCEPT ![w] = delay]
      BY <1>2, <2>3 DEF FailToAcquire
    <3>2. timer' \in [Worker -> 0..LockTicks]
      BY <3>1
    <3>3. pc' = pc
      BY <1>2, <2>3 DEF FailToAcquire
    <3>. QED
      BY <1>2, <2>1, <2>2, <2>3, <3>2, <3>3 DEF FailToAcquire
  <2>4. CASE ~(attempt[w] + 1 < Attempts)
    <3>1. pc' = [pc EXCEPT ![w] = "skipped"] /\ timer' = timer
      BY <1>2, <2>4 DEF FailToAcquire
    <3>2. pc' \in [Worker -> Cleaning \cup {"attempting", "skipped", "exited", "down"}]
      BY <3>1
    <3>3. AttemptsLeft'
      BY <2>1, <3>1
    <3>. QED
      BY <1>2, <2>2, <3>1, <3>2, <3>3 DEF FailToAcquire
  <2>. QED
    BY <2>3, <2>4
<1>3. CASE Renew(w)
  <2>1. CASE lock = Free
    <3>1. pc' = [pc EXCEPT ![w] = "releasing"] /\ UNCHANGED <<lock, ttl, renewed>>
      BY <1>3, <2>1 DEF Renew
    <3>2. pc' \in [Worker -> Cleaning \cup {"attempting", "skipped", "exited", "down"}]
      BY <3>1
    <3>. QED
      BY <1>3, <3>1, <3>2 DEF Renew
  <2>2. CASE lock # Free
    <3>1. /\ lock' = w /\ ttl' = LockTicks
          /\ renewed' = [renewed EXCEPT ![w] = TRUE]
          /\ pc' = [pc EXCEPT ![w] = "reading"]
      BY <1>3, <2>2 DEF Renew
    <3>2. /\ pc' \in [Worker -> Cleaning \cup {"attempting", "skipped", "exited", "down"}]
          /\ renewed' \in [Worker -> BOOLEAN]
          /\ lock' \in Worker \cup {Free, Dead} /\ ttl' \in 0..LockTicks
      BY <3>1
    <3>. QED
      BY <1>3, <3>1, <3>2 DEF Renew
  <2>. QED
    BY <2>1, <2>2
<1>4. CASE ReadPool(w)
  BY <1>4 DEF ReadPool
<1>5. ASSUME NEW m \in Model, Sweep(w, m) PROVE TypeInv'
  <2>2. \/ pc' = [pc EXCEPT ![w] = "releasing"] /\ UNCHANGED <<pool, todo>>
        \/ /\ \E late \in Entries : pool' = [pool EXCEPT ![m] = late]
           /\ todo' = [todo EXCEPT ![w] = @ \ {m}]
           /\ UNCHANGED pc
    BY <1>5 DEF Sweep, Later
  <2>5. /\ pool \in [Model -> Entries] /\ todo \in [Worker -> SUBSET Model]
        /\ todo[w] \ {m} \in SUBSET Model
    OBVIOUS
  <2>3. pool' \in [Model -> Entries] /\ todo' \in [Worker -> SUBSET Model]
    BY ONLY <2>2, <2>5
  <2>4. pc' \in [Worker -> Cleaning \cup {"attempting", "skipped", "exited", "down"}]
    BY <2>2
  <2>. QED
    BY <1>5, <2>3, <2>4 DEF Sweep
<1>6. CASE SweepDone(w)
  BY <1>6, EventTypes DEF SweepDone
<1>7. CASE ReleaseGet(w)
  BY <1>7 DEF ReleaseGet
<1>8. CASE ReleaseDelete(w)
  BY <1>8 DEF ReleaseDelete
<1>. QED
  BY <1>1, <1>2, <1>3, <1>4, <1>5, <1>6, <1>7, <1>8 DEF CleanupStep

LEMMA UsageTypes ==
    ASSUME TypeInv, NEW w \in Worker, UsageStep(w)
    PROVE  TypeInv'
<1>. USE DEF TypeOK, lockVars, TypeInv, AttemptsLeft
<1>1. ASSUME NEW s \in Sid, NEW m \in Model, UsageCheck(w, s, m) PROVE TypeInv'
  <2>1. event' \in [Worker -> Event]
    BY <1>1, EventTypes DEF UsageCheck
  <2>. QED
    BY <1>1, <2>1 DEF UsageCheck
<1>2. CASE UsageGet(w)
  <2>1. event[w] \in Event /\ event[w].sid \in Sid /\ event[w].model \in Model
    BY <1>2, EventTypes DEF UsageGet
  <2>2. event' \in [Worker -> Event]
    BY <1>2, <2>1, EventTypes DEF UsageGet
  <2>. QED
    BY <1>2, <2>2 DEF UsageGet
<1>3. CASE UsageSet(w)
  <2>1. event[w].sid \in Sid /\ event[w].model \in Model /\ event[w].read \in Entries
    BY <1>3, EventTypes DEF UsageSet
  <2>2. \A late \in Later(event[w].read) : [late EXCEPT ![event[w].sid] = "fresh"] \in Entries
    BY <2>1 DEF Later, Entries, Ages
  <2>. QED
    BY <1>3, <2>1, <2>2, EventTypes DEF UsageSet
<1>. QED
  BY <1>1, <1>2, <1>3 DEF UsageStep

LEMMA TypeInductive == TypeInv /\ [Next]_vars => TypeInv'
<1>. SUFFICES ASSUME TypeInv, [Next]_vars PROVE TypeInv'
  OBVIOUS
<1>. USE UsageAssumption DEF UsageAssumption, TypeOK, lockVars, TypeInv, AttemptsLeft
<1>1. ASSUME NEW w \in Worker, Crash(w) PROVE TypeInv'
  BY <1>1, EventTypes DEF Crash
<1>2. ASSUME NEW w \in Worker, Restart(w) PROVE TypeInv'
  BY <1>2 DEF Restart
<1>3. ASSUME NEW m \in Model, NEW s \in Sid, Age(m, s) PROVE TypeInv'
  BY <1>3 DEF Age, Entries, Ages
<1>4. CASE Tick
  <2>1. ttl' \in 0..LockTicks /\ lock' \in Worker \cup {Free, Dead}
    BY <1>4 DEF Tick
  <2>2. timer' \in [Worker -> 0..LockTicks] /\ renewed' \in [Worker -> BOOLEAN]
    BY <1>4 DEF Tick
  <2>3. {expiries', stalls'} \subseteq Nat
    BY <1>4 DEF Tick
  <2>. QED
    BY <1>4, <2>1, <2>2, <2>3 DEF Tick
<1>5. CASE UNCHANGED vars
  BY <1>5 DEF vars
<1>. QED
  BY CleanupTypes, UsageTypes, <1>1, <1>2, <1>3, <1>4, <1>5 DEF Next

(* Every reachable state of the pool and its cleanup has its types: an     *)
(* event that is about to write back has read entries of a model.          *)
THEOREM TypeCorrect == Spec => []TypeOK
<1>1. TypeInv => TypeOK
  BY DEF TypeInv
<1>. QED
  BY <1>1, InitTypeInv, TypeInductive, PTL DEF Spec

-----------------------------------------------------------------------------
(***************************************************************************)
(* What ends a cleanup loop                                                *)
(***************************************************************************)

(* Until the lock of a live process has expired, the models a sweep has    *)
(* yet to visit are in the pool: nobody else deletes them.                 *)
SweptOnce ==
    expiries = 0 => \A w \in Worker : pc[w] = "sweeping" =>
                        \A m \in todo[w] : pool[m] # NoEntry

(* CleanupSurvives is about the end of a loop; it holds because before the *)
(* first expiry a process that cleans still has the lock (LockInv) and     *)
(* finds what it read (SweptOnce).                                         *)
SurvivalInv ==
    /\ TypeInv
    /\ LockInv
    /\ SweptOnce
    /\ CleanupSurvives

(* Before the first expiry the holder of the lock is the one that cleans.  *)
LEMMA OneUntilExpiry ==
    ASSUME LockInv, expiries = 0, NEW w \in Cleaners
    PROVE  lock = w /\ Cleaners = {w}
<1>1. Cardinality(Cleaners) # 0
  BY CleanersFinite, FS_EmptySet
<1>2. Cardinality(Cleaners) = 1 /\ lock \in Worker
  BY <1>1, CleanersFinite DEF LockInv, CleanersBounded
<1>3. \E v : Cleaners = {v}
  BY <1>2, CleanersFinite, FS_Singleton
<1>. QED
  BY <1>2, <1>3 DEF LockInv, HolderCleans

LEMMA InitSurvival == Init => SurvivalInv
BY InitTypeInv, InitLockInv DEF Init, SurvivalInv, SweptOnce, CleanupSurvives

LEMMA ExpiriesGrow ==
    ASSUME TypeOK, [Next]_vars
    PROVE  expiries' \in Nat /\ (expiries' = 0 => expiries = 0)
<1>1. expiries' = expiries \/ expiries' = expiries + 1
  <2>1. CASE Tick
    BY <2>1 DEF Tick
  <2>2. CASE UNCHANGED expiries
    BY <2>2
  <2>3. ASSUME NEW w \in Worker, CleanupStep(w) \/ UsageStep(w) \/ Crash(w) \/ Restart(w)
        PROVE  UNCHANGED expiries
    BY <2>3 DEF CleanupStep, Acquire, FailToAcquire, Renew, ReadPool, Sweep, SweepDone, ReleaseGet,
                ReleaseDelete, UsageStep, UsageCheck, UsageGet, UsageSet, Crash, Restart, lockVars
  <2>. QED
    BY <2>1, <2>2, <2>3 DEF Next, Age, vars, lockVars
<1>. QED
  BY <1>1 DEF TypeOK

(* Before the first expiry no step leads out of the loop.                  *)
LEMMA LoopGoesOn ==
    ASSUME SurvivalInv, [Next]_vars, expiries' = 0, NEW w \in Worker,
           pc'[w] \in Leaving \cup {"exited"}
    PROVE  FALSE
<1>. USE DEF SurvivalInv, TypeInv
<1>1. expiries = 0 /\ pc[w] \notin Leaving \cup {"exited"}
  BY ExpiriesGrow DEF CleanupSurvives, TypeOK
<1>2. w \in Cleaners => lock = w
  BY <1>1, OneUntilExpiry
<1>3. ASSUME NEW v \in Worker, CleanupStep(v) PROVE FALSE
  <2>1. CASE Renew(v)
    <3>1. v \in Cleaners
      BY <2>1 DEF Renew, Cleaners, TypeOK
    <3>2. lock # Free
      BY <1>1, <3>1, OneUntilExpiry, UsageAssumption DEF UsageAssumption
    <3>. QED
      BY <1>1, <2>1, <3>2 DEF Renew, TypeOK
  <2>2. ASSUME NEW m \in Model, Sweep(v, m) PROVE FALSE
    <3>1. pool[m] # NoEntry
      BY <1>1, <2>2 DEF Sweep, SweptOnce
    <3>2. pc' = pc
      BY <2>2, <3>1 DEF Sweep
    <3>. QED
      BY <1>1, <3>2
  <2>3. CASE Acquire(v) \/ FailToAcquire(v) \/ ReadPool(v) \/ SweepDone(v)
    BY <1>1, <2>3 DEF Acquire, FailToAcquire, ReadPool, SweepDone, TypeOK
  <2>4. CASE ReleaseGet(v) \/ ReleaseDelete(v)
    BY <1>1, <2>4 DEF ReleaseGet, ReleaseDelete, CleanupSurvives
  <2>. QED
    BY <1>3, <2>1, <2>2, <2>3, <2>4 DEF CleanupStep
<1>4. ASSUME NEW v \in Worker, UsageStep(v) \/ Crash(v) \/ Restart(v) PROVE FALSE
  BY <1>1, <1>4 DEF UsageStep, UsageCheck, UsageGet, UsageSet, Crash, Restart, TypeOK
<1>. QED
  BY <1>1, <1>3, <1>4 DEF Next, Age, Tick, vars

LEMMA SweptInductive ==
    ASSUME SurvivalInv, [Next]_vars
    PROVE  SweptOnce'
<1>. USE DEF SurvivalInv, TypeInv
<1>. SUFFICES ASSUME expiries' = 0, NEW w \in Worker, pc'[w] = "sweeping", NEW m \in todo'[w]
              PROVE  pool'[m] # NoEntry
  BY DEF SweptOnce
<1>1. expiries = 0
  BY ExpiriesGrow
<1>2. CASE pc[w] = "sweeping" /\ m \in todo[w]
  <2>1. pool[m] # NoEntry /\ m \in Model /\ Cleaners = {w}
    BY <1>1, <1>2, OneUntilExpiry DEF SweptOnce, TypeOK, Cleaners
  <2>2. ASSUME NEW v \in Worker, NEW k \in Model, Sweep(v, k) PROVE pool'[m] # NoEntry
    <3>1. v = w
      BY <2>1, <2>2 DEF Sweep, Cleaners
    <3>2. pool[k] # NoEntry
      BY <1>1, <2>2 DEF Sweep, SweptOnce
    <3>3. m # k
      BY <2>2, <3>1, <3>2 DEF Sweep, TypeOK
    <3>. QED
      BY <2>1, <2>2, <3>3 DEF Sweep, TypeOK
  <2>3. ASSUME NEW v \in Worker, UsageSet(v) PROVE pool'[m] # NoEntry
    <3>. DEFINE e == event[v]
    <3>1. e.sid \in Sid /\ e.model \in Model /\ e.read \in Entries
      BY <2>3, EventTypes DEF UsageSet, TypeOK
    <3>2. \A late \in Later(e.read) : [late EXCEPT ![e.sid] = "fresh"] # NoEntry
      BY <3>1 DEF Later, Entries, NoEntry
    <3>. QED
      BY <2>1, <2>3, <3>1, <3>2 DEF UsageSet, TypeOK
  <2>4. ASSUME NEW k \in Model, NEW s \in Sid, Age(k, s) PROVE pool'[m] # NoEntry
    BY <2>1, <2>4 DEF Age, TypeOK, Entries, NoEntry
  <2>5. CASE UNCHANGED pool
    BY <2>1, <2>5
  <2>. QED
    BY <2>2, <2>3, <2>4, <2>5 DEF Next, CleanupStep, Acquire, FailToAcquire, Renew, ReadPool,
       SweepDone, ReleaseGet, ReleaseDelete, UsageStep, UsageCheck, UsageGet, Crash, Restart,
       Tick, vars
<1>3. CASE ~(pc[w] = "sweeping" /\ m \in todo[w])
  <2>1. ReadPool(w)
    <3>1. ASSUME NEW v \in Worker, CleanupStep(v), ~ReadPool(v)
          PROVE  FALSE
      BY <1>3, <3>1 DEF CleanupStep, Acquire, FailToAcquire, Renew, Sweep, SweepDone, ReleaseGet,
                        ReleaseDelete, TypeOK
    <3>2. ASSUME NEW v \in Worker, UsageStep(v) \/ Crash(v) \/ Restart(v) PROVE FALSE
      BY <1>3, <3>2 DEF UsageStep, UsageCheck, UsageGet, UsageSet, Crash, Restart, TypeOK
    <3>3. ASSUME NEW v \in Worker, ReadPool(v), v # w PROVE FALSE
      BY <1>3, <3>3 DEF ReadPool, TypeOK
    <3>. QED
      BY <1>3, <3>1, <3>2, <3>3 DEF Next, Age, Tick, vars
  <2>. QED
    BY <2>1 DEF ReadPool, TypeOK
<1>. QED
  BY <1>2, <1>3

(* Nothing but the expiry of a live process's lock ends a cleanup loop:    *)
(* crashes, take-overs by renew_lock and usage events do not.              *)
THEOREM OnlyExpiryEndsCleanup == Spec => []CleanupSurvives
<1>1. SurvivalInv /\ [Next]_vars => SurvivalInv'
  <2>. SUFFICES ASSUME SurvivalInv, [Next]_vars PROVE SurvivalInv'
    OBVIOUS
  <2>1. TypeInv' /\ LockInv'
    BY TypeInductive, LockInductive DEF SurvivalInv
  <2>2. CleanupSurvives'
    <3>. SUFFICES ASSUME NEW w \in Worker, pc'[w] \in Leaving \cup {"exited"}, ~(expiries' > 0)
                  PROVE  FALSE
      BY DEF CleanupSurvives
    <3>1. expiries' = 0
      BY ExpiriesGrow DEF SurvivalInv, TypeInv
    <3>. QED
      BY <3>1, LoopGoesOn
  <2>. QED
    BY <2>1, <2>2, SweptInductive DEF SurvivalInv
<1>2. SurvivalInv => CleanupSurvives
  BY DEF SurvivalInv
<1>. QED
  BY <1>1, <1>2, InitSurvival, PTL DEF Spec

(* What a sweep saw in time stays, although it writes back the whole model *)
(* from a copy that others may have overtaken.                             *)
THEOREM SweepsSpareTheFresh == Spec => SeenFreshStays
<1>1. TypeOK /\ [Next]_vars
        => [\A w \in Worker, m \in Model, s \in Sid :
               (todo'[w] # todo[w] /\ shot[w][m][s] = "fresh" /\ pool[m][s] # "none")
                   => pool'[m][s] # "none"]_vars
  <2>. SUFFICES ASSUME TypeOK, Next, NEW w \in Worker, NEW m \in Model, NEW s \in Sid,
                       todo'[w] # todo[w], shot[w][m][s] = "fresh", pool[m][s] # "none"
                PROVE  pool'[m][s] # "none"
    OBVIOUS
  <2>1. ASSUME NEW v \in Worker, NEW k \in Model, Sweep(v, k) PROVE pool'[m][s] # "none"
    <3>1. v = w
      BY <2>1 DEF Sweep, TypeOK
    <3>. QED
      BY <2>1, <3>1 DEF Sweep, Later, Entries, TypeOK
  <2>2. ASSUME NEW v \in Worker, ReadPool(v) \/ Crash(v) PROVE pool'[m][s] # "none"
    BY <2>2 DEF ReadPool, Crash
  <2>. QED
    BY <2>1, <2>2 DEF Next, CleanupStep, Acquire, FailToAcquire, Renew, SweepDone, ReleaseGet,
       ReleaseDelete, UsageStep, UsageCheck, UsageGet, UsageSet, Restart, Age, Tick
<1>. QED
  BY <1>1, TypeCorrect, PTL DEF Spec, SeenFreshStays

-----------------------------------------------------------------------------
(***************************************************************************)
(* Why the lock is refused                                                 *)
(***************************************************************************)

(* The key exists as long as it has time to live, and then it names a      *)
(* process that runs the cleanup or one that died: no attempt of           *)
(* aquire_lock fails for a process that has left its cleanup loop, nor for *)
(* a key that would stay for ever.                                         *)
LockAccounted ==
    /\ lock # Free <=> ttl > 0
    /\ lock # Free => lock = Dead \/ lock \in Cleaners

LEMMA TimedInductive ==
    ASSUME LockInv, lock # Free <=> ttl > 0, [Next]_vars
    PROVE  (lock # Free <=> ttl > 0)'
<1>. USE UsageAssumption DEF UsageAssumption
<1>1. lock \in Worker \cup {Free, Dead} /\ ttl \in 0..2
  BY DEF LockInv, LockTypeOK
<1>2. ASSUME NEW w \in Worker, Acquire(w) \/ Renew(w) \/ ReleaseDelete(w)
      PROVE  (lock # Free <=> ttl > 0)'
  BY <1>2 DEF Acquire, Renew, ReleaseDelete
<1>3. CASE Tick
  BY <1>1, <1>3 DEF Tick
<1>4. ASSUME NEW w \in Worker, Crash(w) PROVE (lock # Free <=> ttl > 0)'
  BY <1>4 DEF Crash
<1>5. CASE UNCHANGED <<lock, ttl>>
  BY <1>5
<1>6. ASSUME NEW w \in Worker, UsageStep(w) \/ Restart(w)
      PROVE  UNCHANGED <<lock, ttl>>
  BY <1>6 DEF UsageStep, UsageCheck, UsageGet, UsageSet, Restart, lockVars
<1>7. ASSUME NEW w \in Worker, CleanupStep(w),
             ~(Acquire(w) \/ Renew(w) \/ ReleaseDelete(w))
      PROVE  UNCHANGED <<lock, ttl>>
  BY <1>7 DEF CleanupStep, FailToAcquire, ReadPool, Sweep, SweepDone, ReleaseGet, lockVars
<1>8. ASSUME NEW m \in Model, NEW s \in Sid, Age(m, s) PROVE UNCHANGED <<lock, ttl>>
  BY <1>8 DEF Age, lockVars
<1>9. CASE UNCHANGED vars
  BY <1>9 DEF vars
<1>. QED
  BY <1>2, <1>3, <1>4, <1>5, <1>6, <1>7, <1>8, <1>9 DEF Next

(* LockAccounted: what CleanerComesBack rests on, with the attempts that   *)
(* outlast the key of a dead process.                                      *)
THEOREM RefusedForAReason == Spec => []LockAccounted
<1>1. Init => (lock # Free <=> ttl > 0)
  BY DEF Init
<1>2. LockInv /\ (lock # Free <=> ttl > 0) /\ [Next]_vars => (lock # Free <=> ttl > 0)'
  BY TimedInductive
<1>3. LockInv /\ (lock # Free <=> ttl > 0) => LockAccounted
  BY DEF LockInv, LockTypeOK, HolderCleans, LockAccounted
<1>. QED
  BY <1>1, <1>2, <1>3, LockInvHolds, PTL DEF Spec

(* A process begins a sweep without the lock only after the lock of a live *)
(* process has expired: renew_lock, which takes over whatever key exists,  *)
(* does harm in no other way.                                              *)
TakeOverNeedsExpiry ==
    [][\A w \in Worker :
          pc[w] # "reading" /\ pc'[w] = "reading" => lock = w \/ expiries > 0]_vars

(* TakeOverNeedsExpiry: all that LostLockExits can fail by.                *)
THEOREM SweepsHoldTheLock == Spec => TakeOverNeedsExpiry
<1>1. LockInv /\ [Next]_vars
        => [\A w \in Worker :
               pc[w] # "reading" /\ pc'[w] = "reading" => lock = w \/ expiries > 0]_vars
  <2>. SUFFICES ASSUME LockInv, [Next]_vars, NEW w \in Worker,
                       pc[w] # "reading", pc'[w] = "reading", expiries = 0
                PROVE  lock = w
    BY DEF LockInv, LockTypeOK
  <2>1. Renew(w)
    BY DEF Next, CleanupStep, UsageStep, Acquire, FailToAcquire, Renew, ReadPool, Sweep, SweepDone,
           ReleaseGet, ReleaseDelete, UsageCheck, UsageGet, UsageSet, Crash, Restart, Age, Tick,
           vars, LockInv, LockTypeOK
  <2>2. w \in Cleaners
    BY <2>1 DEF Renew, Cleaners
  <2>. QED
    BY <2>2, OneUntilExpiry
<1>. QED
  BY <1>1, LockInvHolds, PTL DEF Spec, TakeOverNeedsExpiry
=============================================================================
