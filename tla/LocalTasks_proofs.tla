------------------------- MODULE LocalTasks_proofs -------------------------
(***************************************************************************)
(* For any tasks, items and stop requests: the types, who may await a      *)
(* task, where a running task is listed, whose tasks a request cancels,    *)
(* when "All tasks ... stopped" is true, and what is left of ended tasks.  *)
(***************************************************************************)
EXTENDS LocalTasks, SequenceTheorems, TLAPS

(* What stop_task's pop establishes, and what it rests on: a request that  *)
(* waits does so for a task that exists and is no longer in `tasks`, so no *)
(* other request can come to wait for it.  OneAwaiter alone is not         *)
(* inductive: it does not say that create_task cannot bring the id back.   *)
AwaitInv ==
    /\ tasks \subseteq Task
    /\ run \in [Task -> Ended \cup Alive \cup {"none"}]
    /\ waits \in [Stopper -> Task \cup {NoTask}]
    /\ pc \in [Stopper -> {"idle", "looping", "awaiting", "answered"}]
    /\ \A t \in tasks : run[t] # "none"
    /\ \A s \in Stopper : pc[s] = "awaiting" <=> waits[s] # NoTask
    /\ \A s \in Stopper : waits[s] # NoTask =>
           /\ run[waits[s]] # "none"
           /\ waits[s] \notin tasks
           /\ \A r \in Stopper \ {s} : waits[r] # waits[s]

USE DEF Ended, Alive, Answer

LEMMA InitAwaitInv == Init => AwaitInv
BY LocalAssumption DEF LocalAssumption, Init, AwaitInv

(* The body of stop_task, called by a request that does not wait.          *)
LEMMA StopKeeps ==
    ASSUME AwaitInv, NEW s \in Stopper, NEW t, Stop(s, t),
           pc[s] \in {"idle", "looping"}
    PROVE  AwaitInv'
<1>1. CASE t \notin tasks
  BY <1>1 DEF Stop, AwaitInv
<1>2. CASE t \in tasks /\ run[t] \in {"returned", "raised", "cancelled"}
  <2>1. UNCHANGED <<run, waits>> /\ tasks' = tasks \ {t} /\ Resume(s, run[t])
    BY <1>2 DEF Stop
  <2>2. pc' = [pc EXCEPT ![s] = "looping"] \/ pc' = [pc EXCEPT ![s] = "answered"]
    BY <1>2, <2>1 DEF Resume
  <2>. QED
    BY <1>2, <2>1, <2>2 DEF AwaitInv
<1>3. CASE t \in tasks /\ run[t] \notin {"returned", "raised", "cancelled"}
  <2>1. /\ tasks' = tasks \ {t}
        /\ run' = [run EXCEPT ![t] = "cancelling"]
        /\ waits' = [waits EXCEPT ![s] = t]
        /\ pc' = [pc EXCEPT ![s] = "awaiting"]
    BY <1>3 DEF Stop
  <2>. QED
    BY <1>3, <2>1, LocalAssumption DEF AwaitInv, LocalAssumption
<1>. QED
  BY <1>1, <1>2, <1>3

LEMMA AwaitInductive == AwaitInv /\ [Next]_vars => AwaitInv'
<1>. SUFFICES ASSUME AwaitInv, [Next]_vars PROVE AwaitInv'
  OBVIOUS
<1>1. ASSUME NEW t \in Task, NEW i \in Item, NEW catches \in BOOLEAN,
             CreateTask(t, i, catches)
      PROVE  AwaitInv'
  BY <1>1 DEF CreateTask, AwaitInv
<1>2. ASSUME NEW t \in Task, EndTask(t) PROVE AwaitInv'
  BY <1>2 DEF EndTask, AwaitInv
<1>3. ASSUME NEW t \in Task, CleanupTask(t) PROVE AwaitInv'
  BY <1>3 DEF CleanupTask, AwaitInv
<1>4. ASSUME NEW s \in Stopper, NEW t \in Task, StopTask(s, t) PROVE AwaitInv'
  BY <1>4, StopKeeps DEF StopTask
<1>5. ASSUME NEW s \in Stopper, NEW i \in Item, StopItemTasks(s, i) PROVE AwaitInv'
  BY <1>5 DEF StopItemTasks, AwaitInv, taskVars
<1>6. ASSUME NEW s \in Stopper, StopNext(s) PROVE AwaitInv'
  <2>1. CASE pos[s] \in DOMAIN itemTasks[item[s]]
    BY <1>6, <2>1, StopKeeps DEF StopNext
  <2>2. CASE pos[s] \notin DOMAIN itemTasks[item[s]]
    BY <1>6, <2>2 DEF StopNext, AwaitInv
  <2>. QED
    BY <2>1, <2>2
<1>7. ASSUME NEW s \in Stopper, Awake(s) PROVE AwaitInv'
  <2>1. /\ pc' = [pc EXCEPT ![s] = "looping"] \/ pc' = [pc EXCEPT ![s] = "answered"]
        /\ waits' = [waits EXCEPT ![s] = NoTask]
        /\ UNCHANGED <<run, tasks>>
    BY <1>7 DEF Awake, Resume, taskVars
  <2>. QED
    BY <2>1 DEF AwaitInv
<1>8. CASE UNCHANGED vars
  BY <1>8 DEF vars, AwaitInv
<1>. QED
  BY <1>1, <1>2, <1>3, <1>4, <1>5, <1>6, <1>7, <1>8 DEF Next

(* A stopped task is popped once: at most one request awaits it, and it    *)
(* does not come back to `tasks`.                                          *)
THEOREM AwaitedByOne == Spec => []OneAwaiter
<1>1. AwaitInv => OneAwaiter
  BY DEF AwaitInv, OneAwaiter
<1>. QED
  BY <1>1, InitAwaitInv, AwaitInductive, PTL DEF Spec

-----------------------------------------------------------------------------
(***************************************************************************)
(* The lists of item_tasks                                                 *)
(***************************************************************************)

Distinct(ids) == \A m, n \in DOMAIN ids : ids[m] = ids[n] => m = n

(* list.remove takes one id out of a list in which each is once, and what  *)
(* stands before it keeps its index.                                       *)
LEMMA WithoutProperties ==
    ASSUME NEW ids \in Seq(Task), Distinct(ids), NEW t
    PROVE  /\ Without(ids, t) \in Seq(Task)
           /\ Distinct(Without(ids, t))
           /\ ElementsOf(Without(ids, t)) = ElementsOf(ids) \ {t}
           /\ \A n \in DOMAIN ids : (\A m \in 1..n : ids[m] # t) =>
                  n \in DOMAIN Without(ids, t) /\ Without(ids, t)[n] = ids[n]
<1>1. Len(ids) \in Nat /\ DOMAIN ids = 1..Len(ids) /\ \A n \in 1..Len(ids) : ids[n] \in Task
  BY LenProperties, ElementOfSeq
<1>2. CASE t \notin ElementsOf(ids)
  BY <1>2 DEF Without
<1>3. CASE t \in ElementsOf(ids)
  <2>1. PICK k \in 1..Len(ids) : ids[k] = t
    BY <1>1, <1>3 DEF ElementsOf
  <2>. DEFINE first == CHOOSE n \in DOMAIN ids :
                          ids[n] = t /\ \A m \in DOMAIN ids : ids[m] = t => n <= m
  <2>2. \A m \in DOMAIN ids : ids[m] = t => m = k
    BY <1>1, <2>1 DEF Distinct
  <2>3. first = k
    BY <1>1, <2>1, <2>2
  <2>. DEFINE w  == Without(ids, t)
              s1 == SubSeq(ids, 1, k - 1)
              s2 == SubSeq(ids, k + 1, Len(ids))
  <2>4. w = s1 \o s2
    BY <1>3, <2>3 DEF Without
  <2>5. /\ s1 \in Seq(Task) /\ Len(s1) = k - 1
        /\ \A n \in 1..k - 1 : s1[n] = ids[n]
    <3>1. 1 \in Int /\ k - 1 \in Int /\ \A n \in 1..k - 1 : ids[n] \in Task
      BY <1>1, <2>1
    <3>2. /\ s1 \in Seq(Task) /\ Len(s1) = IF 1 <= k - 1 THEN k - 1 - 1 + 1 ELSE 0
          /\ \A n \in 1..k - 1 - 1 + 1 : s1[n] = ids[1 + n - 1]
      BY <3>1, SubSeqProperties
    <3>. QED
      BY <2>1, <3>2
  <2>6. /\ s2 \in Seq(Task) /\ Len(s2) = Len(ids) - k
        /\ \A n \in 1..Len(ids) - k : s2[n] = ids[n + k]
    <3>1. k + 1 \in Int /\ Len(ids) \in Int /\ \A n \in k + 1..Len(ids) : ids[n] \in Task
      BY <1>1, <2>1
    <3>2. /\ s2 \in Seq(Task)
          /\ Len(s2) = IF k + 1 <= Len(ids) THEN Len(ids) - (k + 1) + 1 ELSE 0
          /\ \A n \in 1..Len(ids) - (k + 1) + 1 : s2[n] = ids[k + 1 + n - 1]
      BY <3>1, SubSeqProperties
    <3>3. Len(s2) = Len(ids) - k
      <4>1. \A a, b \in Nat : b <= a =>
                (IF b + 1 <= a THEN a - (b + 1) + 1 ELSE 0) = a - b
        OBVIOUS
      <4>2. k \in Nat /\ k <= Len(ids) /\ Len(ids) \in Nat
        BY <1>1, <2>1
      <4>. QED
        BY ONLY <3>2, <4>1, <4>2
    <3>4. \A n \in 1..Len(ids) - k : s2[n] = ids[n + k]
      <4>1. /\ Len(ids) - (k + 1) + 1 = Len(ids) - k
            /\ \A n \in 1..Len(ids) - k : k + 1 + n - 1 = n + k
        BY <1>1, <2>1
      <4>. QED
        BY <3>2, <4>1
    <3>. QED
      BY <3>2, <3>3, <3>4
  <2>. HIDE DEF s1, s2, first
  <2>7. /\ w \in Seq(Task) /\ Len(w) = Len(ids) - 1
        /\ \A n \in 1..Len(ids) - 1 : w[n] = IF n < k THEN ids[n] ELSE ids[n + 1]
    <3>1. /\ s1 \o s2 \in Seq(Task) /\ Len(s1 \o s2) = Len(s1) + Len(s2)
          /\ \A n \in 1..Len(s1) + Len(s2) :
                 (s1 \o s2)[n] = IF n <= Len(s1) THEN s1[n] ELSE s2[n - Len(s1)]
      BY <2>5, <2>6, ConcatProperties
    <3>2. Len(w) = Len(ids) - 1
      BY <1>1, <2>1, <2>4, <2>5, <2>6, <3>1
    <3>3. ASSUME NEW n \in 1..Len(ids) - 1
          PROVE  w[n] = IF n < k THEN ids[n] ELSE ids[n + 1]
      BY <1>1, <2>1, <2>4, <2>5, <2>6, <3>1
    <3>. QED
      BY <2>4, <3>1, <3>2, <3>3
  <2>. HIDE DEF w
  <2>8. DOMAIN w = 1..Len(ids) - 1
    BY <2>7, LenProperties
  <2>9. Distinct(w)
    <3>. SUFFICES ASSUME NEW m \in 1..Len(ids) - 1, NEW n \in 1..Len(ids) - 1, w[m] = w[n]
                  PROVE  m = n
      BY <2>8 DEF Distinct
    <3>. DEFINE old(n_) == IF n_ < k THEN n_ ELSE n_ + 1
    <3>1. /\ old(m) \in 1..Len(ids) /\ old(n) \in 1..Len(ids)
          /\ w[m] = ids[old(m)] /\ w[n] = ids[old(n)]
      BY <1>1, <2>1, <2>7
    <3>2. old(m) = old(n)
      BY <1>1, <3>1 DEF Distinct
    <3>. QED
      BY <2>1, <3>2
  <2>10. ElementsOf(w) = ElementsOf(ids) \ {t}
    <3>1. ASSUME NEW n \in 1..Len(ids) - 1 PROVE w[n] \in ElementsOf(ids) \ {t}
      <4>1. CASE n < k
        <5>1. w[n] = ids[n] /\ n \in 1..Len(ids) /\ n # k
          BY <1>1, <2>1, <2>7, <4>1
        <5>. QED
          BY <1>1, <2>2, <5>1 DEF ElementsOf
      <4>2. CASE ~(n < k)
        <5>1. w[n] = ids[n + 1] /\ n + 1 \in 1..Len(ids) /\ n + 1 # k
          BY <1>1, <2>1, <2>7, <4>2
        <5>. QED
          BY <1>1, <2>2, <5>1 DEF ElementsOf
      <4>. QED
        BY <4>1, <4>2
    <3>2. ASSUME NEW n \in 1..Len(ids), ids[n] # t PROVE ids[n] \in ElementsOf(w)
      <4>1. CASE n < k
        BY <1>1, <2>1, <2>7, <2>8, <4>1 DEF ElementsOf
      <4>2. CASE ~(n < k)
        <5>1. n - 1 \in 1..Len(ids) - 1 /\ ~(n - 1 < k) /\ w[n - 1] = ids[n]
          <6>1. n # k
            BY <2>1, <3>2
          <6>. QED
            BY <1>1, <2>1, <2>7, <4>2, <6>1
        <5>. QED
          BY <2>8, <5>1 DEF ElementsOf
      <4>. QED
        BY <4>1, <4>2
    <3>. QED
      BY <1>1, <2>8, <3>1, <3>2 DEF ElementsOf
  <2>11. ASSUME NEW n \in DOMAIN ids, \A m \in 1..n : ids[m] # t
         PROVE  n \in DOMAIN w /\ w[n] = ids[n]
    <3>1. n < k
      BY <1>1, <2>1, <2>11
    <3>. QED
      BY <1>1, <2>1, <2>7, <2>8, <3>1
  <2>. QED
    BY <2>7, <2>9, <2>10, <2>11 DEF w
<1>. QED
  BY <1>2, <1>3

(* list.append: the new id comes last.                                     *)
LEMMA AppendedProperties ==
    ASSUME NEW ids \in Seq(Task), Distinct(ids), NEW t \in Task, t \notin ElementsOf(ids)
    PROVE  /\ Append(ids, t) \in Seq(Task)
           /\ Distinct(Append(ids, t))
           /\ ElementsOf(Append(ids, t)) = ElementsOf(ids) \cup {t}
           /\ \A n \in DOMAIN ids :
                  n \in DOMAIN Append(ids, t) /\ Append(ids, t)[n] = ids[n]
<1>. DEFINE a == Append(ids, t)
            k == Len(ids)
<1>1. k \in Nat /\ DOMAIN ids = 1..k
  BY LenProperties
<1>2. /\ a \in Seq(Task) /\ Len(a) = k + 1
      /\ \A n \in 1..k : a[n] = ids[n]
      /\ a[k + 1] = t
  BY AppendProperties
<1>. HIDE DEF a, k
<1>3. DOMAIN a = 1..k + 1
  BY <1>2, LenProperties
<1>4. \A n \in 1..k : ids[n] # t
  BY <1>1 DEF ElementsOf
<1>5. Distinct(a)
  <2>. SUFFICES ASSUME NEW m \in 1..k + 1, NEW n \in 1..k + 1, a[m] = a[n] PROVE m = n
    BY <1>3 DEF Distinct
  <2>1. CASE m \in 1..k /\ n \in 1..k
    BY <1>1, <1>2, <2>1 DEF Distinct
  <2>2. CASE m = k + 1 \/ n = k + 1
    BY <1>1, <1>2, <1>4, <2>2
  <2>. QED
    BY <1>1, <2>1, <2>2
<1>6. ElementsOf(a) = ElementsOf(ids) \cup {t}
  <2>1. \A n \in 1..k + 1 : n \in 1..k \/ n = k + 1
    BY <1>1
  <2>2. 1..k \subseteq 1..k + 1 /\ k + 1 \in 1..k + 1
    BY <1>1
  <2>. QED
    BY <1>1, <1>2, <1>3, <2>1, <2>2 DEF ElementsOf
<1>7. \A n \in DOMAIN ids : n \in DOMAIN a /\ a[n] = ids[n]
  BY <1>1, <1>2, <1>3
<1>. QED
  BY <1>2, <1>5, <1>6, <1>7 DEF a

(* Which tasks are listed, and where: in the one list of their item, once, *)
(* from create_task until their clean-up, whatever stop_task does to       *)
(* `tasks` meanwhile.                                                      *)
ListedOnce ==
    /\ \A i \in Item : Distinct(itemTasks[i])
    /\ \A i \in Item : \A t \in Task :
           t \in ElementsOf(itemTasks[i]) <=>
               run[t] # "none" /\ itemOf[t] = i /\ cleanup[t] # "done"

(* Clean-up is due exactly for the ended tasks, and a task that nobody has *)
(* cancelled is still in `tasks`.                                          *)
Tracked ==
    \A t \in Task :
        /\ run[t] # "none" => itemOf[t] \in Item
        /\ run[t] \in Ended <=> cleanup[t] # "no"
        /\ run[t] = "running" => t \in tasks

TrackInv ==
    /\ TypeOK
    /\ AwaitInv
    /\ ListedOnce
    /\ Tracked
    /\ \A s \in Stopper : pc[s] = "looping" => item[s] \in Item

LEMMA EmptyList == Distinct(<<>>) /\ ElementsOf(<<>>) = {} /\ <<>> \in Seq(Task)
BY EmptySeq DEF Distinct, ElementsOf

LEMMA InitTrackInv == Init => TrackInv
<1>. SUFFICES ASSUME Init PROVE TrackInv
  OBVIOUS
<1>1. TypeOK
  BY EmptyList DEF Init, TypeOK
<1>2. ListedOnce
  BY EmptyList DEF Init, ListedOnce
<1>3. Tracked /\ \A s \in Stopper : pc[s] = "looping" => item[s] \in Item
  BY DEF Init, Tracked
<1>. QED
  BY <1>1, <1>2, <1>3, InitAwaitInv DEF TrackInv

(* How stop_task's body can leave the request: it goes on with the list,   *)
(* is answered, or waits for the task it has just cancelled.               *)
StopGoesOn(s, t) ==
    /\ run[t] \in Ended
    /\ item[s] # NoItem
    /\ pc' = [pc EXCEPT ![s] = "looping"]
    /\ UNCHANGED <<run, waits, reply>>

StopAnswers(s, t) ==
    /\ t \notin tasks \/ run[t] \in Ended
    /\ \E a \in Answers \ {"all"} : Answer(s, a)
    /\ UNCHANGED <<run, waits>>

StopWaits(s, t) ==
    /\ t \in tasks
    /\ run[t] \notin Ended
    /\ run' = [run EXCEPT ![t] = "cancelling"]
    /\ waits' = [waits EXCEPT ![s] = t]
    /\ pc' = [pc EXCEPT ![s] = "awaiting"]
    /\ UNCHANGED reply

LEMMA StopEffect ==
    ASSUME NEW s \in Stopper, NEW t, Stop(s, t)
    PROVE  /\ tasks' = tasks \ {t}
           /\ StopGoesOn(s, t) \/ StopAnswers(s, t) \/ StopWaits(s, t)
<1>1. CASE t \notin tasks
  BY <1>1 DEF Stop, StopAnswers, Answers
<1>2. CASE t \in tasks /\ run[t] \in Ended
  <2>1. UNCHANGED <<run, waits>> /\ tasks' = tasks \ {t} /\ Resume(s, run[t])
    BY <1>2 DEF Stop
  <2>2. StopGoesOn(s, t) \/ StopAnswers(s, t)
    BY <1>2, <2>1 DEF Resume, StopGoesOn, StopAnswers, Answers
  <2>. QED
    BY <2>1, <2>2
<1>3. CASE t \in tasks /\ run[t] \notin Ended
  BY <1>3 DEF Stop, StopWaits
<1>. QED
  BY <1>1, <1>2, <1>3

(* What a request does when the task it awaits has ended.                  *)
LEMMA ResumeEffect ==
    ASSUME NEW s \in Stopper, NEW outcome \in Ended, Resume(s, outcome)
    PROVE  \/ /\ item[s] # NoItem
              /\ pc' = [pc EXCEPT ![s] = "looping"]
              /\ UNCHANGED reply
           \/ \E a \in Answers \ {"all"} : Answer(s, a)
BY DEF Resume, Answers

(* The body of stop_task keeps the tracking of every task.                 *)
LEMMA StopTracks ==
    ASSUME TrackInv, NEW s \in Stopper, NEW t \in Task, Stop(s, t), AwaitInv',
           UNCHANGED <<swallows, itemOf, cleanup, itemTasks, item, listed>>,
           pos' \in [Stopper -> Nat]
    PROVE  TrackInv'
<1>1. tasks' = tasks \ {t} /\ (StopGoesOn(s, t) \/ StopAnswers(s, t) \/ StopWaits(s, t))
  BY StopEffect
<1>2. /\ run' \in [Task -> Ended \cup Alive \cup {"none"}]
      /\ pc' \in [Stopper -> {"idle", "looping", "awaiting", "answered"}]
      /\ tasks' \subseteq Task
      /\ waits' \in [Stopper -> Task \cup {NoTask}]
  BY DEF AwaitInv
<1>3. reply' \in [Stopper -> Answers \cup {"none"}]
  BY <1>1 DEF TrackInv, TypeOK, StopGoesOn, StopAnswers, StopWaits
<1>4. TypeOK'
  BY <1>2, <1>3 DEF TrackInv, TypeOK
<1>5. \A u \in Task : /\ run'[u] = "none" <=> run[u] = "none"
                      /\ run'[u] \in Ended <=> run[u] \in Ended
                      /\ run'[u] = "running" => run[u] = "running" /\ u \in tasks'
  <2>1. run \in [Task -> Ended \cup Alive \cup {"none"}] /\ \A u \in tasks : run[u] # "none"
    BY DEF TrackInv, AwaitInv
  <2>2. CASE run' = run /\ (t \notin tasks \/ run[t] \in Ended)
    <3>1. \A u \in Task : run[u] = "running" => u \in tasks
      BY DEF TrackInv, Tracked
    <3>2. \A u \in Task : run[u] = "running" => u \in tasks'
      BY <1>1, <2>2, <3>1
    <3>. QED
      BY <2>2, <3>2
  <2>4. CASE StopWaits(s, t)
    BY <1>1, <2>1, <2>4 DEF StopWaits, TrackInv, Tracked
  <2>. QED
    BY <1>1, <2>2, <2>4 DEF StopGoesOn, StopAnswers
<1>6. ListedOnce' /\ Tracked'
  BY <1>5 DEF TrackInv, ListedOnce, Tracked
<1>7. \A r \in Stopper : pc'[r] = "looping" => item'[r] \in Item
  BY <1>1 DEF TrackInv, TypeOK, StopGoesOn, StopAnswers, StopWaits
<1>. QED
  BY <1>4, <1>6, <1>7 DEF TrackInv

LEMMA CreateTracks ==
    ASSUME TrackInv, AwaitInv', NEW t \in Task, NEW i \in Item, NEW catches \in BOOLEAN,
           CreateTask(t, i, catches)
    PROVE  TrackInv'
<1>1. /\ run[t] = "none"
      /\ run' = [run EXCEPT ![t] = "running"]
      /\ swallows' = [swallows EXCEPT ![t] = catches]
      /\ itemOf' = [itemOf EXCEPT ![t] = i]
      /\ tasks' = tasks \cup {t}
      /\ itemTasks' = [itemTasks EXCEPT ![i] = Append(itemTasks[i], t)]
      /\ UNCHANGED <<cleanup, pc, waits, item, pos, listed, reply>>
  BY DEF CreateTask
<1>2. TypeOK
  BY DEF TrackInv
<1>3. /\ itemTasks[i] \in Seq(Task)
      /\ Distinct(itemTasks[i])
      /\ t \notin ElementsOf(itemTasks[i])
  BY <1>1, <1>2 DEF TypeOK, TrackInv, ListedOnce
<1>4. /\ itemTasks'[i] \in Seq(Task)
      /\ Distinct(itemTasks'[i])
      /\ ElementsOf(itemTasks'[i]) = ElementsOf(itemTasks[i]) \cup {t}
      /\ \A j \in Item \ {i} : itemTasks'[j] = itemTasks[j]
  BY <1>1, <1>2, <1>3, AppendedProperties DEF TypeOK
<1>5. itemTasks' \in [Item -> Seq(Task)]
  BY <1>1, <1>2, <1>4 DEF TypeOK
<1>6. TypeOK'
  BY <1>1, <1>2, <1>5 DEF TypeOK
<1>7. cleanup[t] = "no"
  BY <1>1, <1>2 DEF TrackInv, Tracked, TypeOK
<1>8. ListedOnce'
  <2>1. \A u \in Task : u # t => run'[u] = run[u] /\ itemOf'[u] = itemOf[u]
    BY <1>1, <1>2 DEF TypeOK
  <2>2. run'[t] = "running" /\ itemOf'[t] = i
    BY <1>1, <1>2 DEF TypeOK
  <2>3. \A j \in Item : Distinct(itemTasks'[j])
    BY <1>4 DEF TrackInv, ListedOnce
  <2>4. \A j \in Item : \A u \in Task : u # t =>
            (u \in ElementsOf(itemTasks'[j]) <=> u \in ElementsOf(itemTasks[j]))
    BY <1>4
  <2>5. \A j \in Item : t \in ElementsOf(itemTasks'[j]) <=> j = i
    BY <1>1, <1>4 DEF TrackInv, ListedOnce
  <2>6. ASSUME NEW j \in Item, NEW u \in Task
        PROVE  u \in ElementsOf(itemTasks'[j]) <=>
                   run'[u] # "none" /\ itemOf'[u] = j /\ cleanup'[u] # "done"
    <3>1. CASE u = t
      BY <1>1, <1>7, <2>2, <2>5, <3>1
    <3>2. CASE u # t
      BY <1>1, <2>1, <2>4, <3>2 DEF TrackInv, ListedOnce
    <3>. QED
      BY <3>1, <3>2
  <2>. QED
    BY <2>3, <2>6 DEF ListedOnce
<1>9. Tracked'
  BY <1>1, <1>2, <1>7 DEF TrackInv, Tracked, TypeOK
<1>. QED
  BY <1>1, <1>6, <1>8, <1>9 DEF TrackInv

LEMMA EndTracks ==
    ASSUME TrackInv, AwaitInv', NEW t \in Task, EndTask(t)
    PROVE  TrackInv'
<1>1. PICK outcome \in Ended : run' = [run EXCEPT ![t] = outcome]
  BY DEF EndTask
<1>2. /\ run[t] \in Alive
      /\ cleanup' = [cleanup EXCEPT ![t] = "due"]
      /\ UNCHANGED <<swallows, itemOf, tasks, itemTasks, pc, waits, item, pos,
                     listed, reply>>
  BY DEF EndTask
<1>3. TypeOK
  BY DEF TrackInv
<1>4. TypeOK'
  BY <1>1, <1>2, <1>3 DEF TypeOK
<1>5. cleanup[t] = "no"
  BY <1>2, <1>3 DEF TrackInv, Tracked, TypeOK
<1>6. \A u \in Task : /\ run'[u] = "none" <=> run[u] = "none"
                      /\ cleanup'[u] = "done" <=> cleanup[u] = "done"
  BY <1>1, <1>2, <1>3, <1>5 DEF TypeOK
<1>7. ListedOnce'
  BY <1>2, <1>6 DEF TrackInv, ListedOnce
<1>8. Tracked'
  BY <1>1, <1>2, <1>3, <1>5 DEF TrackInv, Tracked, TypeOK
<1>. QED
  BY <1>2, <1>4, <1>7, <1>8 DEF TrackInv

(* What cleanup_task does to the lists: the task leaves the one list that  *)
(* holds it, and the tasks listed before it keep their index.              *)
LEMMA CleanupEffect ==
    ASSUME TrackInv, NEW t \in Task, CleanupTask(t)
    PROVE  /\ itemOf[t] \in Item
           /\ run[t] \in Ended
           /\ itemTasks' = [itemTasks EXCEPT ![itemOf[t]] = Without(itemTasks[itemOf[t]], t)]
           /\ itemTasks' \in [Item -> Seq(Task)]
           /\ \A j \in Item :
                  /\ Distinct(itemTasks'[j])
                  /\ ElementsOf(itemTasks'[j]) = ElementsOf(itemTasks[j]) \ {t}
                  /\ \A n \in DOMAIN itemTasks[j] :
                         (\A m \in 1..n : itemTasks[j][m] # t) =>
                             /\ n \in DOMAIN itemTasks'[j]
                             /\ itemTasks'[j][n] = itemTasks[j][n]
<1>. DEFINE i == itemOf[t]
<1>1. /\ cleanup[t] = "due"
      /\ itemTasks' = [itemTasks EXCEPT ![i] = Without(itemTasks[i], t)]
  BY DEF CleanupTask
<1>2. TypeOK
  BY DEF TrackInv
<1>3. i \in Item /\ run[t] \in Ended
  BY <1>1, <1>2 DEF TrackInv, Tracked, TypeOK
<1>4. \A j \in Item : /\ itemTasks[j] \in Seq(Task)
                      /\ Distinct(itemTasks[j])
                      /\ j # i => t \notin ElementsOf(itemTasks[j])
  BY <1>2 DEF TypeOK, TrackInv, ListedOnce
<1>5. /\ Without(itemTasks[i], t) \in Seq(Task)
      /\ Distinct(Without(itemTasks[i], t))
      /\ ElementsOf(Without(itemTasks[i], t)) = ElementsOf(itemTasks[i]) \ {t}
      /\ \A n \in DOMAIN itemTasks[i] :
             (\A m \in 1..n : itemTasks[i][m] # t) =>
                 /\ n \in DOMAIN Without(itemTasks[i], t)
                 /\ Without(itemTasks[i], t)[n] = itemTasks[i][n]
  BY <1>3, <1>4, WithoutProperties
<1>. HIDE DEF i
<1>6. /\ itemTasks'[i] = Without(itemTasks[i], t)
      /\ \A j \in Item : j # i => itemTasks'[j] = itemTasks[j]
  BY <1>1, <1>2, <1>3 DEF TypeOK
<1>7. itemTasks' \in [Item -> Seq(Task)]
  BY <1>1, <1>2, <1>5 DEF TypeOK
<1>8. ASSUME NEW j \in Item
      PROVE  /\ Distinct(itemTasks'[j])
             /\ ElementsOf(itemTasks'[j]) = ElementsOf(itemTasks[j]) \ {t}
             /\ \A n \in DOMAIN itemTasks[j] :
                    (\A m \in 1..n : itemTasks[j][m] # t) =>
                        /\ n \in DOMAIN itemTasks'[j]
                        /\ itemTasks'[j][n] = itemTasks[j][n]
  <2>1. CASE j = i
    BY <1>5, <1>6, <2>1
  <2>2. CASE j # i
    BY <1>4, <1>6, <2>2
  <2>. QED
    BY <2>1, <2>2
<1>. QED
  BY <1>1, <1>3, <1>7, <1>8 DEF i

LEMMA CleanupTracks ==
    ASSUME TrackInv, AwaitInv', NEW t \in Task, CleanupTask(t)
    PROVE  TrackInv'
<1>1. /\ cleanup[t] = "due"
      /\ cleanup' = [cleanup EXCEPT ![t] = "done"]
      /\ tasks' = tasks \ {t}
      /\ UNCHANGED <<run, swallows, itemOf, pc, waits, item, listed, reply>>
  BY DEF CleanupTask
<1>2. TypeOK
  BY DEF TrackInv
<1>3. pos' \in [Stopper -> Nat]
  BY <1>2 DEF CleanupTask, TypeOK
<1>4. TypeOK'
  BY <1>1, <1>2, <1>3, CleanupEffect DEF TypeOK
<1>5. ListedOnce'
  <2>1. \A u \in Task : cleanup'[u] = IF u = t THEN "done" ELSE cleanup[u]
    BY <1>1, <1>2 DEF TypeOK
  <2>2. ASSUME NEW j \in Item, NEW u \in Task
        PROVE  u \in ElementsOf(itemTasks'[j]) <=>
                   run'[u] # "none" /\ itemOf'[u] = j /\ cleanup'[u] # "done"
    <3>1. ElementsOf(itemTasks'[j]) = ElementsOf(itemTasks[j]) \ {t}
      BY CleanupEffect
    <3>2. u \in ElementsOf(itemTasks[j]) <=>
              run[u] # "none" /\ itemOf[u] = j /\ cleanup[u] # "done"
      BY DEF TrackInv, ListedOnce
    <3>3. run'[u] = run[u] /\ itemOf'[u] = itemOf[u]
      BY <1>1
    <3>. QED
      BY <2>1, <3>1, <3>2, <3>3
  <2>. QED
    BY <2>2, CleanupEffect DEF ListedOnce
<1>6. Tracked'
  BY <1>1, <1>2, CleanupEffect DEF TrackInv, Tracked, TypeOK
<1>. QED
  BY <1>1, <1>4, <1>5, <1>6 DEF TrackInv

LEMMA StopNextTracks ==
    ASSUME TrackInv, AwaitInv', NEW s \in Stopper, StopNext(s)
    PROVE  TrackInv'
<1>. DEFINE ids == itemTasks[item[s]]
<1>1. /\ pc[s] = "looping"
      /\ UNCHANGED <<swallows, itemOf, cleanup, itemTasks, item, listed>>
  BY DEF StopNext
<1>2. TypeOK
  BY DEF TrackInv
<1>3. CASE pos[s] \in DOMAIN ids
  <2>1. Stop(s, ids[pos[s]]) /\ pos' = [pos EXCEPT ![s] = pos[s] + 1]
    BY <1>3 DEF StopNext
  <2>2. ids[pos[s]] \in Task
    <3>1. ids \in Seq(Task)
      BY <1>1, <1>2 DEF TrackInv, TypeOK
    <3>. QED
      BY <1>3, <3>1, ElementOfSeq, LenProperties
  <2>3. pos' \in [Stopper -> Nat]
    BY <1>2, <2>1 DEF TypeOK
  <2>. HIDE DEF ids
  <2>. QED
    BY <1>1, <2>1, <2>2, <2>3, StopTracks
<1>4. CASE pos[s] \notin DOMAIN ids
  <2>1. Answer(s, "all") /\ UNCHANGED <<run, tasks, waits, pos>>
    BY <1>4 DEF StopNext
  <2>2. TypeOK'
    BY <1>1, <1>2, <2>1 DEF TypeOK, Answers
  <2>3. ListedOnce' /\ Tracked'
    BY <1>1, <2>1 DEF TrackInv, ListedOnce, Tracked
  <2>. QED
    BY <1>1, <1>2, <2>1, <2>2, <2>3 DEF TrackInv, TypeOK
<1>. QED
  BY <1>3, <1>4

LEMMA TrackInductive == TrackInv /\ [Next]_vars => TrackInv'
<1>. SUFFICES ASSUME TrackInv, [Next]_vars PROVE TrackInv'
  OBVIOUS
<1>1. AwaitInv'
  BY AwaitInductive DEF TrackInv
<1>2. TypeOK
  BY DEF TrackInv
<1>3. ASSUME NEW s \in Stopper, NEW t \in Task, StopTask(s, t) PROVE TrackInv'
  BY <1>1, <1>2, <1>3, StopTracks DEF StopTask, TypeOK
<1>4. ASSUME NEW s \in Stopper, NEW i \in Item, StopItemTasks(s, i) PROVE TrackInv'
  <2>1. /\ UNCHANGED <<taskVars, waits>>
        /\ item' = [item EXCEPT ![s] = i]
        /\ listed' = [listed EXCEPT ![s] = ElementsOf(itemTasks[i])]
        /\ \/ Answer(s, "no tasks") /\ UNCHANGED pos
           \/ /\ pc' = [pc EXCEPT ![s] = "looping"]
              /\ pos' = [pos EXCEPT ![s] = 1]
              /\ UNCHANGED reply
    BY <1>4 DEF StopItemTasks
  <2>2. ElementsOf(itemTasks[i]) \subseteq Task
    <3>1. itemTasks[i] \in Seq(Task)
      BY <1>2 DEF TypeOK
    <3>. QED
      BY <3>1, ElementOfSeq, LenProperties DEF ElementsOf
  <2>3. pc' \in [Stopper -> {"idle", "looping", "awaiting", "answered"}]
    BY <1>1 DEF AwaitInv
  <2>4. TypeOK'
    <3>1. item' \in [Stopper -> Item \cup {NoItem}]
      BY <1>2, <2>1 DEF TypeOK
    <3>2. listed' \in [Stopper -> SUBSET Task]
      BY <1>2, <2>1, <2>2 DEF TypeOK
    <3>3. reply' \in [Stopper -> Answers \cup {"none"}]
      BY <1>2, <2>1 DEF TypeOK, Answers
    <3>4. pos' \in [Stopper -> Nat]
      <4>1. pos \in [Stopper -> Nat]
        BY <1>2 DEF TypeOK
      <4>2. pos' = pos \/ pos' = [pos EXCEPT ![s] = 1]
        BY ONLY <2>1
      <4>. QED
        BY ONLY <4>1, <4>2
    <3>. QED
      BY <1>2, <2>1, <2>3, <3>1, <3>2, <3>3, <3>4 DEF TypeOK, taskVars
  <2>5. ListedOnce' /\ Tracked'
    BY <2>1 DEF TrackInv, ListedOnce, Tracked, taskVars
  <2>6. \A r \in Stopper : pc'[r] = "looping" => item'[r] \in Item
    BY <1>2, <2>1 DEF TrackInv, TypeOK
  <2>. QED
    BY <1>1, <2>4, <2>5, <2>6 DEF TrackInv
<1>5. ASSUME NEW s \in Stopper, Awake(s) PROVE TrackInv'
  <2>1. /\ run[waits[s]] \in Ended
        /\ Resume(s, run[waits[s]])
        /\ waits' = [waits EXCEPT ![s] = NoTask]
        /\ UNCHANGED <<taskVars, item, pos, listed>>
    BY <1>5 DEF Awake
  <2>2. \/ /\ item[s] # NoItem
           /\ pc' = [pc EXCEPT ![s] = "looping"]
           /\ UNCHANGED reply
        \/ \E a \in Answers \ {"all"} : Answer(s, a)
    BY <2>1, ResumeEffect
  <2>3. TypeOK'
    BY <1>1, <1>2, <2>1, <2>2 DEF TypeOK, taskVars, AwaitInv
  <2>4. ListedOnce' /\ Tracked'
    BY <2>1 DEF TrackInv, ListedOnce, Tracked, taskVars
  <2>5. \A r \in Stopper : pc'[r] = "looping" => item'[r] \in Item
    BY <1>2, <2>1, <2>2 DEF TrackInv, TypeOK
  <2>. QED
    BY <1>1, <2>3, <2>4, <2>5 DEF TrackInv
<1>6. CASE UNCHANGED vars
  BY <1>1, <1>6 DEF vars, TrackInv, TypeOK, ListedOnce, Tracked
<1>. QED
  BY <1>1, <1>3, <1>4, <1>5, <1>6, CreateTracks, EndTracks, CleanupTracks, StopNextTracks
  DEF Next

LEMMA TrackInvariant == Spec => []TrackInv
BY InitTrackInv, TrackInductive, PTL DEF Spec

(* The types of LocalTasks.                                                *)
THEOREM TypeCorrect == Spec => []TypeOK
<1>1. TrackInv => TypeOK
  BY DEF TrackInv
<1>. QED
  BY <1>1, TrackInvariant, PTL

(* A coroutine that nobody has cancelled is in `tasks` and once in the     *)
(* list of its item: neither cleanup_task nor a stop request takes the     *)
(* id of another task out.                                                 *)
THEOREM RunningIsTracked == Spec => []RunningTracked
<1>1. TrackInv => RunningTracked
  <2>. SUFFICES ASSUME TrackInv, NEW t \in Task, run[t] = "running"
                PROVE  /\ t \in tasks
                       /\ \E n \in DOMAIN itemTasks[itemOf[t]] :
                              /\ itemTasks[itemOf[t]][n] = t
                              /\ \A m \in DOMAIN itemTasks[itemOf[t]] \ {n} :
                                     itemTasks[itemOf[t]][m] # t
    BY DEF RunningTracked
  <2>1. t \in tasks /\ itemOf[t] \in Item /\ cleanup[t] = "no"
    BY DEF TrackInv, Tracked, TypeOK
  <2>2. t \in ElementsOf(itemTasks[itemOf[t]]) /\ Distinct(itemTasks[itemOf[t]])
    BY <2>1 DEF TrackInv, ListedOnce
  <2>3. PICK n \in DOMAIN itemTasks[itemOf[t]] : itemTasks[itemOf[t]][n] = t
    BY <2>2 DEF ElementsOf
  <2>. QED
    BY <2>1, <2>2, <2>3 DEF Distinct
<1>. QED
  BY <1>1, TrackInvariant, PTL

-----------------------------------------------------------------------------
(***************************************************************************)
(* The loop of stop_item_tasks                                             *)
(***************************************************************************)

(* A `for` keeps the event loop while it does not wait: one at a time.     *)
OneLoop == \A r, s \in Stopper : pc[r] = "looping" /\ pc[s] = "looping" => r = s

Requests ==
    \A s \in Stopper :
        /\ pc[s] = "idle" => item[s] = NoItem
        /\ pc[s] # "answered" => reply[s] = "none"
        /\ reply[s] = "all" => item[s] # NoItem
        /\ \A t \in listed[s] : run[t] # "none"

Few(s) == \A t, u, v \in listed[s] : t = u \/ u = v \/ t = v

(* Where the loop of a request over at most two tasks can be: about to     *)
(* fetch the first; past the first, which is ended or awaited and still    *)
(* holds index 1, so that a second one still alive is at index 2; past     *)
(* both, when only the one it awaits is alive.                             *)
AtFirst(s) ==
    /\ pc[s] = "looping" /\ pos[s] = 1
    /\ listed[s] = ElementsOf(itemTasks[item[s]])

AtSecond(s) ==
    LET ids == itemTasks[item[s]] IN
    /\ pos[s] = 2
    /\ 1 \in DOMAIN ids
    /\ pc[s] = "awaiting" => waits[s] = ids[1]
    /\ pc[s] = "looping" => run[ids[1]] \in Ended
    /\ \A t \in listed[s] : run[t] \in Alive =>
           t = ids[1] \/ (2 \in DOMAIN ids /\ t = ids[2])

PastBoth(s) ==
    \A t \in listed[s] : run[t] \in Alive => pc[s] = "awaiting" /\ waits[s] = t

LoopPlace(s) ==
    item[s] # NoItem /\ Few(s) =>
        /\ pc[s] \in {"looping", "awaiting"} => AtFirst(s) \/ AtSecond(s) \/ PastBoth(s)
        /\ reply[s] = "all" => \A t \in listed[s] : run[t] \notin Alive

PairInv ==
    /\ TrackInv
    /\ OneLoop
    /\ Requests
    /\ \A s \in Stopper : LoopPlace(s)

LEMMA InitPairInv == Init => PairInv
BY InitTrackInv DEF Init, PairInv, OneLoop, Requests, LoopPlace

(* What every step does to a task: it does not vanish, does not come back  *)
(* to life, and its id is not reused.                                      *)
Ageing ==
    \A t \in Task : /\ run[t] # "none" => run'[t] # "none"
                    /\ run[t] \in Ended => run'[t] \in Ended
                    /\ run[t] # "none" /\ run'[t] \in Alive => run[t] \in Alive

LEMMA TasksAge == TrackInv /\ [Next]_vars => Ageing
<1>. SUFFICES ASSUME TrackInv, [Next]_vars PROVE Ageing
  OBVIOUS
<1>1. /\ run \in [Task -> Ended \cup Alive \cup {"none"}]
      /\ \A t \in tasks : t \in Task /\ run[t] # "none"
  BY DEF TrackInv, AwaitInv
<1>. SUFFICES ASSUME \/ UNCHANGED run
                     \/ \E t \in Task : \/ run[t] = "none" /\ run' = [run EXCEPT ![t] = "running"]
                                        \/ \E e \in Ended : /\ run[t] \in Alive
                                                            /\ run' = [run EXCEPT ![t] = e]
                                        \/ /\ run[t] \notin Ended \cup {"none"}
                                           /\ run' = [run EXCEPT ![t] = "cancelling"]
              PROVE  Ageing
  <2>1. ASSUME NEW s \in Stopper, NEW t, Stop(s, t)
        PROVE  \/ UNCHANGED run
               \/ /\ t \in Task /\ run[t] \notin Ended \cup {"none"}
                  /\ run' = [run EXCEPT ![t] = "cancelling"]
    BY <1>1, <2>1, StopEffect DEF StopGoesOn, StopAnswers, StopWaits
  <2>2. ASSUME NEW s \in Stopper, StopNext(s)
        PROVE  \/ UNCHANGED run
               \/ \E t \in Task : /\ run[t] \notin Ended \cup {"none"}
                                  /\ run' = [run EXCEPT ![t] = "cancelling"]
    BY <2>1, <2>2 DEF StopNext
  <2>3. ASSUME NEW s \in Stopper, NEW t \in Task, StopTask(s, t)
        PROVE  \/ UNCHANGED run
               \/ /\ run[t] \notin Ended \cup {"none"}
                  /\ run' = [run EXCEPT ![t] = "cancelling"]
    BY <2>1, <2>3 DEF StopTask
  <2>. QED
    BY <2>2, <2>3
    DEF Next, vars, taskVars, CreateTask, EndTask, CleanupTask, StopItemTasks, Awake
<1>. QED
  BY <1>1 DEF Ageing

(* A step that is not the request's own leaves its place in the loop: the  *)
(* list under its index keeps what the request has still to reach.         *)
LEMMA OthersKeepPlace ==
    ASSUME PairInv, NEW s \in Stopper, Ageing,
           pc'[s] = pc[s], waits'[s] = waits[s], item'[s] = item[s],
           pos'[s] = pos[s] \/ ~(1 \in DOMAIN itemTasks'[item[s]]),
           listed'[s] = listed[s], reply'[s] = reply[s],
           pc[s] = "looping" => UNCHANGED <<itemTasks, pos>>,
           1 \in DOMAIN itemTasks[item[s]] /\ waits[s] = itemTasks[item[s]][1] /\ pc[s] = "awaiting" =>
               /\ 1 \in DOMAIN itemTasks'[item[s]]
               /\ itemTasks'[item[s]][1] = waits[s]
               /\ \A t \in Task :
                      run'[t] \in Alive /\ 2 \in DOMAIN itemTasks[item[s]]
                          /\ t = itemTasks[item[s]][2] =>
                          2 \in DOMAIN itemTasks'[item[s]] /\ itemTasks'[item[s]][2] = t
    PROVE  LoopPlace(s)'
<1>. SUFFICES ASSUME item[s] # NoItem, Few(s)
              PROVE  /\ pc[s] \in {"looping", "awaiting"} =>
                            AtFirst(s)' \/ AtSecond(s)' \/ PastBoth(s)'
                     /\ reply[s] = "all" => \A t \in listed[s] : run'[t] \notin Alive
  BY DEF LoopPlace, Few
<1>1. \A t \in listed[s] : t \in Task /\ (run'[t] \in Alive => run[t] \in Alive)
  BY DEF PairInv, TrackInv, TypeOK, Requests, Ageing
<1>2. reply[s] = "all" => \A t \in listed[s] : run'[t] \notin Alive
  BY <1>1 DEF PairInv, LoopPlace
<1>3. CASE pc[s] = "looping" /\ AtFirst(s)
  BY <1>2, <1>3 DEF AtFirst
<1>4. CASE pc[s] \in {"looping", "awaiting"} /\ PastBoth(s)
  BY <1>1, <1>2, <1>4 DEF PastBoth
<1>5. CASE pc[s] = "looping" /\ AtSecond(s)
  <2>. DEFINE ids == itemTasks[item[s]]
  <2>1. ids[1] \in Task
    <3>1. item[s] \in Item /\ ids \in Seq(Task)
      BY DEF PairInv, TrackInv, TypeOK
    <3>. QED
      BY <1>5, <3>1, ElementOfSeq, LenProperties DEF AtSecond
  <2>2. run'[ids[1]] \in Ended
    BY <1>5, <2>1 DEF AtSecond, Ageing
  <2>. QED
    BY <1>1, <1>2, <1>5, <2>2 DEF AtSecond
<1>6. CASE pc[s] = "awaiting" /\ AtSecond(s)
  <2>1. 1 \in DOMAIN itemTasks[item[s]] /\ waits[s] = itemTasks[item[s]][1]
    BY <1>6 DEF AtSecond
  <2>2. pos'[s] = 2
    BY <1>6, <2>1 DEF AtSecond
  <2>3. \A t \in listed[s] : run'[t] \in Alive =>
            \/ t = itemTasks'[item[s]][1]
            \/ 2 \in DOMAIN itemTasks'[item[s]] /\ t = itemTasks'[item[s]][2]
    BY <1>1, <1>6, <2>1 DEF AtSecond
  <2>. QED
    BY <1>2, <1>6, <2>1, <2>2, <2>3 DEF AtSecond
<1>. QED
  BY <1>2, <1>3, <1>4, <1>5, <1>6 DEF PairInv, LoopPlace, AtFirst

(* The body of stop_task leaves the places of the other requests.          *)
LEMMA StopOthersPlace ==
    ASSUME PairInv, TrackInv', Ageing, NEW s \in Stopper, NEW t \in Task, Stop(s, t),
           pc[s] \in {"idle", "looping"},
           \A r \in Stopper \ {s} : pc[r] # "looping" /\ pos'[r] = pos[r],
           UNCHANGED <<itemTasks, item, listed>>
    PROVE  OneLoop' /\ Requests' /\ \A r \in Stopper \ {s} : LoopPlace(r)'
<1>1. StopGoesOn(s, t) \/ StopAnswers(s, t) \/ StopWaits(s, t)
  BY StopEffect
<1>2. /\ pc \in [Stopper -> {"idle", "looping", "awaiting", "answered"}]
      /\ waits \in [Stopper -> Task \cup {NoTask}]
      /\ reply \in [Stopper -> Answers \cup {"none"}]
      /\ listed \in [Stopper -> SUBSET Task]
  BY DEF PairInv, TrackInv, TypeOK
<1>3. \A r \in Stopper \ {s} : pc'[r] = pc[r] /\ waits'[r] = waits[r] /\ reply'[r] = reply[r]
  BY <1>1, <1>2 DEF StopGoesOn, StopAnswers, StopWaits
<1>4. OneLoop'
  BY <1>3 DEF OneLoop
<1>5. pc'[s] # "idle" /\ (pc'[s] # "answered" => reply'[s] = reply[s]) /\ reply'[s] # "all"
  <2>1. reply[s] = "none"
    BY DEF PairInv, Requests
  <2>2. CASE StopGoesOn(s, t)
    BY <1>2, <2>1, <2>2 DEF StopGoesOn
  <2>3. CASE StopAnswers(s, t)
    BY <1>2, <2>3 DEF StopAnswers
  <2>4. CASE StopWaits(s, t)
    BY <1>2, <2>1, <2>4 DEF StopWaits
  <2>. QED
    BY <1>1, <2>2, <2>3, <2>4
<1>6. Requests'
  BY <1>2, <1>3, <1>5 DEF PairInv, Requests, Ageing
<1>7. ASSUME NEW r \in Stopper \ {s} PROVE LoopPlace(r)'
  BY <1>3, OthersKeepPlace
<1>. QED
  BY <1>4, <1>6, <1>7

LEMMA CleanupKeepsPlaces ==
    ASSUME PairInv, Ageing, NEW u \in Task, CleanupTask(u)
    PROVE  OneLoop' /\ Requests' /\ \A s \in Stopper : LoopPlace(s)'
<1>1. /\ LoopFree
      /\ \A s \in Stopper : waits[s] # u
      /\ pos' = [s \in Stopper |->
                     IF Without(itemTasks[itemOf[u]], u) = <<>> /\ item[s] = itemOf[u]
                     THEN 0 ELSE pos[s]]
      /\ UNCHANGED <<run, pc, waits, item, listed, reply>>
  BY DEF CleanupTask
<1>2. TrackInv /\ TypeOK
  BY DEF PairInv, TrackInv
<1>3. OneLoop' /\ Requests'
  BY <1>1 DEF PairInv, OneLoop, Requests
<1>4. ASSUME NEW s \in Stopper PROVE LoopPlace(s)'
  <2>. DEFINE ids == itemTasks[item[s]]
              left == itemTasks'[item[s]]
  <2>1. CASE item[s] = NoItem
    BY <1>1, <2>1 DEF LoopPlace
  <2>2. CASE item[s] \in Item
    <3>1. \A n \in DOMAIN ids : (\A m \in 1..n : ids[m] # u) =>
              n \in DOMAIN left /\ left[n] = ids[n]
      BY <1>2, <2>2, CleanupEffect
    <3>2. pos'[s] = pos[s] \/ ~(1 \in DOMAIN left)
      <4>1. CASE Without(itemTasks[itemOf[u]], u) = <<>> /\ item[s] = itemOf[u]
        <5>1. left = <<>>
          BY <1>2, <2>2, <4>1, CleanupEffect DEF TypeOK
        <5>. QED
          BY <5>1
      <4>2. CASE ~(Without(itemTasks[itemOf[u]], u) = <<>> /\ item[s] = itemOf[u])
        BY <1>1, <4>2
      <4>. QED
        BY <4>1, <4>2
    <3>3. ASSUME 1 \in DOMAIN ids, waits[s] = ids[1]
          PROVE  /\ 1 \in DOMAIN left /\ left[1] = waits[s]
                 /\ \A t \in Task : run'[t] \in Alive /\ 2 \in DOMAIN ids /\ t = ids[2] =>
                        2 \in DOMAIN left /\ left[2] = t
      <4>1. ids[1] # u
        BY <1>1, <3>3
      <4>2. 1 \in DOMAIN left /\ left[1] = ids[1]
        <5>1. \A m \in 1..1 : m = 1
          OBVIOUS
        <5>. QED
          BY <3>1, <3>3, <4>1, <5>1
      <4>3. ASSUME NEW t \in Task, run[t] \in Alive, 2 \in DOMAIN ids, t = ids[2]
            PROVE  2 \in DOMAIN left /\ left[2] = t
        <5>1. run[u] \in Ended
          BY <1>2, CleanupEffect
        <5>2. ids[2] # u
          BY <4>3, <5>1
        <5>3. \A m \in 1..2 : m = 1 \/ m = 2
          OBVIOUS
        <5>. QED
          BY <3>1, <4>1, <4>3, <5>2, <5>3
      <4>. QED
        BY <1>1, <3>3, <4>2, <4>3
    <3>. HIDE DEF left, ids
    <3>4. pc[s] # "looping"
      BY <1>1 DEF LoopFree
    <3>5. /\ pc'[s] = pc[s] /\ waits'[s] = waits[s] /\ item'[s] = item[s]
          /\ listed'[s] = listed[s] /\ reply'[s] = reply[s]
      BY <1>1
    <3>. QED
      BY <3>2, <3>3, <3>4, <3>5, OthersKeepPlace DEF ids, left
  <2>. QED
    BY <1>2, <2>1, <2>2 DEF TypeOK
<1>. QED
  BY <1>3, <1>4

LEMMA CreateKeepsPlaces ==
    ASSUME PairInv, Ageing, NEW u \in Task, NEW i \in Item, NEW catches \in BOOLEAN,
           CreateTask(u, i, catches)
    PROVE  OneLoop' /\ Requests' /\ \A s \in Stopper : LoopPlace(s)'
<1>1. /\ LoopFree
      /\ run[u] = "none"
      /\ itemTasks' = [itemTasks EXCEPT ![i] = Append(itemTasks[i], u)]
      /\ UNCHANGED <<cleanup, pc, waits, item, pos, listed, reply>>
  BY DEF CreateTask
<1>2. TrackInv /\ TypeOK
  BY DEF PairInv, TrackInv
<1>3. OneLoop' /\ Requests'
  <2>1. \A s \in Stopper : listed[s] \subseteq Task
    BY <1>2 DEF TypeOK
  <2>. QED
    BY <1>1, <2>1 DEF PairInv, OneLoop, Requests, Ageing
<1>4. ASSUME NEW s \in Stopper PROVE LoopPlace(s)'
  <2>1. CASE item[s] = NoItem
    BY <1>1, <2>1 DEF LoopPlace
  <2>2. CASE item[s] \in Item
    <3>1. \A n \in DOMAIN itemTasks[item[s]] :
              /\ n \in DOMAIN itemTasks'[item[s]]
              /\ itemTasks'[item[s]][n] = itemTasks[item[s]][n]
      <4>1. CASE item[s] = i
        <5>1. itemTasks[i] \in Seq(Task) /\ Distinct(itemTasks[i]) /\ u \notin ElementsOf(itemTasks[i])
          BY <1>1, <1>2 DEF TrackInv, TypeOK, ListedOnce
        <5>2. itemTasks'[i] = Append(itemTasks[i], u)
          BY <1>1, <1>2 DEF TypeOK
        <5>. QED
          BY <4>1, <5>1, <5>2, AppendedProperties
      <4>2. CASE item[s] # i
        BY <1>1, <1>2, <2>2, <4>2 DEF TypeOK
      <4>. QED
        BY <4>1, <4>2
    <3>2. pc[s] # "looping"
      BY <1>1 DEF LoopFree
    <3>. QED
      BY <1>1, <3>1, <3>2, OthersKeepPlace
  <2>. QED
    BY <1>2, <2>1, <2>2 DEF TypeOK
<1>. QED
  BY <1>3, <1>4

(* The loop's own step, over at most two tasks: after the first it holds   *)
(* the second, and after the second nothing that it listed runs on but the *)
(* task it awaits.                                                         *)
LEMMA StopNextPlace ==
    ASSUME PairInv, TrackInv', Ageing, NEW s \in Stopper, StopNext(s)
    PROVE  LoopPlace(s)'
<1>. DEFINE ids == itemTasks[item[s]]
<1>1. pc[s] = "looping" /\ reply[s] = "none" /\ item[s] \in Item
  BY DEF StopNext, PairInv, TrackInv, Requests
<1>2. UNCHANGED <<swallows, itemOf, cleanup, itemTasks, item, listed>>
  BY DEF StopNext
<1>3. TrackInv /\ TypeOK
  BY DEF PairInv, TrackInv
<1>4. /\ ids \in Seq(Task) /\ Distinct(ids)
      /\ \A n \in DOMAIN ids : ids[n] \in Task /\ run[ids[n]] # "none"
  <2>1. ids \in Seq(Task) /\ Distinct(ids)
    BY <1>1, <1>3 DEF TypeOK, TrackInv, ListedOnce
  <2>2. ASSUME NEW n \in DOMAIN ids PROVE ids[n] \in Task /\ run[ids[n]] # "none"
    <3>1. ids[n] \in Task /\ ids[n] \in ElementsOf(ids)
      BY <2>1, <2>2, ElementOfSeq, LenProperties DEF ElementsOf
    <3>. QED
      BY <1>1, <1>3, <3>1 DEF TrackInv, ListedOnce
  <2>. QED
    BY <2>1, <2>2
<1>. HIDE DEF ids
<1>. SUFFICES ASSUME Few(s)
              PROVE  /\ pc'[s] \in {"looping", "awaiting"} =>
                            AtFirst(s)' \/ AtSecond(s)' \/ PastBoth(s)'
                     /\ reply'[s] = "all" => \A t \in listed[s] : run'[t] \notin Alive
  BY <1>2 DEF LoopPlace, Few
<1>5. \A t \in listed[s] : t \in Task /\ (run'[t] \in Alive => run[t] \in Alive)
  BY <1>3 DEF PairInv, TypeOK, Requests, Ageing
<1>6. AtFirst(s) \/ AtSecond(s) \/ PastBoth(s)
  BY <1>1, LocalAssumption DEF PairInv, LoopPlace, LocalAssumption
<1>7. CASE pos[s] \notin DOMAIN ids
  <2>1. pc'[s] = "answered" /\ UNCHANGED run
    BY <1>3, <1>7 DEF StopNext, TypeOK, ids
  <2>2. CASE AtFirst(s)
    <3>1. listed[s] = {}
      <4>1. pos[s] = 1 /\ listed[s] = ElementsOf(ids)
        BY <2>2 DEF AtFirst, ids
      <4>2. DOMAIN ids = {}
        BY <1>4, <1>7, <4>1, LenProperties
      <4>. QED
        BY <4>1, <4>2 DEF ElementsOf
    <3>. QED
      BY <2>1, <3>1
  <2>3. CASE AtSecond(s)
    BY <1>1, <1>7, <2>1, <2>3 DEF AtSecond, ids
  <2>4. CASE PastBoth(s)
    BY <1>1, <2>1, <2>4 DEF PastBoth
  <2>. QED
    BY <1>6, <2>2, <2>3, <2>4
<1>8. CASE pos[s] \in DOMAIN ids
  <2>. DEFINE t == ids[pos[s]]
  <2>1. Stop(s, t) /\ pos'[s] = pos[s] + 1
    BY <1>3, <1>8 DEF StopNext, TypeOK, ids
  <2>2. t \in Task /\ run[t] # "none"
    BY <1>4, <1>8
  <2>. HIDE DEF t
  <2>3. StopGoesOn(s, t) \/ StopAnswers(s, t) \/ StopWaits(s, t)
    BY <2>1, StopEffect
  <2>4. reply'[s] # "all"
    BY <1>1, <1>3, <2>3 DEF TypeOK, StopGoesOn, StopAnswers, StopWaits
  <2>5. CASE StopAnswers(s, t)
    BY <1>3, <2>4, <2>5 DEF TypeOK, StopAnswers
  <2>6. CASE StopGoesOn(s, t) \/ StopWaits(s, t)
    <3>1. \/ pc'[s] = "looping" /\ run[t] \in Ended /\ UNCHANGED run
          \/ pc'[s] = "awaiting" /\ waits'[s] = t /\ run[t] \in Alive
      BY <1>3, <2>2, <2>6 DEF TypeOK, StopGoesOn, StopWaits
    <3>2. CASE AtFirst(s)
      <4>1. pos[s] = 1 /\ listed[s] = ElementsOf(ids)
        BY <3>2 DEF AtFirst, ids
      <4>2. \A u \in listed[s] : u = ids[1] \/ (2 \in DOMAIN ids /\ u = ids[2])
        <5>1. DOMAIN ids = 1..Len(ids) /\ Len(ids) \in Nat
          BY <1>4, LenProperties
        <5>. SUFFICES ASSUME NEW n \in 1..Len(ids), n > 2 PROVE FALSE
          BY <4>1, <5>1 DEF ElementsOf
        <5>2. 1 \in 1..Len(ids) /\ 2 \in 1..Len(ids)
          BY <5>1
        <5>3. ids[1] \in listed[s] /\ ids[2] \in listed[s] /\ ids[n] \in listed[s]
          BY <4>1, <5>1, <5>2 DEF ElementsOf
        <5>4. ids[1] # ids[2] /\ ids[2] # ids[n] /\ ids[1] # ids[n]
          BY <1>4, <5>1, <5>2 DEF Distinct
        <5>. QED
          BY <5>3, <5>4 DEF Few
      <4>3. AtSecond(s)'
        BY <1>2, <1>8, <2>1, <3>1, <4>1, <4>2 DEF AtSecond, ids, t
      <4>. QED
        BY <2>4, <4>3
    <3>3. CASE AtSecond(s)
      <4>1. \A u \in listed[s] : run'[u] \in Alive => u = t
        <5>1. run[ids[1]] \in Ended /\ pos[s] = 2
          BY <1>1, <3>3 DEF AtSecond, ids
        <5>. QED
          BY <1>5, <3>3, <5>1 DEF AtSecond, ids, t
      <4>2. PastBoth(s)'
        BY <1>2, <3>1, <4>1 DEF PastBoth
      <4>. QED
        BY <2>4, <4>2
    <3>4. CASE PastBoth(s)
      <4>1. \A u \in listed[s] : run'[u] \notin Alive
        BY <1>1, <1>5, <3>4 DEF PastBoth
      <4>. QED
        BY <1>2, <2>4, <4>1 DEF PastBoth
    <3>. QED
      BY <1>6, <3>2, <3>3, <3>4
  <2>. QED
    BY <2>3, <2>5, <2>6
<1>. QED
  BY <1>7, <1>8

LEMMA PairInductive == PairInv /\ [Next]_vars => PairInv'
<1>. SUFFICES ASSUME PairInv, [Next]_vars PROVE PairInv'
  OBVIOUS
<1>1. TrackInv /\ TypeOK /\ TrackInv' /\ Ageing
  BY TrackInductive, TasksAge DEF PairInv, TrackInv
<1>. SUFFICES OneLoop' /\ Requests' /\ \A s \in Stopper : LoopPlace(s)'
  BY <1>1 DEF PairInv
<1>2. ASSUME NEW t \in Task, EndTask(t)
      PROVE  OneLoop' /\ Requests' /\ \A s \in Stopper : LoopPlace(s)'
  <2>1. LoopFree /\ UNCHANGED <<itemTasks, pc, waits, item, pos, listed, reply>>
    BY <1>2 DEF EndTask
  <2>2. OneLoop' /\ Requests'
    <3>1. \A s \in Stopper : listed[s] \subseteq Task
      BY <1>1 DEF TypeOK
    <3>. QED
      BY <1>1, <2>1, <3>1 DEF PairInv, OneLoop, Requests, Ageing
  <2>3. ASSUME NEW s \in Stopper PROVE LoopPlace(s)'
    BY <1>1, <2>1, OthersKeepPlace
  <2>. QED
    BY <2>2, <2>3
<1>3. ASSUME NEW s \in Stopper, NEW t \in Task, StopTask(s, t)
      PROVE  OneLoop' /\ Requests' /\ \A r \in Stopper : LoopPlace(r)'
  <2>1. /\ LoopFree /\ pc[s] = "idle" /\ Stop(s, t)
        /\ UNCHANGED <<swallows, itemOf, cleanup, itemTasks, item, pos, listed>>
    BY <1>3 DEF StopTask
  <2>2. item'[s] = NoItem
    BY <2>1 DEF PairInv, Requests
  <2>3. LoopPlace(s)'
    BY <2>2 DEF LoopPlace
  <2>4. OneLoop' /\ Requests' /\ \A r \in Stopper \ {s} : LoopPlace(r)'
    BY <1>1, <2>1, StopOthersPlace DEF LoopFree
  <2>. QED
    BY <2>3, <2>4
<1>4. ASSUME NEW s \in Stopper, NEW i \in Item, StopItemTasks(s, i)
      PROVE  OneLoop' /\ Requests' /\ \A r \in Stopper : LoopPlace(r)'
  <2>1. /\ LoopFree /\ pc[s] = "idle"
        /\ UNCHANGED <<taskVars, waits>>
        /\ item' = [item EXCEPT ![s] = i]
        /\ listed' = [listed EXCEPT ![s] = ElementsOf(itemTasks[i])]
        /\ \/ Answer(s, "no tasks") /\ UNCHANGED pos
           \/ /\ pc' = [pc EXCEPT ![s] = "looping"]
              /\ pos' = [pos EXCEPT ![s] = 1]
              /\ UNCHANGED reply
    BY <1>4 DEF StopItemTasks
  <2>2. \A r \in Stopper \ {s} :
            /\ pc'[r] = pc[r] /\ waits'[r] = waits[r] /\ item'[r] = item[r]
            /\ pos'[r] = pos[r] /\ listed'[r] = listed[r] /\ reply'[r] = reply[r]
    BY <1>1, <2>1 DEF TypeOK
  <2>3. /\ item'[s] = i
        /\ listed'[s] = ElementsOf(itemTasks[i])
        /\ \/ pc'[s] = "answered" /\ reply'[s] = "no tasks"
           \/ pc'[s] = "looping" /\ pos'[s] = 1 /\ reply'[s] = reply[s]
    BY <1>1, <2>1 DEF TypeOK
  <2>4. reply[s] = "none"
    BY <2>1 DEF PairInv, Requests
  <2>5. \A t \in ElementsOf(itemTasks[i]) : run[t] # "none"
    <3>1. ElementsOf(itemTasks[i]) \subseteq Task
      <4>1. itemTasks[i] \in Seq(Task)
        BY <1>1 DEF TypeOK
      <4>. QED
        BY <4>1, ElementOfSeq, LenProperties DEF ElementsOf
    <3>. QED
      BY <1>1, <3>1 DEF TrackInv, ListedOnce
  <2>6. UNCHANGED <<run, itemTasks>>
    BY <2>1 DEF taskVars
  <2>7. OneLoop'
    BY <2>1, <2>2 DEF LoopFree, OneLoop
  <2>8. Requests'
    <3>1. ASSUME NEW r \in Stopper \ {s}
          PROVE  /\ pc'[r] = "idle" => item'[r] = NoItem
                 /\ pc'[r] # "answered" => reply'[r] = "none"
                 /\ reply'[r] = "all" => item'[r] # NoItem
                 /\ \A t \in listed'[r] : run'[t] # "none"
      BY <2>2, <2>6 DEF PairInv, Requests
    <3>2. /\ pc'[s] # "idle" /\ reply'[s] # "all"
          /\ pc'[s] # "answered" => reply'[s] = "none"
          /\ \A t \in listed'[s] : run'[t] # "none"
      BY <2>3, <2>4, <2>5, <2>6
    <3>. QED
      BY <3>1, <3>2 DEF Requests
  <2>9. ASSUME NEW r \in Stopper \ {s} PROVE LoopPlace(r)'
    BY <1>1, <2>1, <2>2, <2>6, OthersKeepPlace DEF LoopFree
  <2>10. LoopPlace(s)'
    BY <2>3, <2>4, <2>6 DEF LoopPlace, AtFirst
  <2>. QED
    BY <2>7, <2>8, <2>9, <2>10
<1>5. ASSUME NEW s \in Stopper, StopNext(s)
      PROVE  OneLoop' /\ Requests' /\ \A r \in Stopper : LoopPlace(r)'
  <2>. DEFINE ids == itemTasks[item[s]]
  <2>1. /\ pc[s] = "looping" /\ item[s] # NoItem
        /\ UNCHANGED <<swallows, itemOf, cleanup, itemTasks, item, listed>>
    BY <1>1, <1>5, LocalAssumption DEF StopNext, TrackInv, LocalAssumption
  <2>2. \A r \in Stopper \ {s} : pc[r] # "looping"
    BY <2>1 DEF PairInv, OneLoop
  <2>3. OneLoop' /\ Requests' /\ \A r \in Stopper \ {s} : LoopPlace(r)'
    <3>1. CASE pos[s] \in DOMAIN ids
      <4>1. Stop(s, ids[pos[s]]) /\ pos' = [pos EXCEPT ![s] = pos[s] + 1]
        BY <1>5, <3>1 DEF StopNext
      <4>2. ids[pos[s]] \in Task
        <5>1. ids \in Seq(Task)
          BY <1>1, <2>1 DEF TrackInv, TypeOK
        <5>. QED
          BY <3>1, <5>1, ElementOfSeq, LenProperties
      <4>3. \A r \in Stopper \ {s} : pos'[r] = pos[r]
        BY <1>1, <4>1 DEF TypeOK
      <4>. HIDE DEF ids
      <4>. QED
        BY <1>1, <2>1, <2>2, <4>1, <4>2, <4>3, StopOthersPlace
    <3>2. CASE pos[s] \notin DOMAIN ids
      <4>1. Answer(s, "all") /\ UNCHANGED <<run, tasks, waits, pos>>
        BY <1>5, <3>2 DEF StopNext
      <4>2. /\ pc'[s] = "answered"
            /\ \A r \in Stopper \ {s} : pc'[r] = pc[r] /\ reply'[r] = reply[r]
        BY <1>1, <4>1 DEF TypeOK
      <4>3. OneLoop' /\ Requests'
        BY <2>1, <4>1, <4>2 DEF PairInv, OneLoop, Requests
      <4>4. ASSUME NEW r \in Stopper \ {s} PROVE LoopPlace(r)'
        BY <1>1, <2>1, <2>2, <4>1, <4>2, OthersKeepPlace
      <4>. QED
        BY <4>3, <4>4
    <3>. QED
      BY <3>1, <3>2
  <2>. QED
    BY <1>1, <1>5, <2>3, StopNextPlace
<1>6. ASSUME NEW s \in Stopper, Awake(s)
      PROVE  OneLoop' /\ Requests' /\ \A r \in Stopper : LoopPlace(r)'
  <2>1. /\ LoopFree /\ pc[s] = "awaiting" /\ run[waits[s]] \in Ended
        /\ Resume(s, run[waits[s]])
        /\ waits' = [waits EXCEPT ![s] = NoTask]
        /\ UNCHANGED <<taskVars, item, pos, listed>>
    BY <1>6 DEF Awake
  <2>2. \/ /\ item[s] # NoItem
           /\ pc' = [pc EXCEPT ![s] = "looping"]
           /\ UNCHANGED reply
        \/ \E a \in Answers \ {"all"} : Answer(s, a)
    BY <2>1, ResumeEffect
  <2>3. reply[s] = "none"
    BY <2>1 DEF PairInv, Requests
  <2>4. \A r \in Stopper \ {s} :
            pc'[r] = pc[r] /\ waits'[r] = waits[r] /\ reply'[r] = reply[r]
    BY <1>1, <2>1, <2>2 DEF TypeOK
  <2>5. \/ pc'[s] = "looping" /\ reply'[s] = "none"
        \/ pc'[s] = "answered" /\ reply'[s] # "all"
    BY <1>1, <2>2, <2>3 DEF TypeOK
  <2>6. UNCHANGED <<run, itemTasks>>
    BY <2>1 DEF taskVars
  <2>7. OneLoop'
    BY <2>1, <2>4 DEF LoopFree, OneLoop
  <2>8. Requests'
    BY <2>1, <2>4, <2>5, <2>6 DEF PairInv, Requests
  <2>9. ASSUME NEW r \in Stopper \ {s} PROVE LoopPlace(r)'
    BY <1>1, <2>1, <2>4, <2>6, OthersKeepPlace DEF LoopFree
  <2>10. LoopPlace(s)'
    <3>1. CASE item[s] = NoItem \/ ~Few(s) \/ pc'[s] = "answered"
      BY <2>1, <2>5, <3>1 DEF LoopPlace, Few
    <3>2. CASE item[s] # NoItem /\ Few(s) /\ pc'[s] = "looping"
      <4>1. AtSecond(s) \/ PastBoth(s)
        BY <2>1, <3>2 DEF PairInv, LoopPlace, AtFirst
      <4>2. CASE AtSecond(s)
        <5>1. AtSecond(s)'
          BY <2>1, <2>6, <3>2, <4>2 DEF AtSecond
        <5>. QED
          BY <2>5, <5>1 DEF LoopPlace
      <4>3. CASE PastBoth(s)
        <5>1. \A t \in listed[s] : run[t] \notin Alive
          BY <2>1, <4>3 DEF PastBoth
        <5>2. PastBoth(s)'
          BY <2>1, <2>6, <5>1 DEF PastBoth
        <5>. QED
          BY <2>5, <5>2 DEF LoopPlace
      <4>. QED
        BY <4>1, <4>2, <4>3
    <3>. QED
      BY <2>5, <3>1, <3>2
  <2>. QED
    BY <2>7, <2>8, <2>9, <2>10
<1>7. CASE UNCHANGED vars
  BY <1>7 DEF vars, PairInv, OneLoop, Requests, LoopPlace, Few, AtFirst, AtSecond, PastBoth
<1>. QED
  BY <1>1, <1>2, <1>3, <1>4, <1>5, <1>6, <1>7, CreateKeepsPlaces, CleanupKeepsPlaces
  DEF Next

LEMMA PairInvariant == Spec => []PairInv
BY InitPairInv, PairInductive, PTL DEF Spec

(* "All tasks for item ... stopped." is true of a request that listed two  *)
(* tasks at most: waiting for the first, it keeps index 1 occupied, so the *)
(* second cannot slip under the index of the `for`.                        *)
THEOREM TwoAreStopped == Spec => []PairStopped
<1>1. PairInv => PairStopped
  BY DEF PairInv, LoopPlace, Requests, Few, PairStopped
<1>. QED
  BY <1>1, PairInvariant, PTL

(* Whatever the other requests and clean-ups have done to the list that a  *)
(* request iterates, the task it cancels belongs to the request's item.    *)
THEOREM OnlyItsItemCancelled == Spec => OnlyItsItem
<1>. DEFINE Step == \A t \in Task : run[t] = "running" /\ run'[t] = "cancelling" =>
                        \E s \in Stopper : /\ waits'[s] = t
                                           /\ item[s] \in {NoItem, itemOf[t]}
<1>1. PairInv /\ [Next]_vars => Step
  <2>. SUFFICES ASSUME PairInv, [Next]_vars, NEW t \in Task,
                       run[t] = "running", run'[t] = "cancelling"
                PROVE  \E s \in Stopper : waits'[s] = t /\ item[s] \in {NoItem, itemOf[t]}
    OBVIOUS
  <2>1. TrackInv /\ TypeOK
    BY DEF PairInv, TrackInv
  <2>2. ASSUME NEW s \in Stopper, NEW u, Stop(s, u) PROVE u = t /\ waits'[s] = t
    BY <2>1, <2>2, StopEffect DEF StopGoesOn, StopAnswers, StopWaits, TypeOK
  <2>3. ASSUME NEW s \in Stopper, NEW u \in Task, StopTask(s, u)
        PROVE  waits'[s] = t /\ item[s] \in {NoItem, itemOf[t]}
    BY <2>2, <2>3 DEF StopTask, PairInv, Requests
  <2>4. ASSUME NEW s \in Stopper, StopNext(s)
        PROVE  waits'[s] = t /\ item[s] \in {NoItem, itemOf[t]}
    <3>. DEFINE ids == itemTasks[item[s]]
    <3>1. pos[s] \in DOMAIN ids /\ Stop(s, ids[pos[s]])
      BY <2>4 DEF StopNext
    <3>2. t \in ElementsOf(ids) /\ waits'[s] = t
      BY <2>2, <3>1 DEF ElementsOf
    <3>3. item[s] \in Item
      BY <2>1, <2>4 DEF StopNext, TrackInv
    <3>. QED
      BY <2>1, <3>2, <3>3 DEF TrackInv, ListedOnce
  <2>5. ASSUME NEW u \in Task, EndTask(u) PROVE FALSE
    BY <2>1, <2>5 DEF EndTask, TypeOK
  <2>6. ASSUME NEW u \in Task, NEW i \in Item, NEW catches \in BOOLEAN,
               CreateTask(u, i, catches)
        PROVE  FALSE
    BY <2>1, <2>6 DEF CreateTask, TypeOK
  <2>. QED
    BY <2>3, <2>4, <2>5, <2>6
    DEF Next, vars, taskVars, CleanupTask, StopItemTasks, Awake
<1>. QED
  BY <1>1, PairInvariant, PTL DEF Spec, OnlyItsItem

-----------------------------------------------------------------------------
(***************************************************************************)
(* Nobody waits in vain, and nothing is left over                          *)
(***************************************************************************)

(* A request waits only for a task that has been cancelled, so the wait    *)
(* ends with the task: it is never one that runs on undisturbed.           *)
WaitsForCancelled ==
    \A s \in Stopper : pc[s] = "awaiting" => run[waits[s]] \in {"cancelling"} \cup Ended

(* What is in `tasks` or in a list is a coroutine that is alive, or one    *)
(* that ended and whose clean-up is due.                                   *)
LeftoversAreDue ==
    \A t \in Task :
        t \in tasks \/ (\E i \in Item : t \in ElementsOf(itemTasks[i])) =>
            run[t] \in Alive \/ cleanup[t] = "due"

(* A cleaned-up id is out of `tasks`, and create_task draws a new one.     *)
DrainInv ==
    /\ \A s \in Stopper : waits[s] # NoTask => run[waits[s]] \in {"cancelling"} \cup Ended
    /\ \A t \in tasks : cleanup[t] # "done"

LEMMA DrainInductive == TrackInv /\ DrainInv /\ [Next]_vars => DrainInv'
<1>. SUFFICES ASSUME TrackInv, DrainInv, [Next]_vars PROVE DrainInv'
  OBVIOUS
<1>. USE LocalAssumption DEF LocalAssumption, DrainInv
<1>1. /\ run \in [Task -> Ended \cup Alive \cup {"none"}]
      /\ cleanup \in [Task -> {"no", "due", "done"}]
      /\ waits \in [Stopper -> Task \cup {NoTask}]
      /\ itemTasks \in [Item -> Seq(Task)]
      /\ tasks \subseteq Task
  BY DEF TrackInv, TypeOK
<1>2. \A t \in Task : run[t] \in Ended <=> cleanup[t] # "no"
  BY DEF TrackInv, Tracked
<1>3. ASSUME NEW t \in Task, NEW i \in Item, NEW catches \in BOOLEAN,
             CreateTask(t, i, catches)
      PROVE  DrainInv'
  BY <1>1, <1>2, <1>3 DEF CreateTask
<1>4. ASSUME NEW t \in Task, EndTask(t) PROVE DrainInv'
  BY <1>1, <1>4 DEF EndTask
<1>5. ASSUME NEW t \in Task, CleanupTask(t) PROVE DrainInv'
  BY <1>1, <1>5 DEF CleanupTask
<1>6. ASSUME NEW s \in Stopper, NEW t, Stop(s, t), UNCHANGED cleanup PROVE DrainInv'
  <2>1. tasks' = tasks \ {t} /\ (StopGoesOn(s, t) \/ StopAnswers(s, t) \/ StopWaits(s, t))
    BY <1>6, StopEffect
  <2>2. CASE UNCHANGED <<run, waits>>
    BY <1>6, <2>1, <2>2
  <2>3. CASE StopWaits(s, t)
    BY <1>1, <1>6, <2>1, <2>3 DEF StopWaits
  <2>. QED
    BY <2>1, <2>2, <2>3 DEF StopGoesOn, StopAnswers
<1>7. ASSUME NEW s \in Stopper, NEW t \in Task, StopTask(s, t) PROVE DrainInv'
  BY <1>6, <1>7 DEF StopTask
<1>8. ASSUME NEW s \in Stopper, NEW i \in Item, StopItemTasks(s, i) PROVE DrainInv'
  BY <1>8 DEF StopItemTasks, taskVars
<1>9. ASSUME NEW s \in Stopper, StopNext(s) PROVE DrainInv'
  <2>1. CASE pos[s] \in DOMAIN itemTasks[item[s]]
    BY <1>6, <1>9, <2>1 DEF StopNext
  <2>2. CASE pos[s] \notin DOMAIN itemTasks[item[s]]
    BY <1>9, <2>2 DEF StopNext
  <2>. QED
    BY <2>1, <2>2
<1>10. ASSUME NEW s \in Stopper, Awake(s) PROVE DrainInv'
  BY <1>1, <1>10 DEF Awake, taskVars
<1>11. CASE UNCHANGED vars
  BY <1>11 DEF vars
<1>. QED
  BY <1>3, <1>4, <1>5, <1>7, <1>8, <1>9, <1>10, <1>11 DEF Next

LEMMA DrainInvariant == Spec => [](TrackInv /\ DrainInv)
<1>1. Init => DrainInv
  BY DEF Init, DrainInv
<1>. QED
  BY <1>1, DrainInductive, TrackInvariant, PTL DEF Spec

(* WaitsForCancelled: stop_task cancels before it awaits; what Answered    *)
(* rests on.                                                               *)
THEOREM WaitsEndWithTheTask == Spec => []WaitsForCancelled
<1>1. TrackInv /\ DrainInv => WaitsForCancelled
  BY DEF TrackInv, AwaitInv, DrainInv, WaitsForCancelled
<1>. QED
  BY <1>1, DrainInvariant, PTL

(* LeftoversAreDue: every trace of an ended task has its cleanup_task yet  *)
(* to run, whichever requests popped or awaited it; what DictionariesDrain *)
(* rests on.                                                               *)
THEOREM NothingIsLeftOver == Spec => []LeftoversAreDue
<1>1. TrackInv /\ DrainInv => LeftoversAreDue
  <2>. SUFFICES ASSUME TrackInv, DrainInv, NEW t \in Task,
                       t \in tasks \/ \E i \in Item : t \in ElementsOf(itemTasks[i])
                PROVE  run[t] \in Alive \/ cleanup[t] = "due"
    BY DEF LeftoversAreDue
  <2>1. cleanup[t] # "done"
    BY DEF DrainInv, TrackInv, ListedOnce
  <2>2. run[t] # "none"
    BY DEF TrackInv, AwaitInv, ListedOnce
  <2>. QED
    BY <2>1, <2>2 DEF TrackInv, Tracked, TypeOK
<1>. QED
  BY <1>1, DrainInvariant, PTL
=============================================================================
