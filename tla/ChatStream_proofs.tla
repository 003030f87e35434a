------------------------- MODULE ChatStream_proofs -------------------------
(***************************************************************************)
(* For any number of messages, rounds and posts: what a response leaves in *)
(* the document of its chat, and that its rounds run out.                  *)
(***************************************************************************)
EXTENDS ChatStream, TLAPS

(* Only several processes are ever between the two transactions of a save: *)
(* without it the properties of one process are not inductive.             *)
Alone ==
    ~several => /\ posting = {}
                /\ \A m \in Message : pc[m] \notin {"saving", "titling"}

IInv == TypeOK /\ Alone

LEMMA PartsOf ==
    ASSUME NEW m \in Message
    PROVE  /\ Of({m}) \subseteq Parts /\ Out(m) \subseteq Of({m})
           /\ \A n \in Message, k \in {"all", "text"} : <<n, k>> \in Of({m}) <=> n = m
           /\ \A n \in Message : <<n, "text">> \notin Out(m)
<1>1. \A n, k : <<n, k>> \in Of({m}) <=> n = m /\ k \in {"all", "text"}
  BY DEF Of
<1>2. Of({m}) \subseteq Parts /\ Out(m) \subseteq Of({m})
  BY DEF Of, Out, Parts
<1>3. \A n : <<n, "text">> \notin Out(m)
  BY DEF Out
<1>. QED
  BY <1>1, <1>2, <1>3

LEMMA PcTypes ==
    TypeOK => /\ pc \in [Message -> Awaiting \cup Over \cup {"new", "saving", "titling", "cancelled"}]
              /\ then \in [Message -> Awaiting \cup Over]
              /\ snap \in [Message -> SUBSET Parts]
              /\ db \subseteq Parts /\ posted \subseteq Parts /\ overwritten \subseteq Message
BY DEF TypeOK

LEMMA InitIInv == Init => IInv
BY ChatAssumption DEF ChatAssumption, Init, IInv, TypeOK, Alone, Awaiting, Over

(* The two ways in which a task stores or does not.                        *)
LEMMA ProduceTypes ==
    ASSUME IInv, NEW m \in Message, NEW lost, NEW next \in Awaiting \cup Over \cup {"cancelled"},
           Produce(m, lost, next), UNCHANGED <<modeVars, alive, posting, posts>>
    PROVE  /\ db' \subseteq Parts /\ posted' \subseteq Parts
           /\ snap' \in [Message -> SUBSET Parts]
           /\ pc' \in [Message -> Awaiting \cup Over \cup {"new", "saving", "titling", "cancelled"}]
           /\ then' = then /\ overwritten' = overwritten
           /\ Alone'
<1>1. TypeOK
  BY DEF IInv
<1>2. next \notin {"saving", "titling"}
  BY DEF Awaiting, Over
<1>. QED
  BY <1>1, <1>2, PcTypes DEF IInv, Alone, Produce, modeVars

LEMMA UpsertTypes ==
    ASSUME IInv, NEW m \in Message, NEW lost, NEW next \in Awaiting \cup Over,
           Upsert(m, lost, next), UNCHANGED <<modeVars, alive, posting, posts>>
    PROVE  /\ db' \subseteq Parts /\ posted' \subseteq Parts
           /\ snap' \in [Message -> SUBSET Parts]
           /\ pc' \in [Message -> Awaiting \cup Over \cup {"new", "saving", "titling", "cancelled"}]
           /\ then' \in [Message -> Awaiting \cup Over] /\ overwritten' \subseteq Message
           /\ Alone'
<1>1. TypeOK
  BY DEF IInv
<1>2. next \notin {"saving", "titling"} /\ Of({m}) \subseteq Parts
  BY PartsOf DEF Awaiting, Over
<1>3. CASE several
  BY <1>1, <1>3, PcTypes DEF IInv, Alone, Upsert, modeVars
<1>4. CASE ~several
  BY <1>1, <1>2, <1>4, PcTypes DEF IInv, Alone, Upsert, modeVars
<1>. QED
  BY <1>3, <1>4

LEMMA SaveTypes ==
    ASSUME IInv, NEW m \in Message, NEW lost, NEW next \in Awaiting \cup Over,
           Produce(m, lost, next) \/ Upsert(m, lost, next),
           UNCHANGED <<modeVars, alive, posting, posts>>,
           loop' \in [Message -> {"tools", "code"}], rounds' \in [Message -> Nat],
           \A n \in Message : \/ loop'[n] = "tools" /\ rounds'[n] \in 0..MaxToolRounds
                              \/ loop'[n] = "code" /\ rounds'[n] \in 1..MaxCodeRounds
    PROVE  IInv'
<1>1. /\ db' \subseteq Parts /\ posted' \subseteq Parts
      /\ snap' \in [Message -> SUBSET Parts]
      /\ pc' \in [Message -> Awaiting \cup Over \cup {"new", "saving", "titling", "cancelled"}]
      /\ then' \in [Message -> Awaiting \cup Over] /\ overwritten' \subseteq Message
      /\ Alone'
  BY ProduceTypes, UpsertTypes, PcTypes DEF IInv
<1>2. /\ several' \in Modes /\ realtime' \in BOOLEAN /\ alive' \in BOOLEAN
      /\ posting' \subseteq Message /\ posts' \in 0..MaxPosts
  BY DEF IInv, TypeOK, modeVars
<1>. QED
  BY <1>1, <1>2 DEF IInv, TypeOK

LEMMA TaskKeeps == ASSUME IInv, NEW m \in Message, TaskStep(m) PROVE IInv'
<1>t. TypeOK
  BY DEF IInv
<1>l. /\ loop \in [Message -> {"tools", "code"}] /\ rounds \in [Message -> Nat]
      /\ \A n \in Message : \/ loop[n] = "tools" /\ rounds[n] \in 0..MaxToolRounds
                            \/ loop[n] = "code" /\ rounds[n] \in 1..MaxCodeRounds
  BY <1>t DEF TypeOK
<1>s. ASSUME NEW lost, NEW next \in Awaiting \cup Over,
             Produce(m, lost, next) \/ Upsert(m, lost, next),
             UNCHANGED <<modeVars, alive, loopVars, posting, posts>>
      PROVE  IInv'
  BY <1>l, <1>s, SaveTypes DEF loopVars
<1>n. {"streaming", "working", "asking", "announcing", "background", "ended", "failed"}
        = Awaiting \cup Over
  BY DEF Awaiting, Over
<1>1. CASE Start(m)
  <2>1. TypeOK'
    BY <1>1, <1>t, PartsOf, <1>n DEF Start, TypeOK, modeVars, loopVars
  <2>2. Alone'
    BY <1>1, <1>t, PcTypes DEF Start, Alone, IInv, modeVars
  <2>. QED
    BY <2>1, <2>2 DEF IInv
<1>2. CASE Text(m) \/ Reason(m)
  BY <1>2, <1>s, <1>n DEF Text, Reason
<1>3. CASE Break(m) \/ Refuse(m) \/ Finish(m) \/ SayCancelled(m)
  BY <1>3, <1>s, <1>n DEF Break, Refuse, Finish, SayCancelled, SaveUnlessRealtime
<1>4. CASE Worked(m) \/ Answer(m) \/ Announce(m) \/ EndBackground(m) \/ CancelAgain(m) \/ CancelUnstarted(m)
  BY <1>4, <1>s, <1>n DEF Worked, Answer, Announce, EndBackground, CancelAgain, CancelUnstarted
<1>5. CASE CallTools(m)
  <2>1. /\ rounds' = [rounds EXCEPT ![m] = rounds[m] + 1] /\ loop' = loop
        /\ loop[m] = "tools" /\ rounds[m] < MaxToolRounds
        /\ Produce(m, Out(m), "working") /\ UNCHANGED <<modeVars, alive, posting, posts>>
    BY <1>5 DEF CallTools
  <2>2. rounds' \in [Message -> Nat]
    BY <1>l, <2>1
  <2>3. \A n \in Message : \/ loop'[n] = "tools" /\ rounds'[n] \in 0..MaxToolRounds
                           \/ loop'[n] = "code" /\ rounds'[n] \in 1..MaxCodeRounds
    BY <1>l, <2>1, ChatAssumption DEF ChatAssumption
  <2>. QED
    BY <1>l, <1>n, <2>1, <2>2, <2>3, SaveTypes
<1>6. CASE RunCode(m)
  <2>1. /\ rounds' = [rounds EXCEPT ![m] = IF loop[m] = "code" THEN rounds[m] + 1 ELSE 1]
        /\ loop' = [loop EXCEPT ![m] = "code"]
        /\ loop[m] = "code" => rounds[m] < MaxCodeRounds
        /\ Produce(m, Out(m), "working") /\ UNCHANGED <<modeVars, alive, posting, posts>>
    BY <1>6 DEF RunCode
  <2>2. rounds' \in [Message -> Nat] /\ loop' \in [Message -> {"tools", "code"}]
    BY <1>l, <2>1
  <2>3. \A n \in Message : \/ loop'[n] = "tools" /\ rounds'[n] \in 0..MaxToolRounds
                           \/ loop'[n] = "code" /\ rounds'[n] \in 1..MaxCodeRounds
    BY <1>l, <2>1, ChatAssumption DEF ChatAssumption
  <2>. QED
    BY <1>n, <2>1, <2>2, <2>3, SaveTypes
<1>7. CASE Write(m)
  <2>1. TypeOK'
    BY <1>7, <1>t, PartsOf, <1>n DEF Write, TypeOK, modeVars, loopVars
  <2>2. Alone'
    BY <1>7, <1>t, PcTypes DEF Write, Alone, IInv, modeVars
  <2>. QED
    BY <2>1, <2>2 DEF IInv
<1>8. CASE TitleRead(m) \/ TitleWrite(m)
  <2>1. TypeOK'
    BY <1>8, <1>t, <1>n DEF TitleRead, TitleWrite, TypeOK, modeVars, loopVars
  <2>2. Alone'
    BY <1>8, <1>t, PcTypes DEF TitleRead, TitleWrite, Alone, IInv, modeVars
  <2>. QED
    BY <2>1, <2>2 DEF IInv
<1>9. CASE Cancel(m)
  <2>1. Produce(m, {}, "cancelled") /\ UNCHANGED <<modeVars, alive, loopVars, posting, posts>>
    BY <1>9 DEF Cancel
  <2>2. /\ db' \subseteq Parts /\ posted' \subseteq Parts /\ snap' \in [Message -> SUBSET Parts]
        /\ pc' \in [Message -> Awaiting \cup Over \cup {"new", "saving", "titling", "cancelled"}]
        /\ then' = then /\ overwritten' = overwritten /\ Alone'
    BY <2>1, ProduceTypes
  <2>. QED
    BY <1>t, <2>1, <2>2 DEF IInv, TypeOK, modeVars, loopVars
<1>. QED
  BY <1>1, <1>2, <1>3, <1>4, <1>5, <1>6, <1>7, <1>8, <1>9 DEF TaskStep, StreamOver, GoOn

LEMMA Inductive == IInv /\ [Next]_vars => IInv'
<1>. SUFFICES ASSUME IInv, [Next]_vars PROVE IInv'
  OBVIOUS
<1>t. TypeOK
  BY DEF IInv
<1>1. ASSUME NEW old \in SUBSET Message \ {{}}, Post(old) PROVE IInv'
  <2>1. posts' \in 0..MaxPosts
    <3>1. posts \in 0..MaxPosts /\ posts < MaxPosts /\ posts' = posts + 1
      BY <1>1, <1>t DEF TypeOK, Post
    <3>. QED
      BY <3>1, ChatAssumption DEF ChatAssumption
  <2>2. TypeOK'
    BY <1>1, <1>t, <2>1 DEF Post, TypeOK, modeVars, loopVars
  <2>3. Alone'
    BY <1>1 DEF Post, IInv, Alone, modeVars
  <2>. QED
    BY <2>2, <2>3 DEF IInv
<1>2. CASE PostWrite
  <2>1. TypeOK'
    BY <1>2, <1>t DEF PostWrite, TypeOK, modeVars, loopVars
  <2>2. Alone'
    BY <1>2 DEF PostWrite, IInv, Alone, modeVars
  <2>. QED
    BY <2>1, <2>2 DEF IInv
<1>3. CASE DeleteChat
  <2>1. TypeOK'
    BY <1>3, <1>t DEF DeleteChat, TypeOK, modeVars, loopVars, docVars
  <2>2. Alone'
    BY <1>3 DEF DeleteChat, IInv, Alone, modeVars
  <2>. QED
    BY <2>1, <2>2 DEF IInv
<1>4. CASE UNCHANGED vars
  <2>1. TypeOK'
    BY <1>4, <1>t DEF vars, TypeOK, modeVars, loopVars, docVars
  <2>2. Alone'
    BY <1>4 DEF vars, IInv, Alone, modeVars
  <2>. QED
    BY <2>1, <2>2 DEF IInv
<1>. QED
  BY <1>1, <1>2, <1>3, <1>4, TaskKeeps DEF Next

LEMMA Invariance == Spec => []IInv
BY InitIInv, Inductive, PTL DEF Spec

(* The variables keep their types; no loop exceeds its rounds.             *)
THEOREM TypeCorrect == Spec => []TypeOK
<1>1. IInv => TypeOK
  BY DEF IInv
<1>. QED
  BY <1>1, Invariance, PTL

-----------------------------------------------------------------------------
(* A step of a task of one process, as far as the stored parts go: it      *)
(* changes its own message's content only, and it saves when it stores.    *)
LEMMA StoredStep ==
    ASSUME IInv, ~several, NEW m \in Message, NEW lost, NEW next,
           Produce(m, lost, next) \/ Upsert(m, lost, next), lost \subseteq Of({m}), alive
    PROVE  /\ pc' = [pc EXCEPT ![m] = next]
           /\ \A n \in Message \ {m}, k \in {"all", "text"} : <<n, k>> \in db' <=> <<n, k>> \in db
           /\ \A n \in Message \ {m} : n \in overwritten' <=> n \in overwritten
           /\ Upsert(m, lost, next) => <<m, "all">> \in db' /\ <<m, "text">> \in db'
           /\ ~Upsert(m, lost, next) => db' = db \ lost /\ overwritten' = overwritten
<1>1. CASE Produce(m, lost, next)
  BY <1>1, PartsOf DEF Produce, Upsert
<1>2. CASE Upsert(m, lost, next)
  <2>1. \A n \in Message \ {m}, k \in {"all", "text"} : <<n, k>> \in db' <=> <<n, k>> \in db
    BY <1>2, PartsOf DEF Upsert
  <2> QED
    BY <1>2, <2>1, PartsOf DEF Upsert
<1>. QED
  BY <1>1, <1>2

LEMMA StoredInductive == IInv /\ StoredWhenOver /\ [Next]_vars => StoredWhenOver'
<1>. SUFFICES ASSUME IInv, StoredWhenOver, [Next]_vars,
                     ~several', ~realtime', alive',
                     NEW n \in Message \ overwritten',
                     pc'[n] \in {"announcing", "background", "ended"}
              PROVE  <<n, "all">> \in db'
  BY DEF StoredWhenOver
<1>t. pc \in [Message -> Awaiting \cup Over \cup {"new", "saving", "titling", "cancelled"}]
  BY PcTypes DEF IInv
<1>a. UNCHANGED modeVars /\ alive
  BY DEF Next, TaskStep, StreamOver, GoOn, Start, Text, Reason, Break, CallTools, RunCode, Finish,
         Write, Worked, Answer, Refuse, Announce, TitleRead, TitleWrite, EndBackground,
         SayCancelled, Cancel, CancelAgain, CancelUnstarted, Post, PostWrite, DeleteChat, vars
<1>b. ~several /\ ~realtime
  BY <1>a DEF modeVars
<1>o. ASSUME n \notin overwritten, pc[n] \in {"announcing", "background", "ended"}
      PROVE  <<n, "all">> \in db
  BY <1>a, <1>b, <1>o DEF StoredWhenOver
<1>s. ASSUME NEW m \in Message, NEW lost, NEW next,
             Produce(m, lost, next) \/ Upsert(m, lost, next), lost \subseteq Of({m}),
             \/ Upsert(m, lost, next)
             \/ next \notin {"announcing", "background", "ended"}
             \/ lost = {} /\ pc[m] \in {"announcing", "background"}
      PROVE  <<n, "all">> \in db'
  <2>1. /\ pc' = [pc EXCEPT ![m] = next]
        /\ \A k \in Message \ {m} : <<k, "all">> \in db' <=> <<k, "all">> \in db
        /\ \A k \in Message \ {m} : k \in overwritten' <=> k \in overwritten
        /\ Upsert(m, lost, next) => <<m, "all">> \in db'
        /\ ~Upsert(m, lost, next) => db' = db \ lost /\ overwritten' = overwritten
    BY <1>a, <1>b, <1>s, StoredStep
  <2>2. CASE n # m
    BY <1>o, <1>t, <2>1, <2>2
  <2>3. CASE n = m
    BY <1>o, <1>s, <1>t, <2>1, <2>3
  <2>. QED
    BY <2>2, <2>3
<1>1. ASSUME NEW m \in Message, TaskStep(m) PROVE <<n, "all">> \in db'
  <2>o. {} \subseteq Of({m}) /\ Out(m) \subseteq Of({m})
    BY PartsOf
  <2>1. CASE Start(m)
    BY <1>o, <1>t, <2>1 DEF Start
  <2>2. CASE Text(m) \/ Reason(m) \/ CallTools(m) \/ RunCode(m) \/ Worked(m) \/ Answer(m)
    <3>1. \E lost \in SUBSET Of({m}), next \in {"streaming", "working", "asking"} :
             Produce(m, lost, next) \/ Upsert(m, lost, next)
      BY <2>o, <2>2 DEF Text, Reason, CallTools, RunCode, Worked, Answer
    <3>. QED
      BY <1>s, <3>1
  <2>3. CASE Break(m)
    BY <1>b, <1>s, <2>o, <2>3 DEF Break, SaveUnlessRealtime
  <2>4. CASE Refuse(m) \/ Finish(m) \/ SayCancelled(m)
    <3>1. Upsert(m, {}, "announcing") \/ Upsert(m, {}, "ended")
      BY <1>b, <2>4 DEF Refuse, Finish, SayCancelled, SaveUnlessRealtime
    <3>. QED
      BY <1>s, <2>o, <3>1
  <2>5. CASE Announce(m) \/ EndBackground(m)
    <3>1. /\ pc[m] \in {"announcing", "background"}
          /\ \E next \in {"background", "ended"} : Produce(m, {}, next)
      BY <2>5 DEF Announce, EndBackground
    <3>. QED
      BY <1>s, <2>o, <3>1
  <2>6. CASE Cancel(m) \/ CancelAgain(m) \/ CancelUnstarted(m)
    <3>1. \E next \in {"cancelled", "failed"} : Produce(m, {}, next)
      BY <2>6 DEF Cancel, CancelAgain, CancelUnstarted
    <3>. QED
      BY <1>s, <2>o, <3>1
  <2>7. CASE Write(m) \/ TitleRead(m) \/ TitleWrite(m)
    BY <1>b, <2>7 DEF Write, TitleRead, TitleWrite, IInv, Alone
  <2>. QED
    BY <1>1, <2>1, <2>2, <2>3, <2>4, <2>5, <2>6, <2>7 DEF TaskStep, StreamOver, GoOn
<1>2. ASSUME NEW old \in SUBSET Message \ {{}}, Post(old) PROVE <<n, "all">> \in db'
  BY <1>b, <1>o, <1>2 DEF Post, Of
<1>3. CASE PostWrite
  BY <1>b, <1>3 DEF PostWrite, IInv, Alone
<1>4. CASE DeleteChat
  BY <1>4 DEF DeleteChat
<1>5. CASE UNCHANGED vars
  BY <1>o, <1>5 DEF vars, docVars
<1>. QED
  BY <1>1, <1>2, <1>3, <1>4, <1>5 DEF Next

(* response_handler saves before it announces, on each of its ways out, so *)
(* nothing that was announced is missing from the chat.                    *)
THEOREM ResponsesAreStored == Spec => []StoredWhenOver
<1>1. Init => StoredWhenOver
  BY DEF Init, StoredWhenOver
<1>. QED
  BY <1>1, Invariance, StoredInductive, PTL DEF Spec

-----------------------------------------------------------------------------
LEMMA TextInductive == IInv /\ RealtimeKeepsUp /\ [Next]_vars => RealtimeKeepsUp'
<1>. SUFFICES ASSUME IInv, RealtimeKeepsUp, [Next]_vars,
                     ~several', realtime', alive', NEW n \in Message \ overwritten'
              PROVE  <<n, "text">> \in db'
  BY DEF RealtimeKeepsUp, Of
<1>a. UNCHANGED modeVars /\ alive
  BY DEF Next, TaskStep, StreamOver, GoOn, Start, Text, Reason, Break, CallTools, RunCode, Finish,
         Write, Worked, Answer, Refuse, Announce, TitleRead, TitleWrite, EndBackground,
         SayCancelled, Cancel, CancelAgain, CancelUnstarted, Post, PostWrite, DeleteChat, vars
<1>b. ~several /\ realtime
  BY <1>a DEF modeVars
<1>o. n \notin overwritten => <<n, "text">> \in db
  BY <1>a, <1>b DEF RealtimeKeepsUp, Of
<1>s. ASSUME NEW m \in Message, NEW lost, NEW next,
             Produce(m, lost, next) \/ Upsert(m, lost, next), lost \subseteq Of({m}),
             Upsert(m, lost, next) \/ lost \subseteq Out(m)
      PROVE  <<n, "text">> \in db'
  <2>1. /\ \A k \in Message \ {m} : <<k, "text">> \in db' <=> <<k, "text">> \in db
        /\ \A k \in Message \ {m} : k \in overwritten' <=> k \in overwritten
        /\ Upsert(m, lost, next) => <<m, "text">> \in db'
        /\ ~Upsert(m, lost, next) => db' = db \ lost /\ overwritten' = overwritten
    BY <1>a, <1>b, <1>s, StoredStep
  <2>. QED
    BY <1>o, <1>s, <2>1, PartsOf
<1>1. ASSUME NEW m \in Message, TaskStep(m) PROVE <<n, "text">> \in db'
  <2>o. {} \subseteq Of({m}) /\ Out(m) \subseteq Of({m}) /\ {} \subseteq Out(m)
    BY PartsOf
  <2>1. CASE Start(m)
    BY <1>o, <2>1 DEF Start, Of
  <2>2. CASE Text(m)
    BY <1>b, <1>s, <2>2 DEF Text
  <2>3. CASE Reason(m) \/ CallTools(m) \/ RunCode(m) \/ Worked(m) \/ Answer(m)
    <3>1. \E next \in {"streaming", "working", "asking"}, lost \in {{}, Out(m)} :
             Produce(m, lost, next)
      BY <2>3 DEF Reason, CallTools, RunCode, Worked, Answer
    <3>. QED
      BY <1>s, <2>o, <3>1
  <2>4. CASE Break(m) \/ Refuse(m) \/ Finish(m) \/ SayCancelled(m)
    <3>1. \E next \in {"failed", "announcing", "ended"} : Produce(m, {}, next)
      BY <1>b, <2>4 DEF Break, Refuse, Finish, SayCancelled, SaveUnlessRealtime
    <3>. QED
      BY <1>s, <2>o, <3>1
  <2>5. CASE Announce(m) \/ EndBackground(m) \/ Cancel(m) \/ CancelAgain(m) \/ CancelUnstarted(m)
    <3>1. \E next \in {"background", "ended", "cancelled", "failed"} : Produce(m, {}, next)
      BY <2>5 DEF Announce, EndBackground, Cancel, CancelAgain, CancelUnstarted
    <3>. QED
      BY <1>s, <2>o, <3>1
  <2>6. CASE Write(m) \/ TitleRead(m) \/ TitleWrite(m)
    BY <1>b, <2>6 DEF Write, TitleRead, TitleWrite, IInv, Alone
  <2>. QED
    BY <1>1, <2>1, <2>2, <2>3, <2>4, <2>5, <2>6 DEF TaskStep, StreamOver, GoOn
<1>2. ASSUME NEW old \in SUBSET Message \ {{}}, Post(old) PROVE <<n, "text">> \in db'
  BY <1>b, <1>o, <1>2 DEF Post, Of
<1>3. CASE PostWrite
  BY <1>b, <1>3 DEF PostWrite, IInv, Alone
<1>4. CASE DeleteChat
  BY <1>4 DEF DeleteChat
<1>5. CASE UNCHANGED vars
  BY <1>o, <1>5 DEF vars, docVars
<1>. QED
  BY <1>1, <1>2, <1>3, <1>4, <1>5 DEF Next

(* With ENABLE_REALTIME_CHAT_SAVE the text is in the chat at every await,  *)
(* so also when the task ends without saving.                              *)
THEOREM TextIsKept == Spec => []RealtimeKeepsUp
<1>1. Init => RealtimeKeepsUp
  BY DEF Init, RealtimeKeepsUp, Of, Parts
<1>. QED
  BY <1>1, Invariance, TextInductive, PTL DEF Spec

-----------------------------------------------------------------------------
(***************************************************************************)
(* The rounds of a response                                                *)
(***************************************************************************)

(* The rounds that a response may still make: those of its loop, and all   *)
(* of the code interpreter's as long as it has not left the tools' loop.   *)
RoundsLeft(m) ==
    IF loop[m] = "tools" THEN (MaxToolRounds - rounds[m]) + MaxCodeRounds
                         ELSE MaxCodeRounds - rounds[m]

(* No step gives a response more rounds, and each time it begins to work   *)
(* for the model, with tools or with code, it has one fewer: it calls the  *)
(* model again MAX_TOOL_CALL_RETRIES + MAX_RETRIES times at most, whatever *)
(* the model asks for, and whichever loops it goes through.                *)
RoundsAreCounted ==
    [][\A m \in Message :
          /\ RoundsLeft(m)' \in 0..RoundsLeft(m)
          /\ pc[m] # "working" /\ pc'[m] = "working" =>
                 RoundsLeft(m)' < RoundsLeft(m)]_vars

(* A save never goes on into a round.                                      *)
Onward == {"streaming", "announcing"} \cup Over

OnwardInv == \A m \in Message : then[m] \in Onward

LEMMA SaveGoesOn ==
    ASSUME TypeOK, OnwardInv, NEW m \in Message, NEW lost, NEW next,
           Produce(m, lost, next) \/ (Upsert(m, lost, next) /\ next \in Onward)
    PROVE  /\ pc' = [pc EXCEPT ![m] = next] \/ pc' = [pc EXCEPT ![m] = "saving"]
           /\ OnwardInv'
<1>1. CASE Produce(m, lost, next)
  BY <1>1 DEF Produce, OnwardInv
<1>2. CASE Upsert(m, lost, next) /\ next \in Onward
  <2>1. then' = then \/ then' = [then EXCEPT ![m] = next]
    BY <1>2 DEF Upsert
  <2>2. pc' = [pc EXCEPT ![m] = next] \/ pc' = [pc EXCEPT ![m] = "saving"]
    BY <1>2 DEF Upsert
  <2>3. OnwardInv'
    BY <1>2, <2>1, PcTypes DEF OnwardInv
  <2>. QED
    BY <2>2, <2>3
<1>. QED
  BY <1>1, <1>2

(* The two steps that begin a round.                                       *)
LEMMA RoundBegins ==
    ASSUME TypeOK, OnwardInv, NEW m \in Message, CallTools(m) \/ RunCode(m)
    PROVE  /\ RoundsLeft(m)' \in 0..RoundsLeft(m) /\ RoundsLeft(m)' < RoundsLeft(m)
           /\ \A n \in Message \ {m} : RoundsLeft(n)' = RoundsLeft(n) /\ pc'[n] = pc[n]
           /\ OnwardInv'
<1>0. /\ MaxToolRounds \in Nat /\ MaxCodeRounds \in Nat
      /\ loop \in [Message -> {"tools", "code"}] /\ rounds \in [Message -> Nat]
      /\ loop[m] = "tools" => rounds[m] \in 0..MaxToolRounds
      /\ loop[m] = "code" => rounds[m] \in 1..MaxCodeRounds
  BY ChatAssumption DEF ChatAssumption, TypeOK
<1>1. Produce(m, Out(m), "working")
  BY DEF CallTools, RunCode
<1>2. OnwardInv' /\ pc' = [pc EXCEPT ![m] = "working"]
  BY <1>1, SaveGoesOn DEF Produce
<1>3. \A n \in Message \ {m} : pc'[n] = pc[n]
  BY <1>2, PcTypes
<1>4. CASE CallTools(m)
  <2>1. /\ loop' = loop /\ loop[m] = "tools" /\ rounds[m] < MaxToolRounds
        /\ rounds' = [rounds EXCEPT ![m] = rounds[m] + 1]
    BY <1>4 DEF CallTools
  <2>2. /\ rounds'[m] = rounds[m] + 1
        /\ \A n \in Message \ {m} : rounds'[n] = rounds[n]
    BY <1>0, <2>1
  <2>. QED
    BY <1>0, <1>2, <1>3, <2>1, <2>2 DEF RoundsLeft
<1>5. CASE RunCode(m)
  <2>1. /\ loop[m] = "code" => rounds[m] < MaxCodeRounds
        /\ loop' = [loop EXCEPT ![m] = "code"]
        /\ rounds' = [rounds EXCEPT ![m] = IF loop[m] = "code" THEN rounds[m] + 1 ELSE 1]
    BY <1>5 DEF RunCode
  <2>2. /\ loop'[m] = "code"
        /\ rounds'[m] = IF loop[m] = "code" THEN rounds[m] + 1 ELSE 1
        /\ \A n \in Message \ {m} : loop'[n] = loop[n] /\ rounds'[n] = rounds[n]
    BY <1>0, <2>1
  <2>3. MaxCodeRounds # 0
    BY ChatAssumption DEF ChatAssumption
  <2>. QED
    BY <1>0, <1>2, <1>3, <2>1, <2>2, <2>3 DEF RoundsLeft
<1>. QED
  BY <1>4, <1>5

(* Every other step of a task leaves the rounds alone and begins none.     *)
LEMMA RoundKept ==
    ASSUME TypeOK, OnwardInv, NEW m \in Message, TaskStep(m),
           ~CallTools(m), ~RunCode(m)
    PROVE  /\ UNCHANGED loopVars
           /\ \A n \in Message : pc'[n] = pc[n] \/ pc'[n] # "working"
           /\ OnwardInv'
<1>. USE PcTypes DEF Onward, Over
<1>1. ASSUME NEW next,
             pc' = [pc EXCEPT ![m] = next] \/ pc' = [pc EXCEPT ![m] = "saving"],
             next # "working"
      PROVE  \A n \in Message : pc'[n] = pc[n] \/ pc'[n] # "working"
  BY <1>1
<1>2. ASSUME NEW lost, NEW next \in Onward \cup {"asking", "background", "cancelled"},
             Produce(m, lost, next) \/ (Upsert(m, lost, next) /\ next \in Onward)
      PROVE  OnwardInv' /\ \A n \in Message : pc'[n] = pc[n] \/ pc'[n] # "working"
  <2>1. next # "working"
    OBVIOUS
  <2>. QED
    BY <1>1, <1>2, <2>1, SaveGoesOn
<1>3. CASE Text(m) \/ Reason(m)
  BY <1>2, <1>3 DEF Text, Reason
<1>4. CASE Break(m) \/ Finish(m) \/ Refuse(m) \/ SayCancelled(m)
  BY <1>2, <1>4 DEF Break, Finish, Refuse, SayCancelled, SaveUnlessRealtime
<1>5. CASE Worked(m) \/ Answer(m) \/ Announce(m) \/ EndBackground(m)
  BY <1>2, <1>5 DEF Worked, Answer, Announce, EndBackground
<1>6. CASE Cancel(m) \/ CancelAgain(m) \/ CancelUnstarted(m)
  BY <1>2, <1>6 DEF Cancel, CancelAgain, CancelUnstarted
<1>7. CASE Start(m) \/ TitleRead(m) \/ TitleWrite(m)
  BY <1>7 DEF Start, TitleRead, TitleWrite, OnwardInv
<1>8. CASE Write(m)
  BY <1>8 DEF Write, OnwardInv
<1>9. UNCHANGED loopVars
  BY DEF TaskStep, StreamOver, GoOn, Start, Text, Reason, Finish, Break, Write, Worked, Answer,
         Refuse, Announce, TitleRead, TitleWrite, EndBackground, SayCancelled, Cancel,
         CancelAgain, CancelUnstarted, loopVars
<1>. QED
  BY <1>3, <1>4, <1>5, <1>6, <1>7, <1>8, <1>9 DEF TaskStep, StreamOver, GoOn

LEMMA RoundsStep ==
    ASSUME TypeOK, OnwardInv, [Next]_vars
    PROVE  /\ OnwardInv'
           /\ \A m \in Message :
                  /\ RoundsLeft(m)' \in 0..RoundsLeft(m)
                  /\ pc[m] # "working" /\ pc'[m] = "working" =>
                         RoundsLeft(m)' < RoundsLeft(m)
<1>1. \A m \in Message : RoundsLeft(m) \in Nat
  BY ChatAssumption DEF ChatAssumption, TypeOK, RoundsLeft
<1>2. \A m \in Message : RoundsLeft(m) \in 0..RoundsLeft(m)
  BY <1>1
<1>3. ASSUME NEW m \in Message, CallTools(m) \/ RunCode(m)
      PROVE  /\ OnwardInv'
             /\ \A n \in Message :
                    /\ RoundsLeft(n)' \in 0..RoundsLeft(n)
                    /\ pc[n] # "working" /\ pc'[n] = "working" =>
                           RoundsLeft(n)' < RoundsLeft(n)
  BY <1>2, <1>3, RoundBegins
<1>4. ASSUME OnwardInv', UNCHANGED loopVars,
             \A n \in Message : pc'[n] = pc[n] \/ pc'[n] # "working"
      PROVE  \A n \in Message :
                 /\ RoundsLeft(n)' \in 0..RoundsLeft(n)
                 /\ pc[n] # "working" /\ pc'[n] = "working" =>
                        RoundsLeft(n)' < RoundsLeft(n)
  <2>1. \A n \in Message : RoundsLeft(n)' = RoundsLeft(n)
    BY <1>4 DEF RoundsLeft, loopVars
  <2>. QED
    BY <1>2, <1>4, <2>1
<1>5. ASSUME NEW m \in Message, TaskStep(m), ~CallTools(m), ~RunCode(m)
      PROVE  /\ OnwardInv' /\ UNCHANGED loopVars
             /\ \A n \in Message : pc'[n] = pc[n] \/ pc'[n] # "working"
  BY <1>5, RoundKept
<1>6. CASE (\E old \in SUBSET Message \ {{}} : Post(old)) \/ PostWrite \/ DeleteChat \/ UNCHANGED vars
  <2>1. UNCHANGED <<pc, then, loopVars>>
    BY <1>6 DEF Post, PostWrite, DeleteChat, vars
  <2>. QED
    BY <1>4, <2>1 DEF OnwardInv
<1>. QED
  BY <1>3, <1>4, <1>5, <1>6 DEF Next

(* RoundsAreCounted: what Ends rests on.                                   *)
THEOREM RoundsRunOut == Spec => RoundsAreCounted
<1>1. Init => OnwardInv
  BY DEF Init, OnwardInv, Onward, Over
<1>2. TypeOK /\ OnwardInv /\ [Next]_vars => OnwardInv'
  BY RoundsStep
<1>3. TypeOK /\ OnwardInv /\ [Next]_vars
        => [\A m \in Message :
               /\ RoundsLeft(m)' \in 0..RoundsLeft(m)
               /\ pc[m] # "working" /\ pc'[m] = "working" =>
                      RoundsLeft(m)' < RoundsLeft(m)]_vars
  BY RoundsStep
<1>. QED
  BY <1>1, <1>2, <1>3, TypeCorrect, PTL DEF Spec, RoundsAreCounted
=============================================================================
