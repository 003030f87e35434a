----------------------------- MODULE ChatStream -----------------------------
(***************************************************************************)
(* The responses to one chat: utils/middleware.py's response_handler, one  *)
(* task for each assistant message, over the chat's JSON document that     *)
(* models/chats.py reads and rewrites as a whole.                          *)
(*                                                                         *)
(* The document is modelled by what of it is up to date: <<m, "all">> when *)
(* the stored content of message m is what content_blocks serialise to,    *)
(* <<m, "text">> when it has at least the text that the model streamed.    *)
(* The delta that closes a code block counts as output and not as text: it *)
(* leaves the loop before the save of ENABLE_REALTIME_CHAT_SAVE.           *)
(*                                                                         *)
(* A step ends where the task awaits.  Reading the document and writing it *)
(* are two transactions without an await between: one process does both in *)
(* one step, several processes interleave them.                            *)
(***************************************************************************)
EXTENDS Naturals, FiniteSets

CONSTANTS Message,        \* the messages that are being answered
          MaxToolRounds,  \* MAX_TOOL_CALL_RETRIES
          MaxCodeRounds,  \* MAX_RETRIES of the code interpreter
          MaxPosts,       \* bound on the chats and messages a client posts
          Modes           \* the deployments: several processes with Redis (TRUE), one

ASSUME ChatAssumption ==
    /\ MaxToolRounds \in Nat /\ MaxCodeRounds \in Nat \ {0} /\ MaxPosts \in Nat
    /\ Modes \subseteq BOOLEAN

VARIABLES
    several,      \* whether several processes answer the chat
    realtime,     \* ENABLE_REALTIME_CHAT_SAVE
    alive,        \* whether the chat has a row
    db,           \* the parts of its document that are up to date
    overwritten,  \* messages whose content a client has posted since the last save
    pc,           \* message -> where its task is
    then,         \* message -> where it goes on after the save it is making
    loop,         \* message -> the loop it is in: of tools or of code
    rounds,       \* message -> rounds of that loop
    snap,         \* message -> the parts up to date in the document its task has read
    posting,      \* messages that the client's request is overwriting, or {}
    posted,       \* the parts up to date in the document that request has read
    posts         \* requests of clients so far

docVars  == <<db, overwritten, snap, posted>>
modeVars == <<several, realtime>>
loopVars == <<loop, rounds>>
vars     == <<modeVars, alive, docVars, pc, then, loopVars, posting, posts>>

-----------------------------------------------------------------------------
Of(ms) == ms \X {"all", "text"}
Parts  == Of(Message)

Out(m) == {<<m, "all">>}

(* Where a task awaits something that a cancellation interrupts.           *)
Awaiting == {"streaming", "working", "asking", "announcing", "background"}
Over     == {"ended", "failed"}

TypeOK ==
    /\ several \in Modes
    /\ realtime \in BOOLEAN
    /\ alive \in BOOLEAN
    /\ db \subseteq Parts
    /\ overwritten \subseteq Message
    /\ pc \in [Message -> Awaiting \cup Over \cup {"new", "saving", "titling", "cancelled"}]
    /\ then \in [Message -> Awaiting \cup Over]
    /\ loop \in [Message -> {"tools", "code"}]
    /\ \A m \in Message : \/ loop[m] = "tools" /\ rounds[m] \in 0..MaxToolRounds
                          \/ loop[m] = "code" /\ rounds[m] \in 1..MaxCodeRounds
    /\ rounds \in [Message -> Nat]
    /\ snap \in [Message -> SUBSET Parts]
    /\ posting \subseteq Message
    /\ posted \subseteq Parts
    /\ posts \in 0..MaxPosts

Init ==
    /\ several \in Modes
    /\ realtime \in BOOLEAN
    /\ alive = TRUE
    /\ db = Parts
    /\ overwritten = {}
    /\ pc = [m \in Message |-> "new"]
    /\ then = [m \in Message |-> "ended"]
    /\ loop = [m \in Message |-> "tools"]
    /\ rounds = [m \in Message |-> 0]
    /\ snap = [m \in Message |-> {}]
    /\ posting = {}
    /\ posted = {}
    /\ posts = 0

-----------------------------------------------------------------------------
(***************************************************************************)
(* What a task does to content_blocks and to the document                  *)
(***************************************************************************)

(* content_blocks grow: no copy of the document has the parts `lost`.      *)
Produce(m, lost, next) ==
    /\ db' = db \ lost
    /\ snap' = [n \in Message |-> snap[n] \ lost]
    /\ posted' = posted \ lost
    /\ pc' = [pc EXCEPT ![m] = next]
    /\ UNCHANGED <<overwritten, then>>

(* upsert_message_to_chat_by_id_and_message_id, after they have grown.     *)
Upsert(m, lost, next) ==
    /\ posted' = posted \ lost
    /\ IF several
       THEN /\ db' = db \ lost
            /\ snap' = [n \in Message |-> (IF n = m THEN db ELSE snap[n]) \ lost]
            /\ pc' = [pc EXCEPT ![m] = "saving"]
            /\ then' = [then EXCEPT ![m] = next]
            /\ UNCHANGED overwritten
       ELSE /\ db' = IF alive THEN db \cup Of({m}) ELSE db \ lost
            /\ snap' = [n \in Message |-> snap[n] \ lost]
            /\ pc' = [pc EXCEPT ![m] = next]
            /\ overwritten' = overwritten \ {m}
            /\ UNCHANGED then

(* The second transaction writes the document that the first has read; it  *)
(* does nothing when the row is gone.                                      *)
Write(m) ==
    /\ pc[m] = "saving"
    /\ db' = IF alive THEN snap[m] \cup Of({m}) ELSE db
    /\ overwritten' = overwritten \ {m}
    /\ snap' = [snap EXCEPT ![m] = {}]
    /\ pc' = [pc EXCEPT ![m] = then[m]]
    /\ then' = [then EXCEPT ![m] = "ended"]
    /\ UNCHANGED <<modeVars, alive, loopVars, posting, posted, posts>>

(* The save at the end of a response, or of a cancelled one.               *)
SaveUnlessRealtime(m, lost, next) ==
    IF realtime THEN Produce(m, lost, next) ELSE Upsert(m, lost, next)

-----------------------------------------------------------------------------
(***************************************************************************)
(* The stream of a model: stream_body_handler                              *)
(***************************************************************************)

(* The task goes on from the content that the message has.                 *)
Start(m) ==
    /\ pc[m] = "new"
    /\ pc' = [pc EXCEPT ![m] = "streaming"]
    /\ db' = db \cup Of({m})
    /\ overwritten' = overwritten \ {m}
    /\ UNCHANGED <<modeVars, alive, then, loopVars, snap, posting, posted, posts>>

(* faulty: the save comes before the text is appended *)
TextSavedFirst(m) ==
    /\ pc[m] = "streaming"
    /\ Produce(m, Of({m}), "streaming")
    /\ UNCHANGED <<modeVars, alive, loopVars, posting, posts>>

Text(m) ==
    /\ pc[m] = "streaming"
    /\ IF realtime
       THEN Upsert(m, Of({m}), "streaming")
       ELSE Produce(m, Of({m}), "streaming")
    /\ UNCHANGED <<modeVars, alive, loopVars, posting, posts>>

(* Reasoning is shown and not saved.                                       *)
Reason(m) ==
    /\ pc[m] = "streaming"
    /\ Produce(m, Out(m), "streaming")
    /\ UNCHANGED <<modeVars, alive, loopVars, posting, posts>>

(* The body of the first response raises what nobody catches; that of a    *)
(* later one ends its loop, and the response as if it had been complete.   *)
Break(m) ==
    /\ pc[m] = "streaming"
    /\ IF loop[m] = "tools" /\ rounds[m] = 0
       THEN Produce(m, {}, "failed")
       ELSE SaveUnlessRealtime(m, {}, "announcing")
    /\ UNCHANGED <<modeVars, alive, loopVars, posting, posts>>

-----------------------------------------------------------------------------
(***************************************************************************)
(* The loops after it                                                      *)
(***************************************************************************)

(* faulty: a round is not counted *)
UncountedTools(m) ==
    /\ pc[m] = "streaming"
    /\ loop[m] = "tools"
    /\ rounds[m] < MaxToolRounds
    /\ Produce(m, Out(m), "working")
    /\ UNCHANGED <<modeVars, alive, loopVars, posting, posts>>

(* faulty: one round too many *)
ToolsOnceMore(m) ==
    /\ pc[m] = "streaming"
    /\ loop[m] = "tools"
    /\ rounds[m] <= MaxToolRounds
    /\ rounds' = [rounds EXCEPT ![m] = @ + 1]
    /\ Produce(m, Out(m), "working")
    /\ UNCHANGED <<modeVars, alive, loop, posting, posts>>

(* The stream ended with tool calls.                                       *)
CallTools(m) ==
    /\ pc[m] = "streaming"
    /\ loop[m] = "tools"
    /\ rounds[m] < MaxToolRounds
    /\ rounds' = [rounds EXCEPT ![m] = @ + 1]
    /\ Produce(m, Out(m), "working")
    /\ UNCHANGED <<modeVars, alive, loop, posting, posts>>

(* The stream ended, or broke, in a block of code, and no tool is called.  *)
RunCode(m) ==
    /\ pc[m] = "streaming"
    /\ loop[m] = "code" => rounds[m] < MaxCodeRounds
    /\ loop' = [loop EXCEPT ![m] = "code"]
    /\ rounds' = [rounds EXCEPT ![m] = IF loop[m] = "code" THEN @ + 1 ELSE 1]
    /\ Produce(m, Out(m), "working")
    /\ UNCHANGED <<modeVars, alive, posting, posts>>

(* The tools' results, or the output of the code; an error is a result.    *)
Worked(m) ==
    /\ pc[m] = "working"
    /\ Produce(m, Out(m), "asking")
    /\ UNCHANGED <<modeVars, alive, loopVars, posting, posts>>

Answer(m) ==
    /\ pc[m] = "asking"
    /\ Produce(m, {}, "streaming")
    /\ UNCHANGED <<modeVars, alive, loopVars, posting, posts>>

(* The model answers with an error or without a stream: the loop is left.  *)
Refuse(m) ==
    /\ pc[m] = "asking"
    /\ SaveUnlessRealtime(m, {}, "announcing")
    /\ UNCHANGED <<modeVars, alive, loopVars, posting, posts>>

(* The stream ended with nothing more to do, or a limit was reached.       *)
Finish(m) ==
    /\ pc[m] = "streaming"
    /\ SaveUnlessRealtime(m, {}, "announcing")
    /\ UNCHANGED <<modeVars, alive, loopVars, posting, posts>>

(* The event with done = True has been sent.                               *)
Announce(m) ==
    /\ pc[m] = "announcing"
    /\ Produce(m, {}, "background")
    /\ UNCHANGED <<modeVars, alive, loopVars, posting, posts>>

(* The follow-ups or the title are generated and written, or nothing is:   *)
(* of these saves a response makes at most one here.                       *)
TitleRead(m) ==
    /\ pc[m] = "background"
    /\ several
    /\ snap' = [snap EXCEPT ![m] = db]
    /\ pc' = [pc EXCEPT ![m] = "titling"]
    /\ UNCHANGED <<modeVars, alive, db, overwritten, then, loopVars, posting, posted, posts>>

TitleWrite(m) ==
    /\ pc[m] = "titling"
    /\ db' = IF alive THEN snap[m] ELSE db
    /\ snap' = [snap EXCEPT ![m] = {}]
    /\ pc' = [pc EXCEPT ![m] = "ended"]
    /\ UNCHANGED <<modeVars, alive, overwritten, then, loopVars, posting, posted, posts>>

EndBackground(m) ==
    /\ pc[m] = "background"
    /\ Produce(m, {}, "ended")
    /\ UNCHANGED <<modeVars, alive, loopVars, posting, posts>>

-----------------------------------------------------------------------------
(***************************************************************************)
(* Cancellation, the client, and the chat's deletion                       *)
(***************************************************************************)

(* The exception is raised where the task awaits; no `except Exception` on *)
(* the way catches it.  The task begins to emit task-cancelled.            *)
Cancel(m) ==
    /\ pc[m] \in Awaiting
    /\ Produce(m, {}, "cancelled")
    /\ UNCHANGED <<modeVars, alive, loopVars, posting, posts>>

(* With Redis every stop command cancels, also during that emission.  In   *)
(* one process stop_task has popped the task.                              *)
CancelAgain(m) ==
    /\ pc[m] = "cancelled"
    /\ several
    /\ Produce(m, {}, "failed")
    /\ UNCHANGED <<modeVars, alive, loopVars, posting, posts>>

(* A task that is cancelled before its first step does not run at all.     *)
CancelUnstarted(m) ==
    /\ pc[m] = "new"
    /\ Produce(m, {}, "failed")
    /\ UNCHANGED <<modeVars, alive, loopVars, posting, posts>>

(* faulty: a cancelled response is left as it was stored *)
CancelledUnsaved(m) ==
    /\ pc[m] = "cancelled"
    /\ Produce(m, {}, "ended")
    /\ UNCHANGED <<modeVars, alive, loopVars, posting, posts>>

SayCancelled(m) ==
    /\ pc[m] = "cancelled"
    /\ SaveUnlessRealtime(m, {}, "ended")
    /\ UNCHANGED <<modeVars, alive, loopVars, posting, posts>>

(* A client posts a chat, or the content of a message: what it says of the *)
(* messages `old` is not what their tasks have produced.                   *)
Post(old) ==
    /\ alive
    /\ posting = {}
    /\ posts < MaxPosts
    /\ posts' = posts + 1
    /\ IF several
       THEN /\ posting' = old
            /\ posted' = db
            /\ UNCHANGED <<db, overwritten>>
       ELSE /\ db' = db \ Of(old)
            /\ overwritten' = overwritten \cup old
            /\ UNCHANGED <<posting, posted>>
    /\ UNCHANGED <<modeVars, alive, pc, then, loopVars, snap>>

PostWrite ==
    /\ posting # {}
    /\ db' = IF alive THEN posted \ Of(posting) ELSE db
    /\ overwritten' = overwritten \cup posting
    /\ posting' = {}
    /\ posted' = {}
    /\ UNCHANGED <<modeVars, alive, pc, then, loopVars, snap, posts>>

DeleteChat ==
    /\ alive
    /\ alive' = FALSE
    /\ UNCHANGED <<modeVars, docVars, pc, then, loopVars, posting, posts>>

-----------------------------------------------------------------------------
StreamOver(m) == CallTools(m) \/ RunCode(m) \/ Finish(m) \/ Break(m)

GoOn(m) ==
    \/ Write(m) \/ Worked(m) \/ Answer(m) \/ Refuse(m)
    \/ Announce(m) \/ TitleRead(m) \/ TitleWrite(m) \/ EndBackground(m)
    \/ SayCancelled(m)

TaskStep(m) ==
    \/ Start(m) \/ Text(m) \/ Reason(m) \/ StreamOver(m) \/ GoOn(m)
    \/ Cancel(m) \/ CancelAgain(m) \/ CancelUnstarted(m)

Next ==
    \/ \E m \in Message : TaskStep(m)
    \/ \E old \in SUBSET Message \ {{}} : Post(old)
    \/ PostWrite
    \/ DeleteChat

(* What a task awaits comes: emissions and tools return, models answer.    *)
(* And the answer of a model is finite, however often it pauses to be      *)
(* saved.  Nothing makes a client or a user act.                           *)
Fairness ==
    \A m \in Message : WF_vars(GoOn(m)) /\ SF_vars(StreamOver(m))

Spec == Init /\ [][Next]_vars /\ Fairness

-----------------------------------------------------------------------------
(***************************************************************************)
(* Properties                                                              *)
(***************************************************************************)

(* One process has stored all of a response before it says `done`, and     *)
(* keeps it: after rounds of tools and code, after a later stream broke,   *)
(* after a cancellation, and beside the other responses of the chat.       *)
StoredWhenOver ==
    ~several /\ ~realtime /\ alive =>
        \A m \in Message \ overwritten :
            pc[m] \in {"announcing", "background", "ended"} => <<m, "all">> \in db

(* With ENABLE_REALTIME_CHAT_SAVE, one process has stored the text of every *)
(* response at every await: a crash, an exception or a second cancellation *)
(* does not lose it.                                                       *)
RealtimeKeepsUp ==
    ~several /\ realtime /\ alive => Of(Message \ overwritten) \cap (Message \X {"text"}) \subseteq db

(* A response ends, whatever tools and code the model asks for.            *)
Ends == \A m \in Message : pc[m] = "streaming" ~> pc[m] \in Over
=============================================================================
