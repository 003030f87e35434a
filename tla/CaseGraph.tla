----------------------------- MODULE CaseGraph -----------------------------
(***************************************************************************)
(* One troubleshooting case and its graph: routers/cases_migrated.py over  *)
(* models/cases.py, with the background regeneration of a node.            *)
(*                                                                         *)
(* The handlers do not suspend between their statements, so one process    *)
(* runs them one after the other; only a regeneration suspends, while it   *)
(* awaits the model.  Several processes interleave their transactions, and *)
(* nothing makes these serializable: where what is written depends on what *)
(* was read, reading and writing are steps of their own.  A row that is    *)
(* gone when it is written makes the handler raise.                        *)
(*                                                                         *)
(* The JSON column `metadata` is not a mutable type of SQLAlchemy: a       *)
(* handler that changes the loaded dictionary in place and assigns it back *)
(* leaves nothing to flush.  Only a new dictionary is stored, which        *)
(* `metadata_ or {}` yields for an empty or missing one.                   *)
(***************************************************************************)
EXTENDS Naturals, Sequences

CONSTANTS Request,     \* requests that insert rows or regenerate, each made once
          MaxNodes,    \* bound on the nodes created
          MaxValue,    \* ratings and layouts are numbers from 1 to MaxValue
          Modes,       \* the deployments considered: several processes (TRUE), one
          MaxEdits,    \* bound on the handlers of one transaction that run
          MaxCrashes   \* bound on the crashes

ASSUME CaseAssumption ==
    /\ MaxNodes \in Nat /\ MaxValue \in Nat /\ MaxEdits \in Nat /\ MaxCrashes \in Nat
    /\ Modes \subseteq BOOLEAN

VARIABLES
    several,     \* whether several processes serve the case
    case,        \* the row of the case
    status,      \* node -> column status, "gone" without a row
    filled,      \* node -> its metadata is not empty
    rating,      \* node -> rating in its metadata, 0 without one
    edges,       \* pairs of source_node_id and target_node_id
    layout,      \* layout in the case's metadata, 0 when that is NULL
    used,        \* node ids given out so far: uuid4 as the next number
    todo,        \* request -> the rows its handler has yet to insert
    stage,       \* request -> where its regeneration is
    target,      \* request -> the node it regenerates, or 0
    stoppable,   \* request -> its regeneration is a background task
    copy,        \* request -> rating in the metadata its regeneration merges with
    open,        \* edits of metadata that was read as empty, yet to be written
    marked,      \* nodes whose status a regeneration's start set last (history)
    rated,       \* node -> the rating acknowledged last, or 0 (history)
    laidOut,     \* the layout acknowledged last, or 0 (history)
    edits,       \* handlers of one transaction so far, but for deletions of the case
    crashes      \* crashes so far

rowVars  == <<status, filled, rating, edges, marked, rated>>
caseVars == <<case, layout, laidOut>>
taskVars == <<stage, target, stoppable, copy>>

vars == <<several, caseVars, rowVars, used, todo, taskVars, open, edits, crashes>>

-----------------------------------------------------------------------------
Id       == 1..MaxNodes
Statuses == {"COMPLETED", "AWAITING_USER_INPUT", "PROCESSING"}
Values   == 1..MaxValue
Running  == {"created", "calling", "merging"}
Broken   == {"failed", "stopped", "lost"}

(* An edit of the metadata of a node, or of the case for 0: a rating, a    *)
(* layout, or for 0 a patch of something else; and a status, or none.      *)
EditOf == [of : 0..MaxNodes, value : 0..MaxValue, status : Statuses \cup {"same"}]

(* What one transaction of an inserting handler adds.                      *)
Rows == [nodes : SUBSET [id : Id, status : Statuses, filled : BOOLEAN],
         edges : SUBSET (Id \X Id)]

TypeOK ==
    /\ several \in Modes
    /\ case \in {"none", "there", "deleted"}
    /\ status \in [Id -> Statuses \cup {"gone"}]
    /\ filled \in [Id -> BOOLEAN]
    /\ rating \in [Id -> 0..MaxValue]
    /\ \A n \in Id : rating[n] # 0 => filled[n]
    /\ edges \subseteq Id \X Id
    /\ layout \in 0..MaxValue
    /\ used \in 0..MaxNodes
    /\ todo \in [Request -> Seq(Rows)]
    /\ stage \in [Request -> {"new", "inserting", "written", "found nothing"}
                                 \cup Running \cup Broken]
    /\ target \in [Request -> 0..MaxNodes]
    /\ stoppable \in [Request -> BOOLEAN]
    /\ copy \in [Request -> 0..MaxValue]
    /\ open \subseteq EditOf
    /\ marked \subseteq Id
    /\ rated \in [Id -> 0..MaxValue]
    /\ laidOut \in 0..MaxValue
    /\ edits \in 0..MaxEdits
    /\ crashes \in 0..MaxCrashes

Init ==
    /\ several \in Modes
    /\ case = "none"
    /\ status = [n \in Id |-> "gone"]
    /\ filled = [n \in Id |-> FALSE]
    /\ rating = [n \in Id |-> 0]
    /\ edges = {}
    /\ layout = 0
    /\ used = 0
    /\ todo = [r \in Request |-> <<>>]
    /\ stage = [r \in Request |-> "new"]
    /\ target = [r \in Request |-> 0]
    /\ stoppable = [r \in Request |-> FALSE]
    /\ copy = [r \in Request |-> 0]
    /\ open = {}
    /\ marked = {}
    /\ rated = [n \in Id |-> 0]
    /\ laidOut = 0
    /\ edits = 0
    /\ crashes = 0

Nodes == {n \in Id : status[n] # "gone"}

Quiet == \A r \in Request : todo[r] = <<>>

(* One process runs a handler only when no other is between transactions.  *)
Free == several \/ Quiet

-----------------------------------------------------------------------------
(***************************************************************************)
(* Handlers that insert: the case is looked up first and not again.        *)
(***************************************************************************)

NodeRow(n, s, full) == [id |-> n, status |-> s, filled |-> full]
OneNode(n, s, full) == [nodes |-> {NodeRow(n, s, full)}, edges |-> {}]
OneEdge(m, n)       == [nodes |-> {}, edges |-> {<<m, n>>}]

Inserting(r, rows, ids) ==
    /\ Free
    /\ stage[r] = "new"
    /\ used + ids <= MaxNodes
    /\ stage' = [stage EXCEPT ![r] = "inserting"]
    /\ todo' = [todo EXCEPT ![r] = rows]
    /\ used' = used + ids
    /\ UNCHANGED <<several, layout, laidOut, rowVars, target, stoppable, copy,
                   open, edits, crashes>>

(* The row of the case is committed before the question, its analysis and  *)
(* the edge between them are.                                              *)
CreateCase(r) ==
    /\ case = "none"
    /\ case' = "there"
    /\ Inserting(r, <<[nodes |-> {NodeRow(used + 1, "COMPLETED", TRUE),
                                  NodeRow(used + 2, "PROCESSING", TRUE)},
                       edges |-> {<<used + 1, used + 2>>}]>>, 2)

CreateNode(r, s, full) ==
    /\ case = "there"
    /\ Inserting(r, <<OneNode(used + 1, s, full)>>, 1)
    /\ UNCHANGED case

(* Neither end is looked up.                                               *)
CreateEdge(r, m, n) ==
    /\ case = "there"
    /\ Inserting(r, <<OneEdge(m, n)>>, 0)
    /\ UNCHANGED case

CreateInteraction(r, parent) ==
    LET answer == used + 1  analysis == used + 2 IN
    /\ case = "there"
    /\ Inserting(r, <<OneNode(answer, "COMPLETED", TRUE),
                      OneNode(analysis, "PROCESSING", TRUE),
                      OneEdge(parent, answer),
                      OneEdge(answer, analysis)>>, 2)
    /\ UNCHANGED case

(* The next transaction of an inserting handler.                           *)
Insert(r) ==
    LET rows  == Head(todo[r])
        added == {row.id : row \in rows.nodes}
        Row(n) == CHOOSE row \in rows.nodes : row.id = n
    IN
    /\ todo[r] # <<>>
    /\ todo' = [todo EXCEPT ![r] = Tail(@)]
    /\ status' = [n \in Id |-> IF n \in added THEN Row(n).status ELSE status[n]]
    /\ filled' = [n \in Id |-> IF n \in added THEN Row(n).filled ELSE filled[n]]
    /\ edges' = edges \cup rows.edges
    /\ marked' = marked \ added
    /\ UNCHANGED <<several, caseVars, rating, rated, used, taskVars, open, edits, crashes>>

-----------------------------------------------------------------------------
(***************************************************************************)
(* Handlers of one transaction                                             *)
(***************************************************************************)

Edit ==
    /\ Free
    /\ case = "there"
    /\ edits < MaxEdits
    /\ edits' = edits + 1

(* faulty: only the row's own columns are considered *)
DropKeepsRating(gone) ==
    /\ status' = [n \in Id |-> IF n \in gone THEN "gone" ELSE status[n]]
    /\ filled' = [n \in Id |-> n \notin gone /\ filled[n]]
    /\ UNCHANGED <<rating, rated>>
    /\ marked' = marked \ gone

(* A row that is gone takes what was said about it along.                  *)
Drop(gone) ==
    /\ status' = [n \in Id |-> IF n \in gone THEN "gone" ELSE status[n]]
    /\ filled' = [n \in Id |-> n \notin gone /\ filled[n]]
    /\ rating' = [n \in Id |-> IF n \in gone THEN 0 ELSE rating[n]]
    /\ rated' = [n \in Id |-> IF n \in gone THEN 0 ELSE rated[n]]
    /\ marked' = marked \ gone

DeleteCase ==
    /\ Free
    /\ case = "there"
    /\ case' = "deleted"
    /\ layout' = 0
    /\ laidOut' = 0
    /\ Drop(Id)
    /\ edges' = {}
    /\ UNCHANGED <<several, used, todo, taskVars, open, edits, crashes>>

(* The edges of the node stay.                                             *)
DeleteNode(n) ==
    /\ Edit
    /\ n \in Nodes
    /\ Drop({n})
    /\ UNCHANGED <<several, caseVars, edges, used, todo, taskVars, open, crashes>>

DeleteEdge(e) ==
    /\ Edit
    /\ e \in edges
    /\ edges' = edges \ {e}
    /\ UNCHANGED <<several, caseVars, status, filled, rating, marked, rated, used, todo,
                   taskVars, open, crashes>>

SetStatus(n, s) ==
    IF s = "same"
    THEN UNCHANGED <<status, marked>>
    ELSE status' = [status EXCEPT ![n] = s] /\ marked' = marked \ {n}

(* The new dictionary becomes the metadata, and the edit is acknowledged.  *)
SetMetadata(n, v) ==
    /\ filled' = [filled EXCEPT ![n] = TRUE]
    /\ rating' = [rating EXCEPT ![n] = v]
    /\ rated' = [rated EXCEPT ![n] = IF v = 0 THEN @ ELSE v]

(* With several processes the transaction is still to write.               *)
Reads(edit) ==
    /\ open' = open \cup {edit}
    /\ UNCHANGED <<rowVars, caseVars>>

(* rate_node and update_node_metadata.                                     *)
RateNode(n, v) ==
    /\ Edit
    /\ n \in Nodes
    /\ IF several /\ ~filled[n]
       THEN Reads([of |-> n, value |-> v, status |-> "same"])
       ELSE /\ IF filled[n]
               THEN rated' = [rated EXCEPT ![n] = v] /\ UNCHANGED <<filled, rating>>
               ELSE SetMetadata(n, v)
            /\ UNCHANGED <<caseVars, status, edges, marked, open>>
    /\ UNCHANGED <<several, used, todo, taskVars, crashes>>

(* A patch of the metadata says nothing of the rating here; the title and  *)
(* the content are left out.                                               *)
UpdateNode(n, s, patch) ==
    /\ Edit
    /\ n \in Nodes
    /\ s # "same" \/ patch
    /\ IF several /\ patch /\ ~filled[n]
       THEN Reads([of |-> n, value |-> 0, status |-> s])
       ELSE /\ SetStatus(n, s)
            /\ filled' = [filled EXCEPT ![n] = @ \/ patch]
            /\ UNCHANGED <<caseVars, rating, rated, edges, open>>
    /\ UNCHANGED <<several, used, todo, taskVars, crashes>>

SaveLayout(v) ==
    /\ Edit
    /\ IF several /\ layout = 0
       THEN Reads([of |-> 0, value |-> v, status |-> "same"])
       ELSE /\ laidOut' = v
            /\ layout' = IF layout = 0 THEN v ELSE layout
            /\ UNCHANGED <<case, rowVars, open>>
    /\ UNCHANGED <<several, used, todo, taskVars, crashes>>

(* The whole column is written, whatever it holds by now.                  *)
WriteNode(edit) ==
    /\ several
    /\ edit \in open /\ edit.of # 0
    /\ open' = open \ {edit}
    /\ IF edit.of \in Nodes
       THEN SetStatus(edit.of, edit.status) /\ SetMetadata(edit.of, edit.value)
       ELSE UNCHANGED <<status, marked, filled, rating, rated>>
    /\ UNCHANGED <<several, caseVars, edges, used, todo, taskVars, edits, crashes>>

WriteLayout(edit) ==
    /\ several
    /\ edit \in open /\ edit.of = 0
    /\ open' = open \ {edit}
    /\ IF case = "there"
       THEN layout' = edit.value /\ laidOut' = edit.value
       ELSE UNCHANGED <<layout, laidOut>>
    /\ UNCHANGED <<several, case, rowVars, used, todo, taskVars, edits, crashes>>

-----------------------------------------------------------------------------
(***************************************************************************)
(* Regeneration                                                            *)
(***************************************************************************)

(* The node is marked, then the task is created, or run in the request: at *)
(* once, so that a process that works alone has read the node by then.     *)
Regenerate(r, n, background) ==
    /\ Free
    /\ stage[r] = "new"
    /\ case = "there"
    /\ n \in Nodes
    /\ status' = [status EXCEPT ![n] = "PROCESSING"]
    /\ marked' = marked \cup {n}
    /\ stage' = [stage EXCEPT ![r] = IF background \/ several THEN "created" ELSE "calling"]
    /\ target' = [target EXCEPT ![r] = n]
    /\ stoppable' = [stoppable EXCEPT ![r] = background]
    /\ UNCHANGED <<several, caseVars, filled, rating, rated, edges, used, todo, copy, open,
                   edits, crashes>>

(* What a step of a task leaves alone.                                     *)
TaskFrame == UNCHANGED <<several, caseVars, edges, marked, rated, used, todo, target,
                         stoppable, open, edits, crashes>>

(* The task reads the node and calls the model.                            *)
TaskRead(r) ==
    /\ Free
    /\ stage[r] = "created"
    /\ stage' = [stage EXCEPT ![r] = IF target[r] \in Nodes THEN "calling" ELSE "found nothing"]
    /\ UNCHANGED <<status, filled, rating, copy>>
    /\ TaskFrame

(* faulty: the node read before the call is merged back *)
TaskMerges(r) ==
    /\ ~several /\ Free
    /\ stage[r] = "calling"
    /\ stage' = [stage EXCEPT ![r] = "written"]
    /\ status' = [status EXCEPT ![target[r]] = "COMPLETED"]
    /\ filled' = [filled EXCEPT ![target[r]] = TRUE]
    /\ UNCHANGED <<rating, copy>>
    /\ TaskFrame

(* faulty: the metadata of the regeneration replaces what is there *)
TaskReplaces(r) ==
    /\ ~several /\ Free
    /\ stage[r] = "calling"
    /\ IF target[r] \in Nodes
       THEN /\ stage' = [stage EXCEPT ![r] = "written"]
            /\ status' = [status EXCEPT ![target[r]] = "COMPLETED"]
            /\ filled' = [filled EXCEPT ![target[r]] = TRUE]
            /\ rating' = [rating EXCEPT ![target[r]] = 0]
       ELSE /\ stage' = [stage EXCEPT ![r] = "found nothing"]
            /\ UNCHANGED <<status, filled, rating>>
    /\ UNCHANGED copy
    /\ TaskFrame

(* faulty: the status is left to the handler *)
TaskKeepsStatus(r) ==
    /\ ~several /\ Free
    /\ stage[r] = "calling"
    /\ stage' = [stage EXCEPT ![r] = IF target[r] \in Nodes THEN "written" ELSE "found nothing"]
    /\ UNCHANGED <<status, filled, rating, copy>>
    /\ TaskFrame

(* The answer is stored in the node as it is by now; its metadata becomes  *)
(* a new dictionary with what is there.                                    *)
TaskWrite(r) ==
    /\ ~several /\ Free
    /\ stage[r] = "calling"
    /\ IF target[r] \in Nodes
       THEN /\ stage' = [stage EXCEPT ![r] = "written"]
            /\ status' = [status EXCEPT ![target[r]] = "COMPLETED"]
            /\ filled' = [filled EXCEPT ![target[r]] = TRUE]
       ELSE /\ stage' = [stage EXCEPT ![r] = "found nothing"]
            /\ UNCHANGED <<status, filled>>
    /\ UNCHANGED <<rating, copy>>
    /\ TaskFrame

(* With several processes: what is there is what the task read, and its    *)
(* UPDATE writes that back.                                                *)
TaskMerge(r) ==
    /\ several
    /\ stage[r] = "calling"
    /\ IF target[r] \in Nodes
       THEN /\ stage' = [stage EXCEPT ![r] = "merging"]
            /\ copy' = [copy EXCEPT ![r] = rating[target[r]]]
       ELSE /\ stage' = [stage EXCEPT ![r] = "found nothing"]
            /\ UNCHANGED copy
    /\ UNCHANGED <<status, filled, rating>>
    /\ TaskFrame

TaskCommit(r) ==
    /\ several
    /\ stage[r] = "merging"
    /\ IF target[r] \in Nodes
       THEN /\ stage' = [stage EXCEPT ![r] = "written"]
            /\ status' = [status EXCEPT ![target[r]] = "COMPLETED"]
            /\ filled' = [filled EXCEPT ![target[r]] = TRUE]
            /\ rating' = [rating EXCEPT ![target[r]] = copy[r]]
       ELSE /\ stage' = [stage EXCEPT ![r] = "failed"]
            /\ UNCHANGED <<status, filled, rating>>
    /\ UNCHANGED copy
    /\ TaskFrame

(* No model, a filter that refuses, an error of the model, no content: the *)
(* task ends with the exception.                                           *)
TaskFail(r) ==
    /\ Free
    /\ stage[r] = "calling"
    /\ stage' = [stage EXCEPT ![r] = "failed"]
    /\ UNCHANGED <<status, filled, rating, copy>>
    /\ TaskFrame

(* stop_node_tasks cancels what it finds; it may miss one (LocalTasks).    *)
StopTask(r) ==
    /\ Free
    /\ case = "there"
    /\ target[r] \in Nodes
    /\ stage[r] \in {"created", "calling"}
    /\ stoppable[r]
    /\ stage' = [stage EXCEPT ![r] = "stopped"]
    /\ UNCHANGED <<status, filled, rating, copy>>
    /\ TaskFrame

(* A process dies, with its handlers and tasks: of several, some edits are *)
(* left to the others.                                                     *)
Crash(dying, left) ==
    /\ crashes < MaxCrashes
    /\ crashes' = crashes + 1
    /\ dying # {} \/ left # open
    /\ ~several => dying = Request
    /\ todo' = [r \in Request |-> IF r \in dying THEN <<>> ELSE todo[r]]
    /\ stage' = [r \in Request |->
                    IF r \in dying /\ stage[r] \in Running THEN "lost" ELSE stage[r]]
    /\ open' = left
    /\ UNCHANGED <<several, caseVars, rowVars, used, target, stoppable, copy, edits>>

-----------------------------------------------------------------------------
HandlerStep ==
    \/ DeleteCase
    \/ \E n \in Id : DeleteNode(n)
    \/ \E e \in edges : DeleteEdge(e)
    \/ \E n \in Id, v \in Values : RateNode(n, v)
    \/ \E n \in Id, s \in Statuses \cup {"same"}, patch \in BOOLEAN : UpdateNode(n, s, patch)
    \/ \E v \in Values : SaveLayout(v)
    \/ \E edit \in open : WriteNode(edit) \/ WriteLayout(edit)

RequestStep(r) ==
    \/ CreateCase(r)
    \/ \E s \in Statuses, full \in BOOLEAN : CreateNode(r, s, full)
    \/ \E m, n \in 1..used : CreateEdge(r, m, n)
    \/ \E parent \in 1..used : CreateInteraction(r, parent)
    \/ Insert(r)
    \/ \E n \in Id, background \in BOOLEAN : Regenerate(r, n, background)

TaskStep(r) ==
    \/ TaskRead(r)
    \/ TaskWrite(r)
    \/ TaskMerge(r)
    \/ TaskCommit(r)
    \/ TaskFail(r)
    \/ StopTask(r)

Next ==
    \/ HandlerStep
    \/ \E r \in Request : RequestStep(r) \/ TaskStep(r)
    \/ \E dying \in SUBSET Request, left \in SUBSET open : Crash(dying, left)

Spec == Init /\ [][Next]_vars

-----------------------------------------------------------------------------
(***************************************************************************)
(* Properties                                                              *)
(***************************************************************************)

(* One process leaves nothing of a deleted case behind, whatever was being *)
(* regenerated when it was deleted and whatever a crash had cut short.     *)
DeletedIsGone ==
    case = "deleted" /\ ~several => Nodes = {} /\ edges = {}

(* A node that a regeneration left PROCESSING is being worked on, or a     *)
(* regeneration of it has failed, was stopped or was lost: overlapping     *)
(* regenerations and other writers do not leave it so.                     *)
ProcessingIsWorkedOn ==
    \A n \in Nodes : status[n] = "PROCESSING" /\ n \in marked =>
        \E r \in Request : target[r] = n /\ stage[r] \in Running \cup Broken

(* In one process a rating that was stored stays with its node, through    *)
(* regenerations that were under way when it was given, too.  With several *)
(* it is lost only to a transaction that had read the node without it.     *)
RatingSurvives ==
    [][\A n \in Nodes : n \in Nodes' /\ rating[n] # 0 /\ rating'[n] # rating[n] =>
          /\ several
          /\ \/ \E edit \in open : edit.of = n
             \/ \E r \in Request : stage[r] = "merging" /\ target[r] = n]_vars

-----------------------------------------------------------------------------
(***************************************************************************)
(* What the plan of the migration says and the code refutes.               *)
(***************************************************************************)

(* Plan.md: a rating is written into the node's metadata, the layout is    *)
(* saved in the case's: what was acknowledged last is what is stored.      *)
AcknowledgedIsStored ==
    /\ \A n \in Nodes : rated[n] # 0 => rating[n] = rated[n]
    /\ laidOut # 0 => layout = laidOut
=============================================================================
