------------------------------ MODULE Knowledge ------------------------------
(***************************************************************************)
(* The files of one knowledge base: the list of ids in its row (table      *)
(* knowledge), the rows of the files (table file) and the base's           *)
(* collection of the vector database, under routers/knowledge.py, the      *)
(* deletion of a file in routers/files.py and the requests of              *)
(* routers/retrieval.py that name the collection, in one process.          *)
(*                                                                         *)
(* Adding, updating and removing files, and whatever routers/retrieval.py  *)
(* does to the collection, are plain functions that run in                 *)
(* threads.  The other handlers are coroutines that never suspend: one of  *)
(* them runs at a time, but threads go on between its commits.  Most       *)
(* handlers write back the list that they read when they started.          *)
(*                                                                         *)
(* Embedding is not bypassed.  The content of a file may change between    *)
(* requests, so the lookup of a duplicate by its hash may find none.       *)
(***************************************************************************)
CONSTANTS File,      \* ids of the files, all uploaded before
          Thread,    \* the worker threads
          Loop       \* the event loop, which runs the coroutines

ASSUME KnowledgeAssumption == Loop \notin Thread

VARIABLES
    exists,    \* the base has its row
    valid,     \* data of the row is a dict that is not empty
    listed,    \* data["file_ids"]
    rows,      \* ids of the rows of table file
    vectors,   \* files with entries in the base's collection
    doing,     \* actor -> the step its request does next
    subject,   \* actor -> the files that its request is about
    read,      \* actor -> the list that its request has read, to write back
    alone,     \* actors whose request no other has overlapped (history)
    settled,   \* files whose addition was answered and overlapped no other
               \* request, and that no request took out since (history)
    intact     \* those whose entries no request began to replace (history)

baseVars      == <<exists, valid, listed>>
requestVars   == <<doing, subject, read>>
settledVars   == <<settled, intact>>
knowledgeVars == <<baseVars, rows, vectors, requestVars, alone, settledVars>>

Actor == Thread \cup {Loop}

-----------------------------------------------------------------------------
Steps == {"idle", "add", "append", "batch", "extend", "clear", "refresh", "forget",
          "erase", "drop", "rowsOf", "tidy", "reset", "empty", "delete", "dropRow",
          "reindex", "rebuild", "wipe", "overwrite"}

KnowledgeTypeOK ==
    /\ exists \in BOOLEAN /\ valid \in BOOLEAN
    /\ listed \subseteq File /\ rows \subseteq File /\ vectors \subseteq File
    /\ doing \in [Actor -> Steps]
    /\ subject \in [Actor -> SUBSET File]
    /\ read \in [Actor -> SUBSET File]
    /\ alone \subseteq Actor
    /\ settled \subseteq File /\ intact \subseteq settled

(* insert_new_knowledge has committed.  Its data, None here, is replaced   *)
(* as easily (EditBase).                                                   *)
KnowledgeInit ==
    /\ exists = TRUE /\ valid = FALSE
    /\ listed = {} /\ rows = File /\ vectors = {}
    /\ doing = [a \in Actor |-> "idle"]
    /\ subject = [a \in Actor |-> {}]
    /\ read = [a \in Actor |-> {}]
    /\ alone = {} /\ settled = {} /\ intact = {}

(* The requests that use the list later on, by their first step.           *)
Readers == {"add", "batch", "forget", "rowsOf", "reindex"}

(* A request of the base starts: it reads the row.                         *)
Begin(a, step, of) ==
    /\ doing[a] = "idle"
    /\ exists
    /\ doing' = [doing EXCEPT ![a] = step]
    /\ subject' = [subject EXCEPT ![a] = of]
    /\ read' = [read EXCEPT ![a] = IF step \in Readers THEN listed ELSE {}]
    /\ alone' = IF \A b \in Actor : doing[b] = "idle" THEN {a} ELSE {}
    /\ UNCHANGED <<baseVars, rows, vectors>>

Goto(a, step) ==
    /\ doing' = [doing EXCEPT ![a] = step]
    /\ UNCHANGED <<subject, read, alone>>

Finish(a) ==
    /\ doing' = [doing EXCEPT ![a] = "idle"]
    /\ subject' = [subject EXCEPT ![a] = {}]
    /\ read' = [read EXCEPT ![a] = {}]
    /\ alone' = alone \ {a}

(* update_knowledge_data_by_id changes no row when the base is gone.       *)
SaveList(ids) ==
    /\ listed' = IF exists THEN ids ELSE listed
    /\ valid' = (valid \/ exists)
    /\ UNCHANGED exists

Settle(a, fs) ==
    IF exists /\ a \in alone
    THEN settled' = settled \cup fs /\ intact' = intact \cup fs
    ELSE UNCHANGED settledVars

-----------------------------------------------------------------------------
(***************************************************************************)
(* Threads: add one file, add several, replace or remove one               *)
(***************************************************************************)

StartAdd(t, f) ==
    /\ f \in rows
    /\ Begin(t, "add", {f})
    /\ UNCHANGED settledVars

(* process_file has looked the file up again, found no duplicate and       *)
(* saved its entries.                                                      *)
IndexAdded(t) ==
    /\ doing[t] = "add"
    /\ vectors' = vectors \cup subject[t]
    /\ Goto(t, "append")
    /\ UNCHANGED <<baseVars, rows, settledVars>>

(* A file that the list had is answered with an error.                     *)
AppendFile(t) ==
    /\ doing[t] = "append"
    /\ IF subject[t] \subseteq read[t]
       THEN UNCHANGED <<baseVars, settledVars>>
       ELSE SaveList(read[t] \cup subject[t]) /\ Settle(t, subject[t])
    /\ Finish(t)
    /\ UNCHANGED <<rows, vectors>>

(* fs are those of the files that could be prepared.                       *)
StartBatch(t, fs) ==
    /\ fs \subseteq rows
    /\ Begin(t, "batch", fs)
    /\ UNCHANGED settledVars

IndexBatch(t) ==
    /\ doing[t] = "batch"
    /\ vectors' = vectors \cup subject[t]
    /\ Goto(t, "extend")
    /\ UNCHANGED <<baseVars, rows, settledVars>>

(* faulty: the ids that the list had are not kept *)
ExtendForgets(t) ==
    /\ doing[t] = "extend"
    /\ SaveList(subject[t])
    /\ Settle(t, subject[t])
    /\ Finish(t)
    /\ UNCHANGED <<rows, vectors>>

ExtendList(t) ==
    /\ doing[t] = "extend"
    /\ SaveList(read[t] \cup subject[t])
    /\ Settle(t, subject[t])
    /\ Finish(t)
    /\ UNCHANGED <<rows, vectors>>

StartUpdate(t, f) ==
    /\ f \in rows
    /\ Begin(t, "clear", {f})
    /\ intact' = intact \ {f}
    /\ UNCHANGED settled

ClearEntries(t) ==
    /\ doing[t] = "clear"
    /\ vectors' = vectors \ subject[t]
    /\ Goto(t, "refresh")
    /\ UNCHANGED <<baseVars, rows, settledVars>>

IndexUpdated(t) ==
    /\ doing[t] = "refresh"
    /\ vectors' = vectors \cup subject[t]
    /\ Finish(t)
    /\ UNCHANGED <<baseVars, rows, settledVars>>

(* The lookup, a duplicate, the embedding or the vector database fails:    *)
(* the request ends where it is.                                           *)
ProcessingFails(t) ==
    /\ doing[t] \in {"add", "batch", "clear", "refresh", "delete", "overwrite"}
    /\ Finish(t)
    /\ UNCHANGED <<baseVars, rows, vectors, settledVars>>

StartRemove(t, f) ==
    /\ f \in rows
    /\ Begin(t, "forget", {f})
    /\ settled' = settled \ {f} /\ intact' = intact \ {f}

(* A failure of the vector database is logged and passed over.             *)
ForgetEntries(t) ==
    /\ doing[t] = "forget"
    /\ vectors' \in {vectors, vectors \ subject[t]}
    /\ Goto(t, "erase")
    /\ UNCHANGED <<baseVars, rows, settledVars>>

EraseRow(t) ==
    /\ doing[t] = "erase"
    /\ rows' = rows \ subject[t]
    /\ Goto(t, "drop")
    /\ UNCHANGED <<baseVars, vectors, settledVars>>

DropFromList(t) ==
    /\ doing[t] = "drop"
    /\ IF subject[t] \subseteq read[t]
       THEN SaveList(read[t] \ subject[t])
       ELSE UNCHANGED baseVars
    /\ Finish(t)
    /\ UNCHANGED <<rows, vectors, settledVars>>

-----------------------------------------------------------------------------
(***************************************************************************)
(* Threads of routers/retrieval.py: the collection is named by its form,   *)
(* and the base is not looked at                                           *)
(***************************************************************************)

(* POST /process/web and /process/youtube with collection_name: the page   *)
(* is loaded first.                                                        *)
StartOverwrite(t) ==
    /\ doing[t] = "idle"
    /\ doing' = [doing EXCEPT ![t] = "overwrite"]
    /\ alone' = {} /\ intact' = {}
    /\ UNCHANGED <<baseVars, rows, vectors, subject, read, settled>>

(* overwrite=True: the collection goes, a new one has the page alone.      *)
OverwriteCollection(t) ==
    /\ doing[t] = "overwrite"
    /\ vectors' = {}
    /\ Finish(t)
    /\ UNCHANGED <<baseVars, rows, settledVars>>

(* POST /process/file and, one file after the other, /process/files/batch, *)
(* with collection_name: the entries of a file come into the collection,   *)
(* its id not into the list.                                               *)
IndexUnlisted(t, f) ==
    /\ doing[t] = "idle"
    /\ vectors' = vectors \cup {f}
    /\ alone' = {}
    /\ UNCHANGED <<baseVars, rows, requestVars, settledVars>>

-----------------------------------------------------------------------------
(***************************************************************************)
(* Coroutines: list bases, edit, reset, delete, reindex; files             *)
(***************************************************************************)

(* GET / and GET /list: ids without a row are taken out of the list.       *)
StartListing ==
    /\ Begin(Loop, "rowsOf", {})
    /\ UNCHANGED settledVars

FindRows ==
    /\ doing[Loop] = "rowsOf"
    /\ IF read[Loop] \subseteq rows
       THEN Finish(Loop)
       ELSE /\ doing' = [doing EXCEPT ![Loop] = "tidy"]
            /\ subject' = [subject EXCEPT ![Loop] = read[Loop] \cap rows]
            /\ read' = [read EXCEPT ![Loop] = {}]
            /\ UNCHANGED alone
    /\ UNCHANGED <<baseVars, rows, vectors, settledVars>>

TidyList ==
    /\ doing[Loop] = "tidy"
    /\ SaveList(subject[Loop])
    /\ Finish(Loop)
    /\ UNCHANGED <<rows, vectors, settledVars>>

(* update_knowledge_by_id replaces data by that of the form, which is None *)
(* unless the client sends it: a change of the name alone empties the list.*)
EditBase(ids, given) ==
    /\ doing[Loop] = "idle"
    /\ exists
    /\ ids # {} => given
    /\ listed' = ids /\ valid' = given
    /\ settled' = settled \cap ids /\ intact' = intact \cap ids
    /\ alone' = {}
    /\ UNCHANGED <<exists, rows, vectors, requestVars>>

StartReset ==
    /\ Begin(Loop, "reset", {})
    /\ settled' = {} /\ intact' = {}

(* delete_knowledge_by_id, or reset_vector_db in a thread.                 *)
StartDelete(a) ==
    /\ Begin(a, "delete", {})
    /\ settled' = {} /\ intact' = {}

(* A failure of the vector database is logged and passed over; it ends     *)
(* reset_vector_db (ProcessingFails).                                      *)
DropCollection(a) ==
    /\ doing[a] \in {"reset", "delete"}
    /\ vectors' = {} \/ (a = Loop /\ vectors' = vectors)
    /\ Goto(a, IF doing[a] = "reset" THEN "empty" ELSE "dropRow")
    /\ UNCHANGED <<baseVars, rows, settledVars>>

EmptyList ==
    /\ doing[Loop] = "empty"
    /\ SaveList({})
    /\ Finish(Loop)
    /\ UNCHANGED <<rows, vectors, settledVars>>

DropBase(a) ==
    /\ doing[a] = "dropRow"
    /\ exists' = FALSE /\ valid' = FALSE /\ listed' = {}
    /\ settled' = {} /\ intact' = {}
    /\ Finish(a)
    /\ UNCHANGED <<rows, vectors>>

(* A base whose data is None or empty is deleted by the reindexing.        *)
StartReindex ==
    /\ Begin(Loop, IF valid THEN "reindex" ELSE "dropRow", {})
    /\ intact' = {}
    /\ UNCHANGED settled

(* A base whose collection cannot be deleted is skipped.                   *)
RebuildCollection ==
    /\ doing[Loop] = "reindex"
    /\ \/ /\ vectors' = {}
          /\ doing' = [doing EXCEPT ![Loop] = "rebuild"]
          /\ subject' = [subject EXCEPT ![Loop] = read[Loop] \cap rows]
          /\ read' = [read EXCEPT ![Loop] = {}]
          /\ UNCHANGED alone
       \/ Finish(Loop) /\ UNCHANGED vectors
    /\ UNCHANGED <<baseVars, rows, settledVars>>

(* A file that fails is passed over.                                       *)
ReindexFile(f) ==
    /\ doing[Loop] = "rebuild"
    /\ f \in subject[Loop]
    /\ vectors' \in {vectors, vectors \cup {f}}
    /\ subject' = [subject EXCEPT ![Loop] = @ \ {f}]
    /\ UNCHANGED <<baseVars, rows, doing, read, alone, settledVars>>

ReindexDone ==
    /\ doing[Loop] = "rebuild"
    /\ subject[Loop] = {}
    /\ Finish(Loop)
    /\ UNCHANGED <<baseVars, rows, vectors, settledVars>>

(* delete_file_by_id leaves the lists and collections of bases alone.      *)
DeleteFile(f) ==
    /\ doing[Loop] = "idle"
    /\ f \in rows
    /\ rows' = rows \ {f}
    /\ settled' = settled \ {f} /\ intact' = intact \ {f}
    /\ alone' = {}
    /\ UNCHANGED <<baseVars, vectors, requestVars>>

DeleteAllFiles ==
    /\ doing[Loop] = "idle"
    /\ rows' = {}
    /\ settled' = {} /\ intact' = {}
    /\ alone' = {}
    /\ doing' = [doing EXCEPT ![Loop] = "wipe"]
    /\ UNCHANGED <<baseVars, vectors, subject, read>>

(* The vector database is reset, unless the storage fails before that.     *)
ResetVectors ==
    /\ doing[Loop] = "wipe"
    /\ vectors' \in {vectors, {}}
    /\ Finish(Loop)
    /\ UNCHANGED <<baseVars, rows, settledVars>>

-----------------------------------------------------------------------------
(* The process dies and starts again.                                      *)
KnowledgeCrash ==
    /\ doing' = [a \in Actor |-> "idle"]
    /\ subject' = [a \in Actor |-> {}]
    /\ read' = [a \in Actor |-> {}]
    /\ alone' = {}
    /\ UNCHANGED <<baseVars, rows, vectors, settledVars>>

ThreadStep ==
    \/ \E t \in Thread, f \in File :
          \/ StartAdd(t, f) \/ StartUpdate(t, f) \/ StartRemove(t, f)
          \/ IndexUnlisted(t, f)
    \/ \E t \in Thread, fs \in SUBSET File : StartBatch(t, fs)
    \/ \E t \in Thread :
          \/ StartOverwrite(t) \/ OverwriteCollection(t)
          \/ IndexAdded(t) \/ AppendFile(t)
          \/ IndexBatch(t) \/ ExtendList(t)
          \/ ClearEntries(t) \/ IndexUpdated(t)
          \/ ProcessingFails(t)
          \/ ForgetEntries(t) \/ EraseRow(t) \/ DropFromList(t)

LoopStep ==
    \/ StartListing \/ FindRows \/ TidyList
    \/ \E ids \in SUBSET File, given \in BOOLEAN : EditBase(ids, given)
    \/ StartReset \/ EmptyList
    \/ \E a \in Actor : StartDelete(a) \/ DropCollection(a) \/ DropBase(a)
    \/ StartReindex \/ RebuildCollection \/ ReindexDone
    \/ \E f \in File : ReindexFile(f) \/ DeleteFile(f)
    \/ DeleteAllFiles \/ ResetVectors

KnowledgeNext == ThreadStep \/ LoopStep \/ KnowledgeCrash

KnowledgeSpec == KnowledgeInit /\ [][KnowledgeNext]_knowledgeVars

-----------------------------------------------------------------------------
(***************************************************************************)
(* Properties                                                              *)
(***************************************************************************)

(* Lists are written from what was read long before, so additions that     *)
(* overlap can lose one another.  But a file whose addition was answered   *)
(* and overlapped no other request stays in the list until a request takes *)
(* it out, and findable until one begins to replace its entries (the       *)
(* update of the file) or all of the collection (reindexing, a page or a   *)
(* video saved under the base's id): no other request loses it, however    *)
(* they overlap, fail or are cut off by a crash.                           *)
SettledStays == exists => settled \subseteq listed /\ intact \subseteq vectors
=============================================================================
