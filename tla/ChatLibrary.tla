----------------------------- MODULE ChatLibrary -----------------------------
(***************************************************************************)
(* One user's folders, chats and shared copies of chats: the tables of     *)
(* open_webui/models/folders.py and models/chats.py under the handlers of  *)
(* routers/folders.py and routers/chats.py in one process.                 *)
(*                                                                         *)
(* The handlers are coroutines that never suspend, so one runs at a time,  *)
(* except create_folder, which is a plain function in a thread and goes on *)
(* between the transactions of the others.  Every commit is a step, and so *)
(* is the lookup of a name: the process may die between two of them, and   *)
(* nothing is repaired when it starts again.  Row ids are uuids, never     *)
(* used twice.                                                             *)
(***************************************************************************)
EXTENDS Naturals, Sequences, FiniteSets, Ids

CONSTANTS Folder,          \* ids of folders
          Name,            \* names of folders, equal under ilike or different
          Chat,            \* ids of chats
          Copy,            \* ids of shared copies
          Creator,         \* threads that run create_folder
          Top,             \* no parent, or no folder: None in the code
          NoCopy, NoName,
          RecursionLimit   \* calls of delete_children that the stack can hold

ASSUME LibraryAssumption ==
    /\ Top \notin Folder /\ NoCopy \notin Copy /\ NoName \notin Name
    /\ IsFiniteSet(Folder)
    /\ "loop" \notin Creator
    /\ RecursionLimit \in Nat /\ RecursionLimit > Cardinality(Folder)

VARIABLES
    folders,   \* ids of the rows of table folder
    known,     \* ids that folders had or have
    parent,    \* folder -> parent_id
    name,      \* folder -> name
    chats,     \* ids of the user's rows of table chat
    created,   \* ids that chats had or have
    inFolder,  \* chat -> folder_id
    shareId,   \* chat -> share_id
    copies,    \* ids of the rows of table chat whose user_id is "shared-..."
    copied,    \* ids that copies had or have
    copyOf,    \* copy -> the chat whose id is in its user_id
    creating,  \* thread -> the name it has found free
    goal,      \* the place the coroutine has found free, for the folder at
    arrived,   \* request -> the folders that others have brought to the place
               \* since it was found free (history)
    op,        \* what the coroutine that runs has committed
    at,        \* the folder, chat or copy that it is about
    stack,     \* the calls of delete_children: the folder and children to do
    ids,       \* folder_ids of the deletion
    subtree    \* the folder to delete and all below it (history)

folderVars == <<folders, known, parent, name>>
chatVars   == <<chats, created, inFolder, shareId>>
copyVars   == <<copies, copied, copyOf>>
opVars     == <<op, at, stack, ids, subtree>>

nameVars   == <<creating, goal, arrived>>

libraryVars == <<folderVars, chatVars, copyVars, nameVars, opVars>>

Request == Creator \cup {"loop"}

Nowhere == [parent |-> Top, name |-> NoName]

-----------------------------------------------------------------------------
Ops == {"idle", "rename", "move", "tree", "purge", "copied", "rowGone", "unlinked", "wiping"}

LibraryTypeOK ==
    /\ folders \subseteq known /\ known \subseteq Folder
    /\ parent \in [Folder -> Folder \cup {Top}]
    /\ name \in [Folder -> Name \cup {NoName}]
    /\ chats \subseteq created /\ created \subseteq Chat
    /\ inFolder \in [Chat -> Folder \cup {Top}]
    /\ shareId \in [Chat -> Copy \cup {NoCopy}]
    /\ copies \subseteq copied /\ copied \subseteq Copy
    /\ copyOf \in [Copy -> Chat \cup {Top}]
    /\ creating \in [Creator -> Name \cup {NoName}]
    /\ goal \in [parent : Folder \cup {Top}, name : Name \cup {NoName}]
    /\ arrived \in [Request -> SUBSET Folder]
    /\ op \in Ops
    /\ at \in Folder \cup Chat \cup Copy \cup {Top}
    /\ stack \in Seq([folder : Folder, todo : SUBSET Folder])
    /\ ids \in Seq(Folder)
    /\ subtree \subseteq Folder

LibraryInit ==
    /\ folders = {} /\ known = {}
    /\ parent = [f \in Folder |-> Top]
    /\ name = [f \in Folder |-> NoName]
    /\ chats = {} /\ created = {}
    /\ inFolder = [c \in Chat |-> Top]
    /\ shareId = [c \in Chat |-> NoCopy]
    /\ copies = {} /\ copied = {}
    /\ copyOf = [k \in Copy |-> Top]
    /\ creating = [t \in Creator |-> NoName]
    /\ goal = Nowhere
    /\ arrived = [r \in Request |-> {}]
    /\ op = "idle" /\ at = Top
    /\ stack = <<>> /\ ids = <<>> /\ subtree = {}

Children(f) == {g \in folders : parent[g] = f}

Siblings(p, n) == {g \in folders : parent[g] = p /\ name[g] = n}

CopiesOf(c) == {k \in copies : copyOf[k] = c}

(* f and every folder below it: the least set with f and its children.     *)
Below(f) ==
    {g \in Folder : \A S \in SUBSET Folder :
        f \in S /\ (\A h \in S : Children(h) \subseteq S) => g \in S}

(* f is its own ancestor.                                                  *)
OnCycle(f) ==
    \E S \in SUBSET folders : f \in S /\ {parent[g] : g \in S} = S

(* Rows are deleted.  The columns of a row that is gone read as at first.  *)
DropFolder(f) ==
    /\ folders' = folders \ {f}
    /\ parent' = [parent EXCEPT ![f] = Top]
    /\ name' = [name EXCEPT ![f] = NoName]
    /\ UNCHANGED known

DropChats(gone) ==
    /\ chats' = chats \ gone
    /\ inFolder' = [c \in Chat |-> IF c \in gone THEN Top ELSE inFolder[c]]
    /\ shareId' = [c \in Chat |-> IF c \in gone THEN NoCopy ELSE shareId[c]]
    /\ UNCHANGED created

DropCopies(gone) ==
    /\ copies' = copies \ gone
    /\ copyOf' = [k \in Copy |-> IF k \in gone THEN Top ELSE copyOf[k]]
    /\ UNCHANGED copied

(* The coroutine ends.                                                     *)
Answer ==
    /\ op' = "idle" /\ at' = Top
    /\ stack' = <<>> /\ ids' = <<>> /\ subtree' = {}

-----------------------------------------------------------------------------
(***************************************************************************)
(* Folders: create (two transactions of a thread), rename, move            *)
(***************************************************************************)

(* A name is looked up in one transaction and written in another.  Between *)
(* them a request is open; the place it goes to was free at the lookup.    *)
Open(r) == IF r = "loop" THEN op \in {"rename", "move"} ELSE creating[r] # NoName

Place(r) == IF r = "loop" THEN goal ELSE [parent |-> Top, name |-> creating[r]]

Free(place) == Siblings(place.parent, place.name) = {}

(* Request r brings f to its place and is no longer open.                  *)
Arrive(r, f) ==
    arrived' = [q \in Request |->
        IF q = r THEN {}
        ELSE IF Open(q) /\ Place(q) = Place(r) THEN arrived[q] \cup {f}
        ELSE arrived[q]]

CreateLookUp(t, n) ==
    /\ creating[t] = NoName
    /\ Free([parent |-> Top, name |-> n])
    /\ creating' = [creating EXCEPT ![t] = n]
    /\ UNCHANGED <<folderVars, chatVars, copyVars, goal, arrived, opVars>>

CreateInsert(t, f) ==
    /\ creating[t] # NoName
    /\ f \in NewId(Folder, known)
    /\ folders' = folders \cup {f}
    /\ known' = known \cup {f}
    /\ name' = [name EXCEPT ![f] = creating[t]]
    /\ creating' = [creating EXCEPT ![t] = NoName]
    /\ Arrive(t, f)
    /\ UNCHANGED <<parent, chatVars, copyVars, goal, opVars>>

StartPlacing(f, step, place) ==
    /\ op = "idle"
    /\ f \in folders
    /\ op' = step /\ at' = f
    /\ goal' = place
    /\ UNCHANGED <<folderVars, chatVars, copyVars, creating, arrived, stack, ids, subtree>>

(* To the name that it has, a folder is renamed without effect.            *)
Rename(f, n) ==
    LET place == [parent |-> parent[f], name |-> n]
    IN  Free(place) /\ StartPlacing(f, "rename", place)

(* faulty: the lookup is made where the folder is, not where it goes *)
MoveLooksHere(f, p) ==
    /\ Siblings(parent[f], name[f]) \ {f} = {}
    /\ StartPlacing(f, "move", [parent |-> p, name |-> name[f]])

(* Any id the client has seen is accepted: of a deleted folder, of the     *)
(* folder itself, of one below it.                                         *)
Move(f, p) ==
    LET place == [parent |-> p, name |-> name[f]]
    IN  Free(place) /\ StartPlacing(f, "move", place)

(* One of parent and name is what it was.                                  *)
PlaceFolder ==
    /\ Open("loop")
    /\ parent' = [parent EXCEPT ![at] = goal.parent]
    /\ name' = [name EXCEPT ![at] = goal.name]
    /\ Arrive("loop", at)
    /\ goal' = Nowhere
    /\ Answer
    /\ UNCHANGED <<folders, known, chatVars, copyVars, creating>>

(* update_folder_by_id_and_user_id looks the name up again: a folder of    *)
(* exactly this name may have come meanwhile.                              *)
RenameRefused ==
    /\ op = "rename"
    /\ ~Free(goal)
    /\ arrived' = [arrived EXCEPT !["loop"] = {}]
    /\ goal' = Nowhere
    /\ Answer
    /\ UNCHANGED <<folderVars, chatVars, copyVars, creating>>

-----------------------------------------------------------------------------
(***************************************************************************)
(* Deletion of a folder: delete_children descends and, on its way back,    *)
(* deletes one row per transaction; then the folder's own row and, one     *)
(* transaction per folder, the chats.                                      *)
(***************************************************************************)

Row(f) == [folder |-> f, todo |-> Children(f)]

Frame == stack[Len(stack)]

(* faulty: folder_ids starts without the folder itself *)
DeleteFolderForgotten(f) ==
    /\ op = "idle"
    /\ f \in folders
    /\ op' = "tree" /\ at' = f
    /\ stack' = <<Row(f)>>
    /\ ids' = <<>>
    /\ subtree' = Below(f)
    /\ UNCHANGED <<folderVars, chatVars, copyVars, nameVars>>

DeleteFolder(f) ==
    /\ op = "idle"
    /\ f \in folders
    /\ op' = "tree" /\ at' = f
    /\ stack' = <<Row(f)>>
    /\ ids' = <<f>>
    /\ subtree' = Below(f)
    /\ UNCHANGED <<folderVars, chatVars, copyVars, nameVars>>

Descend(g) ==
    /\ op = "tree"
    /\ g \in Frame.todo
    /\ Len(stack) < RecursionLimit
    /\ stack' = Append([stack EXCEPT ![Len(stack)].todo = @ \ {g}], Row(g))
    /\ UNCHANGED <<folderVars, chatVars, copyVars, nameVars, op, at, ids, subtree>>

(* A RecursionError: "except Exception" returns no ids, rows deleted so    *)
(* far stay deleted, and the handler returns True.                         *)
Overflow ==
    /\ op = "tree"
    /\ Frame.todo # {}
    /\ Len(stack) = RecursionLimit
    /\ Answer
    /\ UNCHANGED <<folderVars, chatVars, copyVars, nameVars>>

DeleteChild ==
    /\ op = "tree"
    /\ Frame.todo = {}
    /\ Len(stack) > 1
    /\ DropFolder(Frame.folder)
    /\ ids' = Append(ids, Frame.folder)
    /\ stack' = SubSeq(stack, 1, Len(stack) - 1)
    /\ UNCHANGED <<chatVars, copyVars, nameVars, op, at, subtree>>

(* faulty: the folder goes first, its children after it *)
DeleteRootEarly ==
    /\ op = "tree"
    /\ Len(stack) = 1
    /\ DropFolder(at)
    /\ IF Frame.todo = {}
       THEN op' = "purge" /\ stack' = <<>>
       ELSE UNCHANGED <<op, stack>>
    /\ UNCHANGED <<chatVars, copyVars, nameVars, at, ids, subtree>>

DeleteRoot ==
    /\ op = "tree"
    /\ Frame.todo = {}
    /\ Len(stack) = 1
    /\ DropFolder(at)
    /\ op' = "purge" /\ stack' = <<>>
    /\ UNCHANGED <<chatVars, copyVars, nameVars, at, ids, subtree>>

(* The rows of the user's own chats go, their shared copies do not.        *)
Purge ==
    /\ op = "purge"
    /\ IF ids = <<>>
       THEN Answer /\ UNCHANGED chatVars
       ELSE /\ DropChats({c \in chats : inFolder[c] = Head(ids)})
            /\ ids' = Tail(ids)
            /\ UNCHANGED <<op, at, stack, subtree>>
    /\ UNCHANGED <<folderVars, copyVars, nameVars>>

-----------------------------------------------------------------------------
(***************************************************************************)
(* Chats: create, move to a folder, edit, delete one, delete all           *)
(***************************************************************************)

NewChat(c, p) ==
    /\ op = "idle"
    /\ c \in NewId(Chat, created)
    /\ chats' = chats \cup {c}
    /\ created' = created \cup {c}
    /\ inFolder' = [inFolder EXCEPT ![c] = p]
    /\ UNCHANGED <<folderVars, shareId, copyVars, nameVars, opVars>>

MoveChat(c, p) ==
    /\ op = "idle"
    /\ c \in chats
    /\ inFolder' = [inFolder EXCEPT ![c] = p]
    /\ UNCHANGED <<folderVars, chats, created, shareId, copyVars, nameVars, opVars>>

DeleteChatRow(c) ==
    /\ op = "idle"
    /\ c \in chats
    /\ DropChats({c})
    /\ op' = "rowGone" /\ at' = c
    /\ UNCHANGED <<folderVars, copyVars, nameVars, stack, ids, subtree>>

(* delete_shared_chat_by_chat_id selects by user_id.                       *)
DeleteCopies ==
    /\ op = "rowGone"
    /\ DropCopies(CopiesOf(at))
    /\ Answer
    /\ UNCHANGED <<folderVars, chatVars, nameVars>>

(* delete_all_user_chats: the copies go in a transaction before the chats. *)
WipeCopies ==
    /\ op = "idle"
    /\ DropCopies({k \in copies : copyOf[k] \in chats})
    /\ op' = "wiping" /\ at' = Top
    /\ UNCHANGED <<folderVars, chatVars, nameVars, stack, ids, subtree>>

WipeChats ==
    /\ op = "wiping"
    /\ DropChats(chats)
    /\ Answer
    /\ UNCHANGED <<folderVars, copyVars, nameVars>>

-----------------------------------------------------------------------------
(***************************************************************************)
(* Sharing                                                                 *)
(***************************************************************************)

(* insert_shared_chat_by_chat_id: the copy, then the chat's share_id.  A    *)
(* chat with a share_id is not inserted for again: update_shared_chat_...   *)
(* refreshes a copy or, when there is none, the request fails.              *)
InsertCopy(c, k) ==
    /\ op = "idle"
    /\ c \in chats
    /\ shareId[c] = NoCopy
    /\ k \in NewId(Copy, copied)
    /\ copies' = copies \cup {k}
    /\ copied' = copied \cup {k}
    /\ copyOf' = [copyOf EXCEPT ![k] = c]
    /\ op' = "copied" /\ at' = k
    /\ UNCHANGED <<folderVars, chatVars, nameVars, stack, ids, subtree>>

SetShareId ==
    /\ op = "copied"
    /\ shareId' = [shareId EXCEPT ![copyOf[at]] = at]
    /\ Answer
    /\ UNCHANGED <<folderVars, chats, created, inFolder, copyVars, nameVars>>

(* faulty: one copy goes, the first that is found *)
UnshareOne(c) ==
    /\ op = "idle"
    /\ c \in chats
    /\ shareId[c] # NoCopy
    /\ \E k \in CopiesOf(c) : DropCopies({k})
    /\ op' = "unlinked" /\ at' = c
    /\ UNCHANGED <<folderVars, chatVars, nameVars, stack, ids, subtree>>

(* Nothing is done for a chat without share_id.                            *)
Unshare(c) ==
    /\ op = "idle"
    /\ c \in chats
    /\ shareId[c] # NoCopy
    /\ DropCopies(CopiesOf(c))
    /\ op' = "unlinked" /\ at' = c
    /\ UNCHANGED <<folderVars, chatVars, nameVars, stack, ids, subtree>>

ClearShareId ==
    /\ op = "unlinked"
    /\ shareId' = [shareId EXCEPT ![at] = NoCopy]
    /\ Answer
    /\ UNCHANGED <<folderVars, chats, created, inFolder, copyVars, nameVars>>

-----------------------------------------------------------------------------
(* The process dies and starts again.                                      *)
LibraryCrash ==
    /\ creating' = [t \in Creator |-> NoName]
    /\ goal' = Nowhere
    /\ arrived' = [r \in Request |-> {}]
    /\ Answer
    /\ UNCHANGED <<folderVars, chatVars, copyVars>>

FolderStep ==
    \/ \E t \in Creator, n \in Name : CreateLookUp(t, n)
    \/ \E t \in Creator, f \in Folder : CreateInsert(t, f)
    \/ \E f \in Folder, n \in Name : Rename(f, n)
    \/ \E f \in Folder, p \in known \cup {Top} : Move(f, p)
    \/ PlaceFolder
    \/ RenameRefused
    \/ \E f \in Folder : DeleteFolder(f) \/ Descend(f)
    \/ Overflow
    \/ DeleteChild
    \/ DeleteRoot
    \/ Purge

ChatStep ==
    \/ \E c \in Chat, p \in known \cup {Top} : NewChat(c, p) \/ MoveChat(c, p)
    \/ \E c \in Chat : DeleteChatRow(c)
    \/ DeleteCopies
    \/ WipeCopies
    \/ WipeChats

ShareStep ==
    \/ \E c \in Chat, k \in Copy : InsertCopy(c, k)
    \/ SetShareId
    \/ \E c \in Chat : Unshare(c)
    \/ ClearShareId

LibraryNext == FolderStep \/ ChatStep \/ ShareStep \/ LibraryCrash

LibrarySpec == LibraryInit /\ [][LibraryNext]_libraryVars

-----------------------------------------------------------------------------
(***************************************************************************)
(* Properties                                                              *)
(***************************************************************************)

(* However a deletion ends, no commit of it takes a folder away while it   *)
(* has children: a crash leaves a smaller tree, never a severed branch     *)
(* that no deletion could reach.                                           *)
DeletedFromBelow ==
    [][\A f \in folders \ folders' : \A g \in folders' : parent'[g] # f]_libraryVars

Answered == op' = "idle" /\ (Overflow \/ Purge \/ DeleteCopies \/ WipeChats \/ ClearShareId)

(* A deletion of folder f that is answered, and was not cut short by a     *)
(* cycle of parents, has removed the folders below f and every chat in any *)
(* of them.                                                                *)
AcknowledgedDeletion ==
    [][Answered /\ op \in {"tree", "purge"} /\ ~OnCycle(at)
        => subtree \cap (folders' \cup {inFolder'[c] : c \in chats'}) = {}]_libraryVars

Twins(f, g) ==
    /\ f # g /\ {f, g} \subseteq folders
    /\ parent[f] = parent[g] /\ name[f] = name[g]

(* Two folders of one name come to stand side by side only by the commit   *)
(* of a creation, rename or move that had found the place free before the  *)
(* commit of another brought the other folder there: in any order of the   *)
(* steps of threads, moves, deletions and crashes, requests that do not    *)
(* overlap make no twins.                                                  *)
OnlyOverlapTwins ==
    [][\A f, g \in Folder :
        Twins(f, g)' /\ ~Twins(f, g) =>
            \E r \in Request :
                Open(r) /\ ~Open(r)' /\ {f, g} \cap arrived[r] # {}]_libraryVars

(* When the deletion of a chat or the end of its sharing is answered, no   *)
(* copy of it is left, not even one that a crash had kept from being       *)
(* linked.                                                                 *)
Withdrawn ==
    [][Answered /\ op \in {"rowGone", "unlinked", "wiping"}
        => LET of == IF op = "wiping" THEN chats ELSE {at}
           IN  \A k \in copies' : copyOf'[k] \notin of]_libraryVars
=============================================================================
