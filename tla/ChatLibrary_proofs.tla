--------------------------- MODULE ChatLibrary_proofs ---------------------------
(* Proofs about ChatLibrary, for any numbers of folders, names, chats, copies     *)
(* and threads, and any limit of the recursion above the number of folders.       *)
EXTENDS ChatLibrary, SequenceTheorems, FiniteSetTheorems, TLAPS

(* What a deletion or a sharing is about, by the step it is at.                   *)
Places ==
    /\ Open("loop") => at \in folders
    /\ op = "tree" => at \in Folder /\ Len(stack) > 0 /\ stack[1].folder = at
    /\ op = "copied" => at \in Copy

(* The children of a folder on the stack are still to do, but for the one that    *)
(* is being done.                                                                 *)
Descent ==
    op = "tree" =>
        \A i \in 1..Len(stack) : \A g \in Children(stack[i].folder) :
            g \in stack[i].todo \/ (i < Len(stack) /\ g = stack[i + 1].folder)

(* A folder that has no row is nobody's child.                                    *)
Blank == \A f \in Folder \ folders : parent[f] = Top

(* The copies go before the link, or before the chats.                            *)
Withdrawing ==
    /\ op = "unlinked" => CopiesOf(at) = {}
    /\ op = "wiping" => \A k \in copies : copyOf[k] \notin chats

LibraryInv ==
    /\ LibraryTypeOK
    /\ Places
    /\ Descent
    /\ Blank
    /\ Withdrawing

LEMMA NewIdIsNew ==
    ASSUME NEW S, NEW used, NEW id \in NewId(S, used)
    PROVE  id \in S /\ id \notin used
BY DEF NewId

Frames == [folder : Folder, todo : SUBSET Folder]

LEMMA FramesTyped ==
    ASSUME LibraryTypeOK
    PROVE  /\ Len(stack) \in Nat
           /\ \A i \in 1..Len(stack) :
                 stack[i] \in Frames /\ stack[i].folder \in Folder /\ stack[i].todo \subseteq Folder
<1>1. stack \in Seq(Frames)
  BY DEF LibraryTypeOK, Frames
<1>2. \A i \in 1..Len(stack) : stack[i] \in Frames
  BY <1>1, ElementOfSeq
<1> QED
  BY <1>1, <1>2 DEF Frames

LEMMA LibraryInitially == LibraryInit => LibraryInv
BY DEF LibraryInit, LibraryInv, LibraryTypeOK, Places, Open, Descent, Blank, Withdrawing, Ops, Nowhere

-----------------------------------------------------------------------------
(***************************************************************************)
(* Steps that leave the tree and the sharing as they are                   *)
(***************************************************************************)

(* The end of a request.                                                   *)
LEMMA AnswerKeeps ==
    ASSUME Answer
    PROVE  /\ op' \in Ops /\ at' \in Folder \cup Chat \cup Copy \cup {Top}
           /\ stack' \in Seq([folder : Folder, todo : SUBSET Folder])
           /\ ids' \in Seq(Folder) /\ subtree' \subseteq Folder
           /\ Places' /\ Descent' /\ Withdrawing'
BY DEF Answer, Ops, Places, Open, Descent, Withdrawing

(* Deleted rows leave the other rows as they are.                          *)
LEMMA FoldersDropped ==
    ASSUME LibraryInv, NEW f \in Folder, DropFolder(f)
    PROVE  /\ folders' \subseteq known' /\ known' \subseteq Folder
           /\ parent' \in [Folder -> Folder \cup {Top}]
           /\ name' \in [Folder -> Name \cup {NoName}]
           /\ Blank'
           /\ \A h \in Folder : Children(h)' \subseteq Children(h) \ {f}
BY LibraryAssumption DEF LibraryInv, LibraryTypeOK, DropFolder, Blank, Children

LEMMA ChatsDropped ==
    ASSUME LibraryInv, NEW gone \in SUBSET Chat, DropChats(gone)
    PROVE  /\ chats' \subseteq created' /\ created' \subseteq Chat
           /\ inFolder' \in [Chat -> Folder \cup {Top}]
           /\ shareId' \in [Chat -> Copy \cup {NoCopy}]
BY DEF LibraryInv, LibraryTypeOK, DropChats

LEMMA CopiesDropped ==
    ASSUME LibraryInv, NEW gone \in SUBSET Copy, DropCopies(gone)
    PROVE  /\ copies' \subseteq copied' /\ copied' \subseteq Copy
           /\ copyOf' \in [Copy -> Chat \cup {Top}]
           /\ \A k \in copies' : k \notin gone /\ copyOf'[k] = copyOf[k]
BY DEF LibraryInv, LibraryTypeOK, DropCopies

-----------------------------------------------------------------------------
(***************************************************************************)
(* The calls of delete_children                                            *)
(***************************************************************************)

(* A call of delete_children for the child g of the folder on top.                *)
LEMMA Pushed ==
    ASSUME LibraryInv, NEW g \in Folder, Descend(g)
    PROVE  /\ op = "tree" /\ Len(stack) \in Nat /\ Len(stack) > 0
           /\ g \in stack[Len(stack)].todo
           /\ stack' \in Seq(Frames) /\ Len(stack') = Len(stack) + 1
           /\ \A i \in 1..Len(stack) : stack'[i].folder = stack[i].folder
           /\ \A i \in 1..Len(stack) - 1 : stack'[i].todo = stack[i].todo
           /\ stack'[Len(stack)].todo = stack[Len(stack)].todo \ {g}
           /\ stack'[Len(stack) + 1].folder = g
           /\ stack'[Len(stack) + 1].todo = Children(g)
<1> USE DEF LibraryInv
<1> DEFINE n == Len(stack)
           popped == [stack EXCEPT ![n].todo = @ \ {g}]
<1>1. op = "tree" /\ n \in Nat /\ n > 0 /\ g \in stack[n].todo
  BY FramesTyped DEF Descend, Frame, Places
<1>2. Row(g) \in [folder : Folder, todo : SUBSET Folder]
  BY DEF Row, Children, LibraryTypeOK
<1>3. stack \in Seq(Frames) /\ Row(g) \in Frames /\ n \in 1..n
  BY <1>1, <1>2 DEF LibraryTypeOK, Frames
<1>4. [stack[n] EXCEPT !.todo = @ \ {g}] \in Frames
  BY <1>3, FramesTyped DEF Frames
<1>5. /\ popped \in Seq(Frames) /\ Len(popped) = n
      /\ \A i \in 1..n : popped[i] =
            IF i = n THEN [stack[n] EXCEPT !.todo = @ \ {g}] ELSE stack[i]
  BY <1>3, <1>4, ExceptSeq
<1>6. stack' = Append(popped, Row(g))
  BY DEF Descend
<1>7. /\ stack' \in Seq(Frames) /\ Len(stack') = n + 1
      /\ \A i \in 1..n : stack'[i] = popped[i]
      /\ stack'[n + 1] = Row(g)
  <2> HIDE DEF popped
  <2>1. /\ Append(popped, Row(g)) \in Seq(Frames)
        /\ Len(Append(popped, Row(g))) = Len(popped) + 1
        /\ \A i \in 1..Len(popped) : Append(popped, Row(g))[i] = popped[i]
        /\ Append(popped, Row(g))[Len(popped) + 1] = Row(g)
    BY <1>3, <1>5, AppendProperties
  <2> QED
    BY <1>5, <1>6, <2>1
<1>8. /\ \A i \in 1..n : stack'[i].folder = stack[i].folder
      /\ \A i \in 1..n - 1 : stack'[i].todo = stack[i].todo
      /\ stack'[n].todo = stack[n].todo \ {g}
      /\ stack'[n + 1].folder = g /\ stack'[n + 1].todo = Children(g)
  <2>1. \A i \in 1..n - 1 : stack'[i] = stack[i]
    BY <1>1, <1>5, <1>7
  <2>2. stack'[n] = [stack[n] EXCEPT !.todo = @ \ {g}] /\ stack[n] \in Frames
    BY <1>3, <1>5, <1>7, FramesTyped
  <2>3. stack'[n].folder = stack[n].folder /\ stack'[n].todo = stack[n].todo \ {g}
    BY <2>2 DEF Frames
  <2>4. stack'[n + 1].folder = g /\ stack'[n + 1].todo = Children(g)
    BY <1>7 DEF Row
  <2> QED
    BY <1>1, <2>1, <2>3, <2>4
<1> QED
  BY <1>1, <1>7, <1>8

(* The return of that call, with the row of the folder on top deleted.            *)
LEMMA Popped ==
    ASSUME LibraryInv, DeleteChild
    PROVE  /\ op = "tree" /\ Len(stack) \in Nat /\ Len(stack) > 1
           /\ stack[Len(stack)].todo = {}
           /\ stack[Len(stack)].folder \in Folder
           /\ DropFolder(stack[Len(stack)].folder)
           /\ stack' \in Seq(Frames) /\ Len(stack') = Len(stack) - 1
           /\ \A i \in 1..Len(stack) - 1 : stack'[i] = stack[i]
<1> USE DEF LibraryInv
<1> DEFINE n == Len(stack)
           f == stack[n].folder
<1>1. /\ op = "tree" /\ n \in Nat /\ n > 1 /\ stack[n].todo = {} /\ f \in Folder
      /\ DropFolder(f)
  BY FramesTyped DEF DeleteChild, Frame
<1>2. /\ stack' \in Seq([folder : Folder, todo : SUBSET Folder]) /\ Len(stack') = n - 1
      /\ \A i \in 1..n - 1 : stack'[i] = stack[i]
  <2>1. stack' = SubSeq(stack, 1, n - 1)
    BY DEF DeleteChild
  <2>2. 1 \in Int /\ n - 1 \in Int /\ \A i \in 1..n - 1 : stack[i] \in Frames
    BY <1>1, FramesTyped
  <2>3. /\ SubSeq(stack, 1, n - 1) \in Seq(Frames)
        /\ Len(SubSeq(stack, 1, n - 1)) = IF 1 <= n - 1 THEN n - 1 - 1 + 1 ELSE 0
        /\ \A i \in 1..n - 1 - 1 + 1 : SubSeq(stack, 1, n - 1)[i] = stack[1 + i - 1]
    BY <2>2, SubSeqProperties
  <2> QED
    BY <1>1, <2>1, <2>3 DEF Frames
<1> QED
  BY <1>1, <1>2 DEF Frames

LEMMA FolderStepKeeps ==
    ASSUME LibraryInv, FolderStep
    PROVE  LibraryInv'
<1> USE LibraryAssumption DEF LibraryInv, nameVars
<1>1. ASSUME NEW t \in Creator, NEW n \in Name, CreateLookUp(t, n) PROVE LibraryInv'
  BY <1>1 DEF CreateLookUp, LibraryTypeOK, Places, Open, Descent, Children, Blank, Withdrawing, CopiesOf,
              folderVars, chatVars, copyVars, opVars
<1>2. ASSUME NEW t \in Creator, NEW f \in Folder, CreateInsert(t, f) PROVE LibraryInv'
  <2>1. f \in Folder /\ f \notin known /\ f \notin folders
    BY <1>2, NewIdIsNew DEF CreateInsert, LibraryTypeOK
  <2>3. arrived' \in [Request -> SUBSET Folder]
    BY <1>2 DEF CreateInsert, Arrive, LibraryTypeOK
  <2>2. LibraryTypeOK'
    BY <1>2, <2>1, <2>3 DEF CreateInsert, LibraryTypeOK, chatVars, copyVars, opVars
  <2>4. Descent'
    <3> SUFFICES ASSUME op' = "tree", NEW i \in 1..Len(stack'), NEW g \in folders',
                        parent'[g] = stack'[i].folder
                 PROVE  g \in stack'[i].todo \/ (i < Len(stack') /\ g = stack'[i + 1].folder)
      BY DEF Descent, Children
    <3>1. op = "tree" /\ stack' = stack /\ parent' = parent /\ folders' = folders \cup {f}
      BY <1>2 DEF CreateInsert, opVars
    <3>2. stack[i].folder \in Folder
      BY <3>1, FramesTyped
    <3>3. g \in folders /\ parent[g] = stack[i].folder
      BY <2>1, <3>1, <3>2 DEF Blank
    <3> QED
      BY <3>1, <3>3 DEF Descent, Children
  <2> QED
    BY <1>2, <2>1, <2>2, <2>4 DEF CreateInsert, Places, Open, Blank, Withdrawing, CopiesOf,
              chatVars, copyVars, opVars
<1>3. ASSUME NEW f \in Folder, NEW step \in {"rename", "move"}, NEW place,
             place \in [parent : Folder \cup {Top}, name : Name \cup {NoName}],
             StartPlacing(f, step, place)
      PROVE  LibraryInv'
  <2>1. LibraryTypeOK'
    BY <1>3 DEF StartPlacing, LibraryTypeOK, Ops, folderVars, chatVars, copyVars
  <2> QED
    BY <1>3, <2>1 DEF StartPlacing, Places, Open, Descent, Children, Blank, Withdrawing, CopiesOf, folderVars
<1>4. ASSUME NEW f \in Folder, NEW n \in Name, Rename(f, n) PROVE LibraryInv'
  <2>1. [parent |-> parent[f], name |-> n] \in [parent : Folder \cup {Top}, name : Name \cup {NoName}]
    BY DEF LibraryTypeOK
  <2> QED
    BY <1>3, <1>4, <2>1 DEF Rename
<1>11. ASSUME NEW f \in Folder, NEW p \in known \cup {Top}, Move(f, p) PROVE LibraryInv'
  <2>1. [parent |-> p, name |-> name[f]] \in [parent : Folder \cup {Top}, name : Name \cup {NoName}]
    BY DEF LibraryTypeOK
  <2> QED
    BY <1>3, <1>11, <2>1 DEF Move
<1>12. ASSUME PlaceFolder PROVE LibraryInv'
  <2>1. Answer /\ at \in folders /\ folders' = folders /\ parent' = [parent EXCEPT ![at] = goal.parent]
    BY <1>12 DEF PlaceFolder, Places, Open
  <2>2. Blank'
    BY <2>1 DEF Blank, LibraryTypeOK
  <2>3. arrived' \in [Request -> SUBSET Folder]
    BY <1>12, <2>1 DEF PlaceFolder, Arrive, LibraryTypeOK
  <2>4. goal.parent \in Folder \cup {Top} /\ goal.name \in Name \cup {NoName}
    BY DEF LibraryTypeOK
  <2>5. LibraryTypeOK'
    BY <1>12, <2>1, <2>3, <2>4, AnswerKeeps DEF PlaceFolder, Nowhere, LibraryTypeOK, chatVars, copyVars
  <2> QED
    BY <2>1, <2>2, <2>5, AnswerKeeps
<1>13. ASSUME RenameRefused PROVE LibraryInv'
  <2>1. Answer
    BY <1>13 DEF RenameRefused
  <2> QED
    BY <1>13, <2>1, AnswerKeeps
       DEF RenameRefused, Nowhere, LibraryTypeOK, Blank, folderVars, chatVars, copyVars
<1>5. ASSUME NEW f \in Folder, DeleteFolder(f) PROVE LibraryInv'
  <2>1. Row(f) \in [folder : Folder, todo : SUBSET Folder]
    BY DEF Row, Children, LibraryTypeOK
  <2>2. /\ stack' = <<Row(f)>> /\ stack' \in Seq([folder : Folder, todo : SUBSET Folder])
        /\ Len(stack') = 1 /\ stack'[1] = Row(f)
    BY <1>5, <2>1 DEF DeleteFolder
  <2>3. ids' \in Seq(Folder) /\ subtree' \subseteq Folder
    BY <1>5 DEF DeleteFolder, Below
  <2>4. LibraryTypeOK'
    BY <1>5, <2>2, <2>3 DEF DeleteFolder, LibraryTypeOK, Ops, folderVars, chatVars, copyVars
  <2>5. Descent'
    BY <1>5, <2>2 DEF DeleteFolder, Descent, Row, Children, folderVars
  <2> QED
    BY <1>5, <2>2, <2>4, <2>5 DEF DeleteFolder, Places, Open, Row, Blank, Withdrawing, folderVars
<1>6. ASSUME NEW g \in Folder, Descend(g) PROVE LibraryInv'
  <2> DEFINE n == Len(stack)
  <2>1. /\ op = "tree" /\ n \in Nat /\ n > 0 /\ g \in stack[n].todo
        /\ stack' \in Seq(Frames) /\ Len(stack') = n + 1
        /\ \A i \in 1..n : stack'[i].folder = stack[i].folder
        /\ \A i \in 1..n - 1 : stack'[i].todo = stack[i].todo
        /\ stack'[n].todo = stack[n].todo \ {g}
        /\ stack'[n + 1].folder = g /\ stack'[n + 1].todo = Children(g)
    BY <1>6, Pushed
  <2> HIDE DEF n
  <2>2. LibraryTypeOK'
    BY <1>6, <2>1 DEF Descend, LibraryTypeOK, Frames, folderVars, chatVars, copyVars
  <2>3. Descent'
    <3> SUFFICES ASSUME NEW i \in 1..n + 1, NEW h \in folders', parent'[h] = stack'[i].folder
                 PROVE  h \in stack'[i].todo \/ (i < n + 1 /\ h = stack'[i + 1].folder)
      BY <2>1 DEF Descent, Children
    <3>1. folders' = folders /\ parent' = parent
      BY <1>6 DEF Descend, folderVars
    <3>2. CASE i = n + 1
      <4>1. stack'[i].folder = g /\ stack'[i].todo = Children(g)
        BY <3>2, <2>1
      <4>2. h \in Children(g)
        BY <3>1, <4>1 DEF Children
      <4> QED
        BY <4>1, <4>2
    <3>3. CASE i \in 1..n
      <4>1. h \in stack[i].todo \/ (i < n /\ h = stack[i + 1].folder)
        BY <2>1, <3>1, <3>3 DEF Descent, Children, n
      <4>2. CASE i = n
        <5>1. h \in stack[n].todo
          BY <2>1, <4>1, <4>2
        <5>2. stack'[i].todo = stack[n].todo \ {g} /\ stack'[i + 1].folder = g /\ i < n + 1
          BY <2>1, <4>2
        <5> QED
          BY <5>1, <5>2
      <4>3. CASE i \in 1..n - 1
        <5>1. i + 1 \in 1..n
          BY <4>3, <2>1
        <5> QED
          BY <4>1, <4>3, <2>1, <5>1
      <4> QED
        BY <3>3, <2>1, <4>2, <4>3
    <3> QED
      BY <2>1, <3>2, <3>3
  <2>4. Places'
    <3>1. 1 \in 1..n /\ n + 1 > 0
      BY <2>1
    <3> QED
      BY <1>6, <2>1, <3>1 DEF Descend, Places, Open
  <2> QED
    BY <1>6, <2>2, <2>3, <2>4 DEF Descend, Blank, Withdrawing, CopiesOf, folderVars, chatVars, copyVars
<1>7. ASSUME Overflow PROVE LibraryInv'
  <2>1. Answer
    BY <1>7 DEF Overflow
  <2> QED
    BY <1>7, <2>1, AnswerKeeps DEF Overflow, LibraryTypeOK, Blank, folderVars, chatVars, copyVars
<1>8. ASSUME DeleteChild PROVE LibraryInv'
  <2> DEFINE n == Len(stack)
             f == stack[n].folder
  <2>1. /\ op = "tree" /\ n \in Nat /\ n > 1 /\ stack[n].todo = {} /\ f \in Folder
        /\ DropFolder(f)
        /\ stack' \in Seq([folder : Folder, todo : SUBSET Folder]) /\ Len(stack') = n - 1
        /\ \A i \in 1..n - 1 : stack'[i] = stack[i]
    BY <1>8, Popped DEF Frames
  <2>3. ids' \in Seq(Folder)
    BY <1>8, <2>1, AppendProperties DEF DeleteChild, Frame, LibraryTypeOK
  <2>4. LibraryTypeOK'
    BY <1>8, <2>1, <2>3, FoldersDropped DEF DeleteChild, LibraryTypeOK, chatVars, copyVars
  <2>5. Descent'
    <3> SUFFICES ASSUME NEW i \in 1..n - 1, NEW h \in folders', parent'[h] = stack'[i].folder
                 PROVE  h \in stack'[i].todo \/ (i < n - 1 /\ h = stack'[i + 1].folder)
      BY <2>1 DEF Descent, Children
    <3>1. stack'[i] = stack[i] /\ stack[i].folder \in Folder
      BY <2>1, FramesTyped
    <3>2. h \in Children(stack[i].folder) /\ h # f
      BY <2>1, <3>1 DEF DropFolder, Children, LibraryTypeOK
    <3>3. h \in stack[i].todo \/ (i < n /\ h = stack[i + 1].folder)
      BY <2>1, <3>2 DEF Descent
    <3>4. CASE i = n - 1
      BY <2>1, <3>1, <3>2, <3>3, <3>4
    <3>5. CASE i \in 1..n - 2
      <4>1. i + 1 \in 1..n - 1 /\ i < n - 1
        BY <3>5, <2>1
      <4> QED
        BY <2>1, <3>1, <3>3, <4>1
    <3> QED
      BY <2>1, <3>4, <3>5
  <2>6. Places'
    BY <1>8, <2>1 DEF DeleteChild, Places, Open
  <2> QED
    BY <1>8, <2>1, <2>4, <2>5, <2>6, FoldersDropped
       DEF DeleteChild, Withdrawing, CopiesOf, chatVars, copyVars
<1>9. ASSUME DeleteRoot PROVE LibraryInv'
  <2>1. at \in Folder /\ DropFolder(at) /\ op' = "purge" /\ stack' = <<>>
    BY <1>9 DEF DeleteRoot, Places, Open
  <2>2. LibraryTypeOK'
    BY <1>9, <2>1, FoldersDropped DEF DeleteRoot, LibraryTypeOK, Ops, chatVars, copyVars
  <2> QED
    BY <2>1, <2>2, FoldersDropped DEF Places, Open, Descent, Withdrawing
<1>10. ASSUME Purge PROVE LibraryInv'
  <2>1. CASE ids = <<>>
    <3>1. Answer
      BY <1>10, <2>1 DEF Purge
    <3> QED
      BY <1>10, <2>1, <3>1, AnswerKeeps
         DEF Purge, LibraryTypeOK, Blank, folderVars, chatVars, copyVars
  <2>2. CASE ids # <<>>
    <3>1. DropChats({c \in chats : inFolder[c] = Head(ids)}) /\ ids' = Tail(ids)
      BY <1>10, <2>2 DEF Purge
    <3>2. {c \in chats : inFolder[c] = Head(ids)} \in SUBSET Chat
      BY DEF LibraryTypeOK
    <3>3. ids' \in Seq(Folder)
      BY <2>2, <3>1 DEF LibraryTypeOK
    <3>4. LibraryTypeOK'
      BY <1>10, <2>2, <3>1, <3>2, <3>3, ChatsDropped DEF Purge, LibraryTypeOK, folderVars, copyVars
    <3> QED
      BY <1>10, <2>2, <3>4 DEF Purge, Places, Open, Descent, Blank, Withdrawing, folderVars
  <2> QED
    BY <2>1, <2>2
<1> QED
  BY ONLY FolderStep, <1>1, <1>2, <1>4, <1>5, <1>6, <1>7, <1>8, <1>9, <1>10, <1>11, <1>12, <1>13
     DEF FolderStep

LEMMA ChatStepKeeps ==
    ASSUME LibraryInv, ChatStep
    PROVE  LibraryInv'
<1> USE DEF LibraryInv, nameVars
<1>1. ASSUME NEW c \in Chat, NEW p \in known \cup {Top}, NewChat(c, p) PROVE LibraryInv'
  <2>1. c \in Chat /\ c \notin created
    BY <1>1, NewIdIsNew DEF NewChat
  <2> QED
    BY <1>1, <2>1 DEF NewChat, LibraryTypeOK, Places, Open, Descent, Blank, Withdrawing, CopiesOf, Children,
                      folderVars, copyVars, opVars
<1>2. ASSUME NEW c \in Chat, NEW p \in known \cup {Top}, MoveChat(c, p) PROVE LibraryInv'
  BY <1>2 DEF MoveChat, LibraryTypeOK, Places, Open, Descent, Blank, Withdrawing, CopiesOf, Children,
              folderVars, copyVars, opVars
<1>3. ASSUME NEW c \in Chat, DeleteChatRow(c) PROVE LibraryInv'
  <2>1. LibraryTypeOK'
    BY <1>3, ChatsDropped DEF DeleteChatRow, LibraryTypeOK, Ops, folderVars, copyVars
  <2> QED
    BY <1>3, <2>1 DEF DeleteChatRow, Places, Open, Descent, Blank, Withdrawing, folderVars
<1>4. ASSUME DeleteCopies PROVE LibraryInv'
  <2>1. CopiesOf(at) \in SUBSET Copy
    BY DEF CopiesOf, LibraryTypeOK
  <2>2. DropCopies(CopiesOf(at)) /\ Answer
    BY <1>4 DEF DeleteCopies
  <2> QED
    BY <1>4, <2>1, <2>2, CopiesDropped, AnswerKeeps
       DEF DeleteCopies, LibraryTypeOK, Blank, folderVars, chatVars
<1>5. ASSUME WipeCopies PROVE LibraryInv'
  <2>1. {k \in copies : copyOf[k] \in chats} \in SUBSET Copy
    BY DEF LibraryTypeOK
  <2>2. DropCopies({k \in copies : copyOf[k] \in chats})
    BY <1>5 DEF WipeCopies
  <2>3. LibraryTypeOK'
    BY <1>5, <2>1, <2>2, CopiesDropped DEF WipeCopies, LibraryTypeOK, Ops, folderVars, chatVars
  <2>4. \A k \in copies' : copyOf'[k] \notin chats'
    BY <1>5, <2>1, <2>2, CopiesDropped DEF WipeCopies, DropCopies, chatVars
  <2> QED
    BY <1>5, <2>3, <2>4 DEF WipeCopies, Places, Open, Descent, Blank, Withdrawing, folderVars
<1>6. ASSUME WipeChats PROVE LibraryInv'
  <2>1. DropChats(chats) /\ Answer /\ chats \in SUBSET Chat
    BY <1>6 DEF WipeChats, LibraryTypeOK
  <2> QED
    BY <1>6, <2>1, ChatsDropped, AnswerKeeps
       DEF WipeChats, LibraryTypeOK, Blank, folderVars, copyVars
<1> QED
  BY ONLY ChatStep, <1>1, <1>2, <1>3, <1>4, <1>5, <1>6 DEF ChatStep

LEMMA ShareStepKeeps ==
    ASSUME LibraryInv, ShareStep
    PROVE  LibraryInv'
<1> USE DEF LibraryInv, nameVars
<1>1. ASSUME NEW c \in Chat, NEW k \in Copy, InsertCopy(c, k) PROVE LibraryInv'
  BY <1>1 DEF InsertCopy, LibraryTypeOK, Ops, Places, Open, Descent, Blank, Withdrawing, folderVars, chatVars
<1>2. ASSUME SetShareId PROVE LibraryInv'
  <2>1. Answer /\ at \in Copy
    BY <1>2 DEF SetShareId, Places, Open
  <2> QED
    BY <1>2, <2>1, AnswerKeeps DEF SetShareId, LibraryTypeOK, Blank, folderVars, copyVars
<1>3. ASSUME NEW c \in Chat, Unshare(c) PROVE LibraryInv'
  <2>1. CopiesOf(c) \in SUBSET Copy
    BY DEF CopiesOf, LibraryTypeOK
  <2>2. DropCopies(CopiesOf(c))
    BY <1>3 DEF Unshare
  <2>3. LibraryTypeOK'
    BY <1>3, <2>1, <2>2, CopiesDropped DEF Unshare, LibraryTypeOK, Ops, folderVars, chatVars
  <2>4. CopiesOf(at)' = {}
    BY <1>3, <2>1, <2>2, CopiesDropped DEF Unshare, DropCopies, CopiesOf
  <2> QED
    BY <1>3, <2>3, <2>4 DEF Unshare, Places, Open, Descent, Blank, Withdrawing, folderVars
<1>4. ASSUME ClearShareId PROVE LibraryInv'
  <2>1. Answer
    BY <1>4 DEF ClearShareId
  <2> QED
    BY <1>4, <2>1, AnswerKeeps DEF ClearShareId, LibraryTypeOK, Blank, folderVars, copyVars
<1> QED
  BY ONLY ShareStep, <1>1, <1>2, <1>3, <1>4 DEF ShareStep

LEMMA LibraryStep == LibraryInv /\ [LibraryNext]_libraryVars => LibraryInv'
<1> SUFFICES ASSUME LibraryInv, [LibraryNext]_libraryVars PROVE LibraryInv'
  OBVIOUS
<1>1. CASE LibraryCrash
  <2>1. Answer
    BY <1>1 DEF LibraryCrash
  <2> QED
    BY <1>1, <2>1, AnswerKeeps DEF LibraryCrash, LibraryInv, LibraryTypeOK, Blank,
                                   folderVars, chatVars, copyVars, Nowhere
<1>2. CASE UNCHANGED libraryVars
  BY <1>2 DEF libraryVars, nameVars, folderVars, chatVars, copyVars, opVars, LibraryInv, LibraryTypeOK, Places, Open,
              Descent, Children, Blank, Withdrawing, CopiesOf
<1> QED
  BY <1>1, <1>2, FolderStepKeeps, ChatStepKeeps, ShareStepKeeps DEF LibraryNext

LEMMA LibraryInvariant == LibrarySpec => []LibraryInv
BY LibraryInitially, LibraryStep, PTL DEF LibrarySpec

(* Every reachable state of the library is well typed: rows have ids that were    *)
(* given out, and the stack of a deletion holds folders (LibraryTypeOK).          *)
THEOREM LibraryTypes == LibrarySpec => []LibraryTypeOK
<1>1. LibraryInv => LibraryTypeOK
  BY DEF LibraryInv
<1> QED
  BY <1>1, LibraryInvariant, PTL

(* No commit of the deletion of a folder takes away a folder that has children.   *)
THEOREM BranchesStayWhole == LibrarySpec => DeletedFromBelow
<1>1. LibraryInv /\ [LibraryNext]_libraryVars
        => [\A f \in folders \ folders' : \A g \in folders' : parent'[g] # f]_libraryVars
  <2> SUFFICES ASSUME LibraryInv, LibraryNext, NEW f \in folders \ folders', NEW g \in folders'
               PROVE  parent'[g] # f
    OBVIOUS
  <2>1. CASE DeleteChild
    <3> DEFINE n == Len(stack)
    <3>1. f = stack[n].folder /\ stack[n].todo = {} /\ op = "tree"
      BY <2>1 DEF DeleteChild, Frame, DropFolder
    <3>2. n \in Nat /\ n > 1
      BY <2>1, FramesTyped DEF DeleteChild, LibraryInv
    <3>4. n \in 1..n /\ ~(n < n)
      BY <3>2
    <3>5. \A h \in Children(f) : h \in stack[n].todo \/ n < n
      BY <3>1, <3>4 DEF LibraryInv, Descent
    <3>6. Children(f) = {}
      BY <3>1, <3>4, <3>5
    <3>3. g \in folders /\ g # f /\ parent'[g] = parent[g]
      BY <2>1, <3>1 DEF DeleteChild, Frame, DropFolder, LibraryInv, LibraryTypeOK
    <3> QED
      BY <3>3, <3>6 DEF Children
  <2>2. CASE DeleteRoot
    <3>1. f = at /\ 1 \in 1..Len(stack) /\ stack[1].folder = at /\ stack[1].todo = {}
          /\ Len(stack) = 1 /\ op = "tree"
      BY <2>2 DEF DeleteRoot, Frame, DropFolder, LibraryInv, Places, Open
    <3>2. Children(f) = {}
      BY <3>1 DEF LibraryInv, Descent
    <3>3. g \in folders /\ g # f /\ parent'[g] = parent[g]
      BY <2>2, <3>1 DEF DeleteRoot, DropFolder, LibraryInv, LibraryTypeOK
    <3> QED
      BY <3>2, <3>3 DEF Children
  <2>3. CASE FolderStep /\ ~DeleteChild /\ ~DeleteRoot
    BY <2>3 DEF FolderStep, CreateLookUp, CreateInsert, Rename, Move, StartPlacing,
                PlaceFolder, RenameRefused, DeleteFolder, Descend, Overflow,
                Purge, folderVars
  <2>4. CASE ChatStep \/ ShareStep \/ LibraryCrash
    BY <2>4 DEF ChatStep, NewChat, MoveChat, DeleteChatRow, DeleteCopies, WipeCopies, WipeChats,
                ShareStep, InsertCopy, SetShareId, Unshare, ClearShareId, LibraryCrash, folderVars
  <2> QED
    BY <2>1, <2>2, <2>3, <2>4 DEF LibraryNext
<1> QED
  BY <1>1, LibraryInvariant, PTL DEF LibrarySpec, DeletedFromBelow

-----------------------------------------------------------------------------
(***************************************************************************)
(* Twins                                                                   *)
(***************************************************************************)

(* Whoever is in the place that an open request goes to has come since the        *)
(* request found it free.  Half of the place of the folder on its way is where it *)
(* is.                                                                            *)
TwinsInv ==
    /\ op = "rename" => goal.parent = parent[at]
    /\ op = "move" => goal.name = name[at]
    /\ \A r \in Request : Open(r) => Siblings(Place(r).parent, Place(r).name) \subseteq arrived[r]

LEMMA TwinsInitially == LibraryInit => TwinsInv
BY LibraryAssumption DEF LibraryInit, TwinsInv, Siblings

(* Nobody comes to a place: folders stay where they are or go.                    *)
LEMMA NobodyArrives ==
    ASSUME LibraryInv, TwinsInv, UNCHANGED nameVars, ~Open("loop")', folders' \subseteq folders,
           \A h \in folders' : parent'[h] = parent[h] /\ name'[h] = name[h]
    PROVE  TwinsInv'
<1>1. ASSUME NEW q \in Request, Open(q)'
      PROVE  Siblings(Place(q).parent, Place(q).name)' \subseteq arrived'[q]
  <2>1. q # "loop" /\ Open(q) /\ Place(q)' = Place(q) /\ arrived'[q] = arrived[q]
    BY <1>1 DEF Open, Place, nameVars
  <2> QED
    BY <2>1 DEF TwinsInv, Siblings
<1> QED
  BY <1>1 DEF TwinsInv, Open

LEMMA CreationArrives ==
    ASSUME LibraryInv, TwinsInv, NEW t \in Creator, NEW f \in Folder, CreateInsert(t, f)
    PROVE  TwinsInv'
<1>1. f \notin known /\ f \notin folders /\ parent[f] = Top /\ t # "loop" /\ t \in Request
  BY NewIdIsNew, LibraryAssumption DEF CreateInsert, LibraryInv, LibraryTypeOK, Blank, Request
<1>2. /\ UNCHANGED <<parent, goal, op, at>> /\ folders' = folders \cup {f}
      /\ \A h \in folders : name'[h] = name[h]
      /\ name'[f] = creating[t] /\ creating'[t] = NoName
      /\ \A u \in Creator \ {t} : creating'[u] = creating[u]
  BY <1>1 DEF CreateInsert, opVars, LibraryInv, LibraryTypeOK
<1>3. ASSUME NEW q \in Request, Open(q)', NEW h \in Siblings(Place(q).parent, Place(q).name)'
      PROVE  h \in arrived'[q]
  <2>1. q # t /\ Open(q) /\ Place(q)' = Place(q)
    BY <1>1, <1>2, <1>3 DEF Open, Place, Request
  <2>2. arrived'[q] = IF Place(q) = Place(t) THEN arrived[q] \cup {f} ELSE arrived[q]
    BY <2>1 DEF CreateInsert, Arrive
  <2>3. CASE h = f
    <3>1. Place(q).parent = Top /\ Place(q).name = creating[t]
      BY <1>1, <1>2, <1>3, <2>1, <2>3 DEF Siblings
    <3>2. Place(q) = [parent |-> Top, name |-> creating[t]]
      BY <3>1 DEF Place, LibraryInv, LibraryTypeOK
    <3> QED
      BY <1>1, <2>2, <2>3, <3>2 DEF Place
  <2>4. CASE h # f
    <3>1. h \in Siblings(Place(q).parent, Place(q).name)
      BY <1>2, <1>3, <2>1, <2>4 DEF Siblings
    <3> QED
      BY <2>1, <2>2, <3>1 DEF TwinsInv
  <2> QED
    BY <2>3, <2>4
<1>4. op = "move" => at # f
  BY <1>1 DEF LibraryInv, Places, Open
<1>5. op = "move" => name'[at] = name[at]
  BY <1>2, <1>4 DEF LibraryInv, Places, Open
<1> QED
  BY <1>2, <1>3, <1>5 DEF TwinsInv

LEMMA PlacingArrives ==
    ASSUME LibraryInv, TwinsInv, PlaceFolder
    PROVE  TwinsInv'
<1>1. at \in folders /\ folders \subseteq Folder /\ op' = "idle"
  BY DEF PlaceFolder, Answer, LibraryInv, LibraryTypeOK, Places
<1>2. /\ folders' = folders /\ creating' = creating
      /\ \A h \in folders \ {at} : parent'[h] = parent[h] /\ name'[h] = name[h]
      /\ parent'[at] = goal.parent /\ name'[at] = goal.name
  BY <1>1 DEF PlaceFolder, LibraryInv, LibraryTypeOK
<1>3. ASSUME NEW q \in Request, Open(q)', NEW h \in Siblings(Place(q).parent, Place(q).name)'
      PROVE  h \in arrived'[q]
  <2>1. q # "loop" /\ Open(q) /\ Place(q)' = Place(q)
    BY <1>1, <1>2, <1>3 DEF Open, Place
  <2>2. arrived'[q] = IF Place(q) = goal THEN arrived[q] \cup {at} ELSE arrived[q]
    BY <2>1 DEF PlaceFolder, Arrive, Place
  <2>3. CASE h = at
    <3>1. Place(q).parent = goal.parent /\ Place(q).name = goal.name
      BY <1>2, <1>3, <2>1, <2>3 DEF Siblings
    <3>2. Place(q) = goal
      BY <2>1, <3>1 DEF Place, LibraryInv, LibraryTypeOK
    <3> QED
      BY <2>2, <2>3, <3>2
  <2>4. CASE h # at
    <3>1. h \in Siblings(Place(q).parent, Place(q).name)
      BY <1>2, <1>3, <2>1, <2>4 DEF Siblings
    <3> QED
      BY <2>1, <2>2, <3>1 DEF TwinsInv
  <2> QED
    BY <2>3, <2>4
<1> QED
  BY <1>1, <1>3 DEF TwinsInv

LEMMA LookUpsSeeNobody ==
    ASSUME LibraryInv, TwinsInv,
           \/ \E t \in Creator, n \in Name : CreateLookUp(t, n)
           \/ \E f \in Folder, n \in Name : Rename(f, n)
           \/ \E f \in Folder, p \in known \cup {Top} : Move(f, p)
           \/ RenameRefused
    PROVE  TwinsInv'
<1>1. ASSUME NEW t \in Creator, NEW n \in Name, CreateLookUp(t, n) PROVE TwinsInv'
  <2>1. /\ UNCHANGED <<folders, parent, name, goal, arrived, op, at>> /\ t # "loop"
        /\ creating' = [creating EXCEPT ![t] = n] /\ Siblings(Top, n) = {}
    BY <1>1, LibraryAssumption DEF CreateLookUp, Free, folderVars, opVars
  <2>2. ASSUME NEW q \in Request, Open(q)'
        PROVE  Siblings(Place(q).parent, Place(q).name)' \subseteq arrived'[q]
    <3>1. CASE q = t
      BY <2>1, <3>1 DEF Siblings, Place, LibraryInv, LibraryTypeOK
    <3>2. CASE q # t
      <4>1. Open(q) /\ Place(q)' = Place(q)
        BY <2>1, <2>2, <3>2 DEF Open, Place, Request, LibraryInv, LibraryTypeOK
      <4> QED
        BY <2>1, <4>1 DEF TwinsInv, Siblings
    <3> QED
      BY <3>1, <3>2
  <2> QED
    BY <2>1, <2>2 DEF TwinsInv
<1>2. ASSUME NEW f \in Folder, NEW step \in {"rename", "move"}, NEW place, StartPlacing(f, step, place),
             Free(place), step = "rename" => place.parent = parent[f],
             step = "move" => place.name = name[f]
      PROVE  TwinsInv'
  <2>1. /\ UNCHANGED <<folders, parent, name, creating, arrived>>
        /\ op' = step /\ at' = f /\ goal' = place /\ Siblings(place.parent, place.name) = {}
    BY <1>2 DEF StartPlacing, Free, folderVars
  <2>2. ASSUME NEW q \in Request, Open(q)'
        PROVE  Siblings(Place(q).parent, Place(q).name)' \subseteq arrived'[q]
    <3>1. CASE q = "loop"
      BY <2>1, <3>1 DEF Siblings, Place
    <3>2. CASE q # "loop"
      <4>1. Open(q) /\ Place(q)' = Place(q)
        BY <2>1, <2>2, <3>2 DEF Open, Place
      <4> QED
        BY <2>1, <4>1 DEF TwinsInv, Siblings
    <3> QED
      BY <3>1, <3>2
  <2> QED
    BY <1>2, <2>1, <2>2 DEF TwinsInv
<1>3. ASSUME NEW f \in Folder, NEW n \in Name, Rename(f, n) PROVE TwinsInv'
  BY <1>2, <1>3 DEF Rename
<1>4. ASSUME NEW f \in Folder, NEW p \in known \cup {Top}, Move(f, p) PROVE TwinsInv'
  BY <1>2, <1>4 DEF Move
<1>5. CASE RenameRefused
  <2>1. UNCHANGED <<folders, parent, name, creating>> /\ op' = "idle"
    BY <1>5 DEF RenameRefused, folderVars, Answer
  <2>2. ASSUME NEW q \in Request, Open(q)'
        PROVE  Siblings(Place(q).parent, Place(q).name)' \subseteq arrived'[q]
    <3>1. q # "loop" /\ Open(q) /\ Place(q)' = Place(q)
      BY <2>1, <2>2 DEF Open, Place
    <3>2. arrived'[q] = arrived[q]
      BY <1>5, <3>1 DEF RenameRefused, LibraryInv, LibraryTypeOK
    <3> QED
      BY <2>1, <3>1, <3>2 DEF TwinsInv, Siblings
  <2> QED
    BY <2>1, <2>2 DEF TwinsInv
<1> QED
  BY <1>1, <1>3, <1>4, <1>5

(* Every other step of the library.                                               *)
Elsewhere ==
    \/ \E f \in Folder : DeleteFolder(f) \/ Descend(f)
    \/ Overflow \/ DeleteChild \/ DeleteRoot \/ Purge
    \/ ChatStep \/ ShareStep

LEMMA NobodyIsMoved ==
    ASSUME LibraryInv, Elsewhere
    PROVE  /\ UNCHANGED nameVars /\ ~Open("loop")' /\ folders' \subseteq folders
           /\ \A h \in folders' : parent'[h] = parent[h] /\ name'[h] = name[h]
<1> USE DEF nameVars, folderVars, opVars, Open
<1>1. CASE \/ \E f \in Folder : DeleteFolder(f) \/ Descend(f)
           \/ Overflow \/ Purge
  BY <1>1 DEF DeleteFolder, Descend, Overflow, Purge, Answer
<1>2. CASE DeleteChild \/ DeleteRoot
  BY <1>2 DEF DeleteChild, DeleteRoot, DropFolder, LibraryInv, LibraryTypeOK
<1>3. CASE ChatStep
  BY <1>3 DEF ChatStep, NewChat, MoveChat, DeleteChatRow, DeleteCopies, WipeCopies, WipeChats, Answer
<1>4. CASE ShareStep
  BY <1>4 DEF ShareStep, InsertCopy, SetShareId, Unshare, ClearShareId, Answer
<1> QED
  BY <1>1, <1>2, <1>3, <1>4 DEF Elsewhere

LEMMA TwinsStep == LibraryInv /\ TwinsInv /\ [LibraryNext]_libraryVars => TwinsInv'
<1> SUFFICES ASSUME LibraryInv, TwinsInv, [LibraryNext]_libraryVars PROVE TwinsInv'
  OBVIOUS
<1>1. CASE Elsewhere
  BY <1>1, NobodyIsMoved, NobodyArrives
<1>2. CASE LibraryCrash
  BY <1>2 DEF LibraryCrash, Answer, TwinsInv, Open, Request
<1>3. CASE UNCHANGED libraryVars
  BY <1>3 DEF libraryVars, folderVars, nameVars, opVars, TwinsInv, Open, Place, Siblings
<1> QED
  BY <1>1, <1>2, <1>3, CreationArrives, PlacingArrives, LookUpsSeeNobody
     DEF LibraryNext, FolderStep, Elsewhere

LEMMA TwinsInvariant == LibrarySpec => [](LibraryInv /\ TwinsInv)
<1>1. LibraryInv /\ TwinsInv /\ [LibraryNext]_libraryVars => LibraryInv' /\ TwinsInv'
  BY LibraryStep, TwinsStep
<1> QED
  BY <1>1, LibraryInitially, TwinsInitially, PTL DEF LibrarySpec

(* Creations, renames and moves make twins only when they overlap: the commit of  *)
(* one brings its folder to a place that another has filled since its lookup.     *)
THEOREM TwinsOverlap == LibrarySpec => OnlyOverlapTwins
<1> DEFINE Overtaken(f, g) == \E r \in Request : Open(r) /\ ~Open(r)' /\ {f, g} \cap arrived[r] # {}
<1>1. LibraryInv /\ TwinsInv /\ [LibraryNext]_libraryVars
        => [\A f, g \in Folder : Twins(f, g)' /\ ~Twins(f, g) => Overtaken(f, g)]_libraryVars
  <2> SUFFICES ASSUME LibraryInv, TwinsInv, LibraryNext, NEW f \in Folder, NEW g \in Folder,
                      Twins(f, g)', ~Twins(f, g)
               PROVE  Overtaken(f, g)
    OBVIOUS
  <2>1. /\ f # g /\ f \in folders' /\ g \in folders'
        /\ parent'[f] = parent'[g] /\ name'[f] = name'[g]
    BY DEF Twins
  <2>2. ASSUME NEW t \in Creator, NEW h \in Folder, CreateInsert(t, h) PROVE Overtaken(f, g)
    <3>1. h \notin folders /\ parent[h] = Top /\ t # "loop" /\ t \in Request
      BY <2>2, NewIdIsNew, LibraryAssumption
         DEF CreateInsert, LibraryInv, LibraryTypeOK, Blank, Request
    <3>2. /\ parent' = parent /\ folders' = folders \cup {h} /\ name'[h] = creating[t]
          /\ \A x \in folders : name'[x] = name[x]
          /\ creating[t] # NoName /\ creating'[t] = NoName
      BY <2>2, <3>1 DEF CreateInsert, LibraryInv, LibraryTypeOK
    <3>3. Open(t) /\ ~Open(t)'
      BY <3>1, <3>2 DEF Open
    <3>4. f = h \/ g = h
      BY <2>1, <3>2 DEF Twins
    <3>5. {f, g} \cap Siblings(Top, creating[t]) # {}
      BY <2>1, <3>1, <3>2, <3>4 DEF Siblings
    <3>6. Siblings(Top, creating[t]) \subseteq arrived[t]
      BY <3>1, <3>3 DEF TwinsInv, Place
    <3> QED
      BY <3>1, <3>3, <3>5, <3>6
  <2>3. CASE PlaceFolder
    <3>1. at \in folders /\ Open("loop") /\ ~Open("loop")' /\ "loop" \in Request
      BY <2>3 DEF PlaceFolder, Answer, Open, LibraryInv, Places, Request
    <3>2. /\ folders' = folders /\ parent'[at] = goal.parent /\ name'[at] = goal.name
          /\ \A x \in folders \ {at} : parent'[x] = parent[x] /\ name'[x] = name[x]
      BY <2>3, <3>1 DEF PlaceFolder, LibraryInv, LibraryTypeOK
    <3>3. f = at \/ g = at
      BY <2>1, <3>2 DEF Twins
    <3>4. {f, g} \cap Siblings(goal.parent, goal.name) # {}
      BY <2>1, <3>2, <3>3 DEF Siblings
    <3>5. Siblings(goal.parent, goal.name) \subseteq arrived["loop"]
      BY <3>1 DEF TwinsInv, Place
    <3> QED
      BY <3>1, <3>4, <3>5
  <2>4. CASE Elsewhere
    BY <2>1, <2>4, NobodyIsMoved DEF Twins
  <2>5. CASE \/ \E t \in Creator, n \in Name : CreateLookUp(t, n)
             \/ \E h \in Folder, n \in Name : Rename(h, n)
             \/ \E h \in Folder, p \in known \cup {Top} : Move(h, p)
             \/ RenameRefused \/ LibraryCrash
    BY <2>1, <2>5 DEF CreateLookUp, Rename, Move, StartPlacing, RenameRefused, LibraryCrash, Twins,
                      folderVars
  <2> QED
    BY <2>2, <2>3, <2>4, <2>5 DEF LibraryNext, FolderStep, Elsewhere
<1> QED
  BY <1>1, TwinsInvariant, PTL DEF LibrarySpec, OnlyOverlapTwins

(* The answer to a deletion, a wipe or the end of a sharing leaves no copy behind. *)
THEOREM CopiesGoFirst == LibrarySpec => Withdrawn
<1>1. LibraryInv /\ [LibraryNext]_libraryVars
        => [Answered /\ op \in {"rowGone", "unlinked", "wiping"}
              => LET of == IF op = "wiping" THEN chats ELSE {at}
                 IN  \A k \in copies' : copyOf'[k] \notin of]_libraryVars
  <2> SUFFICES ASSUME LibraryInv, Answered, op \in {"rowGone", "unlinked", "wiping"}, NEW k \in copies'
               PROVE  copyOf'[k] \notin IF op = "wiping" THEN chats ELSE {at}
    OBVIOUS
  <2>1. CASE DeleteCopies
    BY <2>1 DEF DeleteCopies, DropCopies, CopiesOf, LibraryInv, LibraryTypeOK
  <2>2. CASE ClearShareId
    BY <2>2 DEF ClearShareId, copyVars, CopiesOf, LibraryInv, Withdrawing
  <2>3. CASE WipeChats
    BY <2>3 DEF WipeChats, copyVars, LibraryInv, Withdrawing
  <2> QED
    BY <2>1, <2>2, <2>3 DEF Answered, Overflow, Purge
<1> QED
  BY <1>1, LibraryInvariant, PTL DEF LibrarySpec, Withdrawn

-----------------------------------------------------------------------------
(***************************************************************************)
(* What an answered deletion has removed                                   *)
(***************************************************************************)

(* The stack is a path of parents through rows that are there, all of them below  *)
(* the folder to delete.  A folder can be on it twice, if it is its own ancestor; *)
(* then the folder to delete is, too: the walk can only get back to where it has  *)
(* been by its start.  The children still to do are children while their folder   *)
(* is not on the stack again above.                                               *)
Path ==
    /\ \A i \in 1..Len(stack) :
           stack[i].folder \in folders /\ stack[i].folder \in subtree /\ stack[i].todo \subseteq subtree
    /\ \A i \in 1..Len(stack) - 1 :
           /\ parent[stack[i + 1].folder] = stack[i].folder
           /\ stack[i + 1].folder \notin stack[i].todo
    /\ \A i \in 1..Len(stack) :
           (\A k \in i + 1..Len(stack) : stack[k].folder # stack[i].folder) =>
               stack[i].todo \subseteq Children(stack[i].folder)
    /\ \A i, k \in 1..Len(stack) : i < k /\ stack[i].folder = stack[k].folder =>
           \E j \in 2..Len(stack) : stack[j].folder = at

Listed(f) == \E n \in 1..Len(ids) : ids[n] = f

(* The subtree is still the least set that holds the folder, what has been        *)
(* deleted of it and the children of what it holds; and what has been deleted is  *)
(* on the list of folders whose chats go.                                         *)
Shrinking ==
    /\ at \in subtree /\ subtree \subseteq known
    /\ Listed(at)
    /\ \A h \in subtree : Children(h) \subseteq subtree
    /\ \A h \in subtree \ folders : Children(h) = {} /\ Listed(h)
    /\ \A T \in SUBSET Folder :
           at \in T /\ subtree \ folders \subseteq T /\ (\A h \in T : Children(h) \subseteq T) =>
               subtree \subseteq T

(* No folder of the subtree is left, and the chats that are left in one are those *)
(* of the folders still on the list.                                              *)
Purging ==
    /\ subtree \subseteq known
    /\ subtree \cap folders = {}
    /\ \A c \in chats : inFolder[c] \in subtree => Listed(inFolder[c])

DeletionInv ==
    /\ op = "tree" => Path /\ Shrinking
    /\ op = "purge" => Purging

LEMMA DeletionInitially == LibraryInit => DeletionInv
BY DEF LibraryInit, DeletionInv

LEMMA ListedAppended ==
    ASSUME LibraryTypeOK, NEW f \in Folder, ids' = Append(ids, f)
    PROVE  Listed(f)' /\ \A h : Listed(h) => Listed(h)'
<1>1. /\ Len(ids) \in Nat /\ Len(ids') = Len(ids) + 1
      /\ \A n \in 1..Len(ids) : ids'[n] = ids[n]
      /\ ids'[Len(ids) + 1] = f
  BY AppendProperties, LenProperties DEF LibraryTypeOK
<1>2. Len(ids) + 1 \in 1..Len(ids') /\ 1..Len(ids) \subseteq 1..Len(ids')
  BY <1>1
<1> QED
  BY <1>1, <1>2 DEF Listed

(* The request starts with its folder alone.                                      *)
LEMMA DeletionStarts ==
    ASSUME LibraryInv, NEW f \in Folder, DeleteFolder(f)
    PROVE  DeletionInv'
<1>1. /\ f \in folders /\ op' = "tree" /\ at' = f /\ ids' = <<f>>
      /\ subtree' = Below(f) /\ stack' = <<Row(f)>>
      /\ UNCHANGED folderVars
  BY DEF DeleteFolder
<1>2. /\ Len(stack') = 1 /\ stack'[1].folder = f /\ stack'[1].todo = Children(f)
      /\ Len(ids') = 1 /\ ids'[1] = f
  BY <1>1 DEF Row
<1>3. \A h \in Folder : Children(h)' = Children(h) /\ Children(h) \subseteq Folder
  BY <1>1 DEF Children, folderVars, LibraryInv, LibraryTypeOK
<1>4. Below(f) \subseteq Folder /\ f \in Below(f)
  BY DEF Below
<1>5. \A h \in Below(f) : Children(h) \subseteq Below(f)
  BY <1>3 DEF Below
<1>6. \A T \in SUBSET Folder : f \in T /\ (\A h \in T : Children(h) \subseteq T) => Below(f) \subseteq T
  BY DEF Below
<1>7. \A h \in Below(f) : h \in folders
  <2>1. {f} \cup folders \in SUBSET Folder /\ \A h \in {f} \cup folders : Children(h) \subseteq {f} \cup folders
    BY DEF Children, LibraryInv, LibraryTypeOK
  <2> QED
    BY <1>1, <1>6, <2>1
<1>8. Path'
  <2>1. /\ \A i \in 1..1 : i = 1
        /\ \A i \in 1..0 : FALSE
    OBVIOUS
  <2>2. stack'[1].folder \in folders' /\ stack'[1].folder \in subtree' /\ stack'[1].todo \subseteq subtree'
    <3>1. folders' = folders /\ Children(f) \subseteq Below(f)
      BY <1>1, <1>4, <1>5 DEF folderVars
    <3> QED
      BY ONLY <1>1, <1>2, <1>4, <3>1
  <2>3. Children(f)' = Children(f)
    BY <1>3
  <2> QED
    BY <1>2, <2>1, <2>2, <2>3 DEF Path
<1>9. Shrinking'
  <2>1. f \in subtree' /\ subtree' \subseteq known' /\ folders' = folders
    BY <1>1, <1>4, <1>7 DEF folderVars, LibraryInv, LibraryTypeOK
  <2>2. Listed(f)'
    BY <1>2 DEF Listed
  <2>3. \A h \in subtree' : Children(h)' \subseteq subtree'
    BY <1>1, <1>3, <1>4, <1>5
  <2>4. subtree' \ folders' = {}
    BY <1>1, <1>7, <2>1
  <2>5. \A T \in SUBSET Folder : f \in T /\ (\A h \in T : Children(h)' \subseteq T) => subtree' \subseteq T
    BY <1>1, <1>3, <1>6
  <2> QED
    BY <1>1, <2>1, <2>2, <2>3, <2>4, <2>5 DEF Shrinking
<1> QED
  BY <1>1, <1>8, <1>9 DEF DeletionInv

(* A creation in another thread gives the subtree no child.                       *)
LEMMA DeletionSeesNoCreation ==
    ASSUME LibraryInv, DeletionInv, NEW t \in Creator, NEW f \in Folder, CreateInsert(t, f)
    PROVE  DeletionInv'
<1>1. /\ f \notin known /\ f \notin folders /\ parent[f] = Top
      /\ folders' = folders \cup {f} /\ known' = known \cup {f}
      /\ UNCHANGED <<parent, chatVars, opVars>>
  BY NewIdIsNew DEF CreateInsert, LibraryInv, LibraryTypeOK, Blank
<1>2. /\ op' = op /\ at' = at /\ stack' = stack /\ ids' = ids /\ subtree' = subtree
      /\ chats' = chats /\ inFolder' = inFolder
  BY <1>1 DEF opVars, chatVars
<1>3. \A h \in Folder : Children(h)' = Children(h)
  BY <1>1, LibraryAssumption DEF Children
<1>4. \A h : Listed(h)' = Listed(h)
  BY <1>2 DEF Listed
<1>5. subtree \subseteq Folder
  BY DEF LibraryInv, LibraryTypeOK
<1>6. ASSUME op = "tree", Path, Shrinking PROVE Path' /\ Shrinking'
  <2>1. \A i \in 1..Len(stack) : stack[i].folder \in Folder
    BY FramesTyped DEF LibraryInv
  <2>2. Path'
    BY <1>1, <1>2, <1>3, <1>6, <2>1 DEF Path
  <2>3. subtree' \ folders' = subtree \ folders
    BY <1>1, <1>2, <1>6 DEF Shrinking
  <2>4. /\ at \in subtree /\ subtree \subseteq known' /\ Listed(at)'
        /\ \A h \in subtree : Children(h)' \subseteq subtree
        /\ \A h \in subtree \ folders : Children(h)' = {} /\ Listed(h)'
    <3>1. at \in subtree /\ subtree \subseteq known' /\ Listed(at)'
      <4>1. at \in subtree /\ subtree \subseteq known /\ Listed(at)
        BY <1>6 DEF Shrinking
      <4>2. Listed(at)'
        BY <1>2, <4>1 DEF Listed
      <4> QED
        BY <1>1, <4>1, <4>2
    <3>2. ASSUME NEW h \in subtree PROVE Children(h)' \subseteq subtree
      BY <1>3, <1>5, <1>6 DEF Shrinking
    <3>3. ASSUME NEW h \in subtree \ folders PROVE Children(h)' = {} /\ Listed(h)'
      BY <1>3, <1>4, <1>5, <1>6 DEF Shrinking
    <3> QED
      BY <3>1, <3>2, <3>3
  <2>5. \A T \in SUBSET Folder :
            at \in T /\ subtree \ folders \subseteq T /\ (\A h \in T : Children(h)' \subseteq T) =>
                subtree \subseteq T
    BY <1>3, <1>6 DEF Shrinking
  <2> QED
    BY <1>2, <2>2, <2>3, <2>4, <2>5 DEF Shrinking
<1>7. ASSUME op = "purge", Purging PROVE Purging'
  BY <1>1, <1>2, <1>4, <1>7 DEF Purging
<1> QED
  BY <1>2, <1>6, <1>7 DEF DeletionInv

(* A call puts a child of the folder on top on the path.                          *)
LEMMA DeletionDescends ==
    ASSUME LibraryInv, DeletionInv, NEW g \in Folder, Descend(g)
    PROVE  DeletionInv'
<1> DEFINE n == Len(stack)
<1>1. /\ op = "tree" /\ n \in Nat /\ n > 0 /\ g \in stack[n].todo
      /\ Len(stack') = n + 1
      /\ \A i \in 1..n : stack'[i].folder = stack[i].folder
      /\ \A i \in 1..n - 1 : stack'[i].todo = stack[i].todo
      /\ stack'[n].todo = stack[n].todo \ {g}
      /\ stack'[n + 1].folder = g /\ stack'[n + 1].todo = Children(g)
  BY Pushed
<1> HIDE DEF n
<1>2. UNCHANGED <<folders, known, parent, op, at, ids, subtree>>
  BY DEF Descend, folderVars
<1>3. Path /\ Shrinking
  BY <1>1 DEF DeletionInv
<1>4. \A h : Children(h)' = Children(h)
  BY <1>2 DEF Children
<1>5. Shrinking'
  BY <1>2, <1>3, <1>4 DEF Shrinking, Listed
<1>6. stack[n].todo \subseteq Children(stack[n].folder)
  BY <1>1, <1>3 DEF Path, n
<1>7. g \in folders /\ parent[g] = stack[n].folder /\ g \in subtree
  <2>1. stack[n].folder \in subtree
    BY <1>1, <1>3 DEF Path, n
  <2> QED
    BY <1>1, <1>3, <1>6, <2>1 DEF Children, Shrinking
<1>8. \A i \in 1..n + 1 : i \in 1..n \/ i = n + 1
  BY <1>1
<1>9. \A i \in 1..n : i = n \/ i \in 1..n - 1
  BY <1>1
<1>10. \A i \in 1..n : stack'[i].todo \subseteq stack[i].todo
  BY <1>1, <1>9
<1>11. \A i \in 1..n + 1 : stack'[i].folder \in folders /\ stack'[i].folder \in subtree /\ stack'[i].todo \subseteq subtree
  <2>1. ASSUME NEW i \in 1..n
        PROVE  stack'[i].folder \in folders /\ stack'[i].folder \in subtree /\ stack'[i].todo \subseteq subtree
    BY <1>1, <1>3, <1>10 DEF Path, n
  <2>2. Children(g) \subseteq subtree
    BY <1>3, <1>7 DEF Shrinking
  <2> QED
    BY <1>1, <1>7, <1>8, <2>1, <2>2
<1>12. \A i \in 1..n : /\ parent[stack'[i + 1].folder] = stack'[i].folder
                       /\ stack'[i + 1].folder \notin stack'[i].todo
  <2>1. ASSUME NEW i \in 1..n - 1
        PROVE  /\ parent[stack'[i + 1].folder] = stack'[i].folder
               /\ stack'[i + 1].folder \notin stack'[i].todo
    <3>1. i \in 1..n /\ i + 1 \in 1..n
      BY <1>1
    <3> QED
      BY <1>1, <1>3, <3>1 DEF Path, n
  <2>2. n \in 1..n
    BY <1>1
  <2> QED
    BY <1>1, <1>7, <1>9, <2>1, <2>2
<1>13. ASSUME NEW i \in 1..n + 1, \A k \in i + 1..n + 1 : stack'[k].folder # stack'[i].folder
       PROVE  stack'[i].todo \subseteq Children(stack'[i].folder)
  <2>1. CASE i = n + 1
    BY <1>1, <2>1
  <2>2. CASE i \in 1..n
    <3>1. \A k \in i + 1..n : k \in 1..n /\ k \in i + 1..n + 1
      BY <1>1, <2>2
    <3>2. \A k \in i + 1..n : stack[k].folder # stack[i].folder
      BY <1>1, <1>13, <2>2, <3>1
    <3>3. stack[i].todo \subseteq Children(stack[i].folder)
      BY <1>3, <2>2, <3>2 DEF Path, n
    <3> QED
      BY <1>1, <1>10, <2>2, <3>3
  <2> QED
    BY <1>8, <2>1, <2>2
<1>14. ASSUME NEW i \in 1..n + 1, NEW k \in 1..n + 1, i < k, stack'[i].folder = stack'[k].folder
       PROVE  \E j \in 2..n + 1 : stack'[j].folder = at
  <2>1. ASSUME NEW a \in 1..n, NEW b \in 1..n, a < b, stack[a].folder = stack[b].folder
        PROVE  \E j \in 2..n + 1 : stack'[j].folder = at
    <3>1. PICK j \in 2..n : stack[j].folder = at
      BY <1>3, <2>1 DEF Path, n
    <3>2. j \in 2..n + 1 /\ j \in 1..n
      BY <1>1
    <3> QED
      BY <1>1, <3>1, <3>2
  <2>2. CASE k \in 1..n
    <3>1. i \in 1..n
      BY <1>1, <1>14, <2>2
    <3> QED
      BY <1>1, <1>14, <2>1, <2>2, <3>1
  <2>3. CASE k = n + 1
    <3>1. i \in 1..n /\ stack[i].folder = g
      BY <1>1, <1>14, <2>3
    <3>2. CASE i = 1
      <4>1. stack[1].folder = at
        BY <1>1 DEF LibraryInv, Places, Open
      <4> QED
        BY <1>1, <3>1, <3>2, <4>1
    <3>3. CASE i # 1
      <4>1. i - 1 \in 1..n - 1 /\ i - 1 \in 1..n /\ i - 1 < n /\ n \in 1..n
        BY <1>1, <3>1, <3>3
      <4>2. parent[stack[i - 1 + 1].folder] = stack[i - 1].folder
        BY <1>3, <4>1 DEF Path, n
      <4>3. i - 1 + 1 = i
        BY <3>1
      <4>4. stack[i - 1].folder = stack[n].folder
        BY <1>7, <3>1, <4>2, <4>3
      <4> QED
        BY <2>1, <4>1, <4>4
    <3> QED
      BY <3>2, <3>3
  <2> QED
    BY <1>8, <2>2, <2>3
<1>15. Path'
  <2>1. n + 1 - 1 = n
    BY <1>1
  <2> QED
    BY <1>1, <1>2, <1>4, <1>11, <1>12, <1>13, <1>14, <2>1 DEF Path
<1> QED
  BY <1>1, <1>2, <1>5, <1>15 DEF DeletionInv

(* A row goes.  It is on the path once: where it had a second place, the folder   *)
(* after that one would still be its child.                                       *)
LEMMA DeletionReturns ==
    ASSUME LibraryInv, DeletionInv, DeleteChild
    PROVE  DeletionInv'
<1> DEFINE n == Len(stack)
<1>0. PICK f \in Folder : f = stack[n].folder
  BY Popped
<1>1. /\ op = "tree" /\ n \in Nat /\ n > 1 /\ f \in Folder /\ stack[n].todo = {}
      /\ DropFolder(f)
      /\ Len(stack') = n - 1
      /\ \A i \in 1..n - 1 : stack'[i] = stack[i]
  BY <1>0, Popped
<1>2. ids' = Append(ids, f) /\ UNCHANGED <<chatVars, copyVars, nameVars, op, at, subtree>>
  BY <1>0 DEF DeleteChild, Frame
<1>3. Path /\ Shrinking
  BY <1>1 DEF DeletionInv
<1> HIDE DEF n
<1>4. n \in 1..n /\ n - 1 \in 1..n - 1 /\ n - 1 + 1 = n /\ 1..n - 1 \subseteq 1..n
  BY <1>1
<1>5. Children(f) = {}
  <2>1. \A g \in Children(f) : g \in stack[n].todo \/ n < n
    BY <1>0, <1>1, <1>4 DEF LibraryInv, Descent, n
  <2> QED
    BY <1>1, <2>1
<1>6. f \in subtree /\ f \in folders /\ parent[f] = stack[n - 1].folder
  <2>1. f \in subtree /\ f \in folders
    BY <1>0, <1>3, <1>4 DEF Path, n
  <2>2. parent[stack[n - 1 + 1].folder] = stack[n - 1].folder
    BY <1>3, <1>4 DEF Path, n
  <2> QED
    BY <1>0, <1>4, <2>1, <2>2
<1>7. ASSUME NEW i \in 1..n - 1 PROVE stack[i].folder # f
  <2>1. i + 1 \in 1..n /\ i \in 1..n
    BY <1>1
  <2>2. stack[i + 1].folder \in folders /\ parent[stack[i + 1].folder] = stack[i].folder
    BY <1>3, <2>1 DEF Path, n
  <2> QED
    BY <1>5, <2>2 DEF Children
<1>8. /\ folders' = folders \ {f} /\ known' = known
      /\ \A h \in Folder : h # f => parent'[h] = parent[h]
      /\ \A h \in Folder : Children(h)' = Children(h) \ {f}
  <2>1. /\ folders' = folders \ {f} /\ known' = known
        /\ \A h \in Folder : h # f => parent'[h] = parent[h]
    BY <1>1 DEF DropFolder, LibraryInv, LibraryTypeOK
  <2>2. folders \subseteq Folder
    BY DEF LibraryInv, LibraryTypeOK
  <2> QED
    BY <2>1, <2>2 DEF Children
<1>9. subtree' = subtree /\ at' = at /\ op' = op /\ subtree \subseteq Folder
  BY <1>2 DEF LibraryInv, LibraryTypeOK
<1>10. Listed(f)' /\ \A h : Listed(h) => Listed(h)'
  BY <1>1, <1>2, ListedAppended DEF LibraryInv
<1>11. Shrinking'
  <2>1. at \in subtree /\ subtree \subseteq known' /\ Listed(at)'
    <3>1. at \in subtree /\ subtree \subseteq known /\ Listed(at)
      BY <1>3 DEF Shrinking
    <3>2. Listed(at)'
      BY <1>9, <1>10, <3>1 DEF Listed
    <3> QED
      BY <1>8, <3>1, <3>2
  <2>2. ASSUME NEW h \in subtree PROVE Children(h)' \subseteq subtree
    BY <1>3, <1>8, <1>9 DEF Shrinking
  <2>3. ASSUME NEW h \in subtree \ folders' PROVE Children(h)' = {} /\ Listed(h)'
    <3>1. CASE h = f
      BY <1>1, <1>5, <1>8, <1>10, <3>1
    <3>2. CASE h # f
      <4>1. h \in subtree \ folders /\ h \in Folder
        BY <1>8, <1>9, <3>2
      <4>2. Children(h) = {} /\ Listed(h)
        BY <1>3, <4>1 DEF Shrinking
      <4> QED
        BY <1>8, <1>10, <4>1, <4>2
    <3> QED
      BY <3>1, <3>2
  <2>4. ASSUME NEW T \in SUBSET Folder, at \in T, subtree \ folders' \subseteq T,
               \A h \in T : Children(h)' \subseteq T
        PROVE  subtree \subseteq T
    <3>1. f \in T /\ subtree \ folders \subseteq T
      BY <1>6, <1>8, <2>4
    <3>2. \A h \in T : Children(h) \subseteq T
      BY <1>8, <2>4, <3>1
    <3> QED
      BY <1>3, <2>4, <3>1, <3>2 DEF Shrinking
  <2> QED
    BY <1>8, <1>9, <2>1, <2>2, <2>3, <2>4 DEF Shrinking
<1>12. \A i \in 1..n - 1 : stack[i].folder \in Folder /\ stack[i].folder # f
  BY <1>4, <1>7, FramesTyped DEF LibraryInv, n
<1>13. Path'
  <2>1. \A i \in 1..n - 1 : /\ stack[i].folder \in folders' /\ stack[i].folder \in subtree
                            /\ stack[i].todo \subseteq subtree
    BY <1>3, <1>4, <1>7, <1>8 DEF Path, n
  <2>2. \A i \in 1..n - 2 : /\ parent'[stack[i + 1].folder] = stack[i].folder
                            /\ stack[i + 1].folder \notin stack[i].todo
    <3> SUFFICES ASSUME NEW i \in 1..n - 2
                 PROVE  /\ parent'[stack[i + 1].folder] = stack[i].folder
                        /\ stack[i + 1].folder \notin stack[i].todo
      OBVIOUS
    <3>1. i \in 1..n - 1 /\ i + 1 \in 1..n - 1
      BY <1>1
    <3> QED
      BY <1>3, <1>8, <1>12, <3>1 DEF Path, n
  <2>3. ASSUME NEW i \in 1..n - 1, \A k \in i + 1..n - 1 : stack[k].folder # stack[i].folder
        PROVE  stack[i].todo \subseteq Children(stack[i].folder) \ {f}
    <3>1. \A k \in i + 1..n : k \in i + 1..n - 1 \/ k = n
      BY <1>1
    <3>2. \A k \in i + 1..n : stack[k].folder # stack[i].folder
      BY <1>0, <1>7, <2>3, <3>1
    <3>3. i \in 1..n
      BY <1>4
    <3>4. stack[i].todo \subseteq Children(stack[i].folder)
      BY <1>3, <3>2, <3>3 DEF Path, n
    <3>5. ASSUME f \in stack[i].todo PROVE FALSE
      <4>1. stack[n - 1].folder = stack[i].folder
        BY <1>6, <3>4, <3>5 DEF Children
      <4>2. i = n - 1
        <5>1. i = n - 1 \/ n - 1 \in i + 1..n - 1
          BY <1>1
        <5> QED
          BY <2>3, <4>1, <5>1
      <4>3. stack[n - 1 + 1].folder \notin stack[n - 1].todo
        BY <1>3, <1>4 DEF Path, n
      <4> QED
        BY <1>0, <1>4, <3>5, <4>2, <4>3
    <3> QED
      BY <3>4, <3>5
  <2>4. ASSUME NEW i \in 1..n - 1, NEW k \in 1..n - 1, i < k, stack[i].folder = stack[k].folder
        PROVE  \E j \in 2..n - 1 : stack[j].folder = at
    <3>1. PICK j \in 2..n : stack[j].folder = at
      BY <1>3, <1>4, <2>4 DEF Path, n
    <3>2. j # n
      <4>1. stack[1].folder = at /\ 1 \in 1..n - 1
        BY <1>1 DEF LibraryInv, Places, Open
      <4> QED
        BY <1>0, <1>7, <3>1, <4>1
    <3>3. j \in 2..n - 1
      BY <1>1, <3>2
    <3> QED
      BY <3>1, <3>3
  <2>5. Len(stack') - 1 = n - 2
    BY <1>1
  <2>6. \A i \in 1..n - 2 : i \in 1..n - 1 /\ i + 1 \in 1..n - 1
    BY <1>1
  <2>7. \A k \in 2..n - 1 : k \in 1..n - 1
    OBVIOUS
  <2>8. \A i \in 1..n - 1 : \A k \in i + 1..n - 1 : k \in 1..n - 1
    BY <1>1
  <2>9. \A i \in 1..n - 1 :
            (\A k \in i + 1..n - 1 : stack[k].folder # stack[i].folder) =>
                stack'[i].todo \subseteq Children(stack[i].folder)'
    BY <1>1, <1>8, <1>12, <2>3
  <2> QED
    BY <1>1, <1>9, <1>12, <2>1, <2>2, <2>4, <2>5, <2>6, <2>7, <2>8, <2>9 DEF Path
<1> QED
  BY <1>1, <1>9, <1>11, <1>13 DEF DeletionInv

(* The folder's own row goes last, when nothing is below it: what has been        *)
(* deleted, with the folder, holds its own children and so is all of the subtree. *)
LEMMA DeletionEmptiesTree ==
    ASSUME LibraryInv, DeletionInv, DeleteRoot
    PROVE  DeletionInv'
<1>1. /\ op = "tree" /\ Len(stack) = 1 /\ stack[1].todo = {} /\ DropFolder(at)
      /\ op' = "purge" /\ UNCHANGED <<chatVars, at, ids, subtree>>
  BY DEF DeleteRoot, Frame
<1>2. Shrinking /\ stack[1].folder = at
  BY <1>1 DEF DeletionInv, LibraryInv, Places, Open
<1>3. Children(at) = {}
  BY <1>1, <1>2 DEF LibraryInv, Descent
<1>4. subtree \subseteq Folder /\ at \in Folder /\ at \in subtree
  BY <1>2 DEF Shrinking, LibraryInv, LibraryTypeOK
<1> DEFINE T == (subtree \ folders) \cup {at}
<1>5. \A h \in T : Children(h) \subseteq T
  BY <1>2, <1>3 DEF Shrinking
<1>6. subtree \subseteq T
  <2>1. T \in SUBSET Folder /\ at \in T /\ subtree \ folders \subseteq T
    BY <1>4
  <2> HIDE DEF T
  <2> QED
    BY <1>2, <1>5, <2>1 DEF Shrinking
<1>7. subtree' = subtree /\ folders' = folders \ {at} /\ known' = known /\ chats' = chats
      /\ inFolder' = inFolder /\ ids' = ids
  BY <1>1 DEF DropFolder, chatVars
<1>8. subtree' \cap folders' = {}
  BY <1>6, <1>7
<1>9. \A h \in subtree : Listed(h)
  BY <1>2, <1>6 DEF Shrinking
<1>10. \A h \in subtree : Listed(h)'
  BY <1>7, <1>9 DEF Listed
<1>11. Purging'
  <2>1. subtree \subseteq known
    BY <1>2 DEF Shrinking
  <2>2. \A c \in chats : inFolder[c] \in subtree => Listed(inFolder[c])
    BY <1>9
  <2>3. (\A c \in chats : inFolder[c] \in subtree => Listed(inFolder[c]))'
    BY <1>7, <2>2 DEF Listed
  <2> QED
    BY <1>7, <1>8, <2>1, <2>3 DEF Purging
<1> QED
  BY <1>1, <1>11 DEF DeletionInv

(* The chats of the first folder on the list go, and it leaves the list.          *)
LEMMA DeletionPurges ==
    ASSUME LibraryInv, DeletionInv, Purge
    PROVE  DeletionInv'
<1>1. CASE ids = <<>>
  BY <1>1 DEF Purge, Answer, DeletionInv
<1>2. CASE ids # <<>>
  <2>1. /\ op = "purge" /\ DropChats({c \in chats : inFolder[c] = Head(ids)}) /\ ids' = Tail(ids)
        /\ UNCHANGED <<folders, known, op, at, stack, subtree>>
    BY <1>2 DEF Purge, folderVars
  <2>2. Purging
    BY <2>1 DEF DeletionInv
  <2>3. /\ Len(ids) \in Nat /\ Len(ids) > 0 /\ Head(ids) = ids[1] /\ Len(ids') = Len(ids) - 1
        /\ \A n \in 1..Len(ids) - 1 : ids'[n] = ids[n + 1]
    <3>1. ids \in Seq(Folder)
      BY DEF LibraryInv, LibraryTypeOK
    <3>2. Head(ids) = ids[1]
      BY <1>2, <3>1
    <3> QED
      BY <1>2, <2>1, <3>1, <3>2, HeadTailProperties, LenProperties, EmptySeq
  <2>4. \A c \in chats' : c \in chats /\ inFolder'[c] = inFolder[c] /\ inFolder[c] # ids[1]
    BY <2>1, <2>3 DEF DropChats, LibraryInv, LibraryTypeOK
  <2>5. ASSUME NEW c \in chats', inFolder'[c] \in subtree
        PROVE  \E n \in 1..Len(ids') : ids'[n] = inFolder'[c]
    <3>1. PICK n \in 1..Len(ids) : ids[n] = inFolder[c]
      BY <2>2, <2>4, <2>5 DEF Purging, Listed
    <3>2. n # 1
      BY <2>4, <3>1
    <3>3. n - 1 \in 1..Len(ids) - 1 /\ n - 1 + 1 = n
      BY <2>3, <3>1, <3>2
    <3> QED
      BY <2>3, <2>4, <3>1, <3>3
  <2>6. Purging'
    BY <2>1, <2>2, <2>5 DEF Purging, Listed
  <2> QED
    BY <2>1, <2>6 DEF DeletionInv
<1> QED
  BY <1>1, <1>2

LEMMA DeletionStep == LibraryInv /\ DeletionInv /\ [LibraryNext]_libraryVars => DeletionInv'
<1> SUFFICES ASSUME LibraryInv, DeletionInv, [LibraryNext]_libraryVars PROVE DeletionInv'
  OBVIOUS
<1>1. CASE op' \notin {"tree", "purge"}
  BY <1>1 DEF DeletionInv
<1>2. CASE UNCHANGED <<folders, known, parent, chats, inFolder, op, at, stack, ids, subtree>>
  BY <1>2 DEF DeletionInv, Path, Shrinking, Purging, Listed, Children
<1>3. ASSUME \/ \E f \in Folder, n \in Name : Rename(f, n)
             \/ \E f \in Folder, p \in known \cup {Top} : Move(f, p)
             \/ PlaceFolder
             \/ RenameRefused
             \/ \E c \in Chat, p \in known \cup {Top} : NewChat(c, p) \/ MoveChat(c, p)
      PROVE  op' \in {"idle", "rename", "move"}
  BY <1>3 DEF Rename, Move, StartPlacing, PlaceFolder, RenameRefused, Answer, NewChat, MoveChat, opVars
<1>4. ASSUME \/ Overflow \/ LibraryCrash \/ ShareStep
             \/ \E c \in Chat : DeleteChatRow(c)
             \/ DeleteCopies \/ WipeCopies \/ WipeChats
      PROVE  op' \notin {"tree", "purge"}
  BY <1>4 DEF Overflow, LibraryCrash, ShareStep, InsertCopy, SetShareId, Unshare, ClearShareId,
              DeleteChatRow, DeleteCopies, WipeCopies, WipeChats, Answer
<1>5. ASSUME NEW t \in Creator, NEW n \in Name, CreateLookUp(t, n)
      PROVE  UNCHANGED <<folders, known, parent, chats, inFolder, op, at, stack, ids, subtree>>
  BY <1>5 DEF CreateLookUp, folderVars, chatVars, opVars
<1>6. CASE UNCHANGED libraryVars
  BY <1>2, <1>6 DEF libraryVars, folderVars, chatVars, opVars
<1> QED
  BY <1>1, <1>2, <1>3, <1>4, <1>5, <1>6, DeletionStarts, DeletionSeesNoCreation, DeletionDescends,
     DeletionReturns, DeletionEmptiesTree, DeletionPurges
  DEF LibraryNext, FolderStep, ChatStep

LEMMA DeletionInvariant == LibrarySpec => [](LibraryInv /\ DeletionInv)
<1>1. LibraryInv /\ DeletionInv /\ [LibraryNext]_libraryVars => LibraryInv' /\ DeletionInv'
  BY LibraryStep, DeletionStep
<1> QED
  BY <1>1, LibraryInitially, DeletionInitially, PTL DEF LibrarySpec

(* A walk deeper than there are folders has been at one of them twice, and so at  *)
(* its start twice: the folders before that form a cycle of parents.              *)
LEMMA DeepWalksCircle ==
    ASSUME LibraryInv, DeletionInv, op = "tree", Len(stack) = RecursionLimit
    PROVE  OnCycle(at)
<1> DEFINE n == Len(stack)
<1>1. /\ n \in Nat /\ n > Cardinality(Folder) /\ IsFiniteSet(Folder)
      /\ \A i \in 1..n : stack[i].folder \in Folder
  BY LibraryAssumption, FramesTyped DEF LibraryInv
<1>2. /\ n > 0 /\ stack[1].folder = at
      /\ \A i \in 1..n : stack[i].folder \in folders
      /\ \A i \in 1..n - 1 : parent[stack[i + 1].folder] = stack[i].folder
      /\ \A i, k \in 1..n : i < k /\ stack[i].folder = stack[k].folder =>
             \E j \in 2..n : stack[j].folder = at
  BY DEF LibraryInv, Places, Open, DeletionInv, Path
<1> HIDE DEF n
<1>3. PICK i \in 1..n, k \in 1..n : i # k /\ stack[i].folder = stack[k].folder
  <2> DEFINE step == [m \in 1..n |-> stack[m].folder]
  <2>1. step \in [1..n -> Folder]
    BY <1>1
  <2>2. IsFiniteSet(1..n) /\ Cardinality(1..n) = n
    <3>1. 1 \in Int /\ n \in Int /\ n - 1 + 1 = n /\ ~(1 > n)
      BY <1>1, <1>2
    <3> QED
      BY <3>1, FS_Interval
  <2>3. \E x, y \in 1..n : x # y /\ step[x] = step[y]
    <3>1. Cardinality(Folder) < Cardinality(1..n)
      BY <1>1, <2>2, FS_CardinalityType
    <3> HIDE DEF step
    <3> QED
      BY <1>1, <2>1, <2>2, <3>1, FS_PigeonHole
  <2> QED
    BY <2>3
<1>4. PICK j \in 2..n : stack[j].folder = at
  BY <1>2, <1>3
<1> DEFINE S == {stack[m].folder : m \in 1..j - 1}
<1>5. at \in S
  BY <1>2, <1>4
<1>6. S \in SUBSET folders
  BY <1>1, <1>2, <1>4
<1>7. {parent[g] : g \in S} \subseteq S
  <2> SUFFICES ASSUME NEW m \in 1..j - 1 PROVE parent[stack[m].folder] \in S
    OBVIOUS
  <2>1. CASE m = 1
    <3>1. j - 1 \in 1..n - 1 /\ j - 1 + 1 = j /\ j - 1 \in 1..j - 1
      BY <1>1, <1>4
    <3>2. parent[stack[j - 1 + 1].folder] = stack[j - 1].folder
      BY <1>2, <3>1
    <3> QED
      BY <1>2, <1>4, <2>1, <3>1, <3>2
  <2>2. CASE m # 1
    <3>1. m - 1 \in 1..n - 1 /\ m - 1 + 1 = m /\ m - 1 \in 1..j - 1
      BY <1>1, <1>4, <2>2
    <3>2. parent[stack[m - 1 + 1].folder] = stack[m - 1].folder
      BY <1>2, <3>1
    <3> QED
      BY <3>1, <3>2
  <2> QED
    BY <2>1, <2>2
<1>8. S \subseteq {parent[g] : g \in S}
  <2> SUFFICES ASSUME NEW m \in 1..j - 1 PROVE \E g \in S : stack[m].folder = parent[g]
    OBVIOUS
  <2>1. m \in 1..n - 1 /\ m + 1 \in 1..j
    BY <1>1, <1>4
  <2>2. parent[stack[m + 1].folder] = stack[m].folder
    BY <1>2, <2>1
  <2>3. CASE m + 1 = j
    BY <1>4, <1>5, <2>2, <2>3
  <2>4. CASE m + 1 # j
    <3>1. m + 1 \in 1..j - 1
      BY <1>4, <2>1, <2>4
    <3> QED
      BY <2>2, <3>1
  <2> QED
    BY <2>3, <2>4
<1> HIDE DEF S
<1> QED
  BY <1>5, <1>6, <1>7, <1>8 DEF OnCycle

(* The deletion of a folder that is not its own ancestor, once it is answered,    *)
(* has removed every folder below it and every chat in one of them, whatever      *)
(* cycles there are below and whatever other threads create meanwhile.            *)
THEOREM DeletionIsDone == LibrarySpec => AcknowledgedDeletion
<1> DEFINE Gone == Answered /\ op \in {"tree", "purge"} /\ ~OnCycle(at)
                     => subtree \cap (folders' \cup {inFolder'[c] : c \in chats'}) = {}
<1>1. LibraryInv /\ DeletionInv => Gone
  <2> SUFFICES ASSUME LibraryInv, DeletionInv, Answered, op \in {"tree", "purge"}, ~OnCycle(at)
               PROVE  subtree \cap (folders' \cup {inFolder'[c] : c \in chats'}) = {}
    OBVIOUS
  <2>1. CASE Overflow
    BY <2>1, DeepWalksCircle DEF Overflow
  <2>2. CASE Purge
    <3>1. op = "purge" /\ op' = "idle"
      BY <2>2 DEF Purge, Answered
    <3>2. ids = <<>> /\ UNCHANGED chatVars /\ UNCHANGED folderVars
      BY <2>2, <3>1 DEF Purge
    <3>3. Purging /\ Len(ids) = 0
      BY <3>1, <3>2 DEF DeletionInv
    <3>4. \A c \in chats : inFolder[c] \notin subtree
      BY <3>3 DEF Purging, Listed
    <3> QED
      BY <3>2, <3>3, <3>4 DEF Purging, chatVars, folderVars
  <2>3. CASE DeleteCopies \/ WipeChats \/ ClearShareId
    BY <2>3 DEF DeleteCopies, WipeChats, ClearShareId
  <2> QED
    BY <2>1, <2>2, <2>3 DEF Answered
<1>2. LibraryInv /\ DeletionInv /\ [LibraryNext]_libraryVars => [Gone]_libraryVars
  BY <1>1
<1> QED
  BY <1>2, DeletionInvariant, PTL DEF LibrarySpec, AcknowledgedDeletion
=============================================================================
