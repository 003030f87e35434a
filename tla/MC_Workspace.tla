----------------------------- MODULE MC_Workspace -----------------------------
(* The library of chats, the accounts and a knowledge base are checked side   *)
(* by side.  They share no variable and no step of one depends on another, so *)
(* every behaviour of all three is an interleaving of one of each: it is      *)
(* enough to let one of them move in each behaviour.  The names of folders    *)
(* and the threads of the knowledge base have the same values in the          *)
(* configuration, so that one symmetry set permutes either.                   *)
EXTENDS ChatLibrary, Accounts, Knowledge, TLC

VARIABLE part   \* the one that moves

WorkspaceInit ==
    /\ part \in {"library", "accounts", "knowledge"}
    /\ LibraryInit
    /\ AccountsInit
    /\ KnowledgeInit

(* The bound of the library: a user who has shared a chat has had at most two *)
(* folders.  Sharing reads nothing of folders.                                *)
FewFolders == copied = {} \/ Cardinality(known) <= 2

(* The bound of the knowledge base: of its requests, two overlap at a time.   *)
FewRequests == Cardinality({a \in Actor : doing[a] # "idle"}) <= 2

WorkspaceNext ==
    /\ \/ /\ part = "library"
          /\ LibraryNext
          /\ FewFolders'
          /\ UNCHANGED <<accountsVars, knowledgeVars>>
       \/ /\ part = "accounts"
          /\ AccountsNext
          /\ UNCHANGED <<libraryVars, knowledgeVars>>
       \/ /\ part = "knowledge"
          /\ KnowledgeNext
          /\ FewRequests'
          /\ UNCHANGED <<libraryVars, accountsVars>>
    /\ UNCHANGED part

WorkspaceSpec == WorkspaceInit /\ [][WorkspaceNext]_<<libraryVars, accountsVars, knowledgeVars, part>>

(* Every variable of the part that moves has its type: ids of rows, in        *)
(* particular, are ids that were given out, and a handler that runs has the   *)
(* account it is about.                                                       *)
TypeOK ==
    /\ part = "library" => LibraryTypeOK
    /\ part = "accounts" => AccountsTypeOK
    /\ part = "knowledge" => KnowledgeTypeOK

Symmetry == Permutations(File) \cup Permutations(Name \cup Thread)
=============================================================================
