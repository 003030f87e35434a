---------------------------- MODULE Workspace_proofs ----------------------------
(* Proofs about Knowledge and Accounts, for any number of files, threads,        *)
(* accounts, groups and callbacks, and about the three parts side by side.       *)
EXTENDS MC_Workspace, ChatLibrary_proofs, FiniteSetTheorems, TLAPS

-----------------------------------------------------------------------------
(***************************************************************************)
(* Knowledge                                                               *)
(***************************************************************************)

(* While a request is alone, every other actor is idle.                    *)
AloneIsAlone ==
    \A a \in alone : doing[a] # "idle" /\ \A b \in Actor \ {a} : doing[b] = "idle"

(* An addition that is alone still has the row of each file and, once the  *)
(* file is indexed, its entries.                                           *)
AdditionsKept ==
    \A a \in alone :
        /\ doing[a] \in {"add", "append", "batch", "extend"} => subject[a] \subseteq rows
        /\ doing[a] \in {"append", "extend"} => subject[a] \subseteq vectors

(* What a request is yet to write keeps the settled files, and what it is  *)
(* yet to take out is not settled, or not intact.                          *)
Pending ==
    \A a \in Actor :
        /\ doing[a] \in {"add", "append", "batch", "extend", "forget", "erase", "drop", "rowsOf"}
              => settled \subseteq read[a]
        /\ doing[a] = "tidy" => settled \subseteq subject[a]
        /\ doing[a] \in {"forget", "erase", "drop"} => subject[a] \cap settled = {}
        /\ doing[a] \in {"clear", "refresh"} => subject[a] \cap intact = {}
        /\ doing[a] \in {"reset", "empty"} => settled = {}
        /\ doing[a] \in {"reset", "delete", "reindex", "rebuild", "wipe", "overwrite"} => intact = {}

KnowledgeInv ==
    /\ KnowledgeTypeOK
    /\ settled \subseteq rows
    /\ SettledStays
    /\ AloneIsAlone
    /\ AdditionsKept
    /\ Pending

LEMMA KnowledgeInitially == KnowledgeInit => KnowledgeInv
BY DEF KnowledgeInit, KnowledgeInv, KnowledgeTypeOK, SettledStays, AloneIsAlone, AdditionsKept,
       Pending, Steps, Actor

LEMMA ThreadStepKeeps ==
    ASSUME KnowledgeInv, ThreadStep
    PROVE  KnowledgeInv'
<1> USE KnowledgeAssumption DEF KnowledgeInv, KnowledgeTypeOK, SettledStays, AloneIsAlone,
        AdditionsKept, Pending, Steps, Actor, baseVars, settledVars, requestVars
<1>1. ASSUME NEW t \in Thread, NEW f \in File, StartAdd(t, f) PROVE KnowledgeInv'
  BY <1>1 DEF StartAdd, Begin, Readers
<1>2. ASSUME NEW t \in Thread, NEW f \in File, StartUpdate(t, f) PROVE KnowledgeInv'
  BY <1>2 DEF StartUpdate, Begin, Readers
<1>3. ASSUME NEW t \in Thread, NEW f \in File, StartRemove(t, f) PROVE KnowledgeInv'
  BY <1>3 DEF StartRemove, Begin, Readers
<1>4. ASSUME NEW t \in Thread, NEW fs \in SUBSET File, StartBatch(t, fs) PROVE KnowledgeInv'
  BY <1>4 DEF StartBatch, Begin, Readers
<1>5. ASSUME NEW t \in Thread, IndexAdded(t) PROVE KnowledgeInv'
  BY <1>5 DEF IndexAdded, Goto
<1>6. ASSUME NEW t \in Thread, AppendFile(t) PROVE KnowledgeInv'
  BY <1>6 DEF AppendFile, SaveList, Settle, Finish
<1>7. ASSUME NEW t \in Thread, IndexBatch(t) PROVE KnowledgeInv'
  BY <1>7 DEF IndexBatch, Goto
<1>8. ASSUME NEW t \in Thread, ExtendList(t) PROVE KnowledgeInv'
  BY <1>8 DEF ExtendList, SaveList, Settle, Finish
<1>9. ASSUME NEW t \in Thread, ClearEntries(t) PROVE KnowledgeInv'
  BY <1>9 DEF ClearEntries, Goto
<1>10. ASSUME NEW t \in Thread, IndexUpdated(t) PROVE KnowledgeInv'
  BY <1>10 DEF IndexUpdated, Finish
<1>11. ASSUME NEW t \in Thread, ProcessingFails(t) PROVE KnowledgeInv'
  BY <1>11 DEF ProcessingFails, Finish
<1>12. ASSUME NEW t \in Thread, ForgetEntries(t) PROVE KnowledgeInv'
  BY <1>12 DEF ForgetEntries, Goto
<1>13. ASSUME NEW t \in Thread, EraseRow(t) PROVE KnowledgeInv'
  BY <1>13 DEF EraseRow, Goto
<1>14. ASSUME NEW t \in Thread, DropFromList(t) PROVE KnowledgeInv'
  BY <1>14 DEF DropFromList, SaveList, Finish
<1>15. ASSUME NEW t \in Thread, StartOverwrite(t) PROVE KnowledgeInv'
  BY <1>15 DEF StartOverwrite
<1>16. ASSUME NEW t \in Thread, OverwriteCollection(t) PROVE KnowledgeInv'
  BY <1>16 DEF OverwriteCollection, Finish
<1>17. ASSUME NEW t \in Thread, NEW f \in File, IndexUnlisted(t, f) PROVE KnowledgeInv'
  BY <1>17 DEF IndexUnlisted
<1> QED
  BY ONLY ThreadStep, <1>1, <1>2, <1>3, <1>4, <1>5, <1>6, <1>7, <1>8, <1>9, <1>10, <1>11, <1>12,
          <1>13, <1>14, <1>15, <1>16, <1>17 DEF ThreadStep

LEMMA LoopStepKeeps ==
    ASSUME KnowledgeInv, LoopStep
    PROVE  KnowledgeInv'
<1> USE KnowledgeAssumption DEF KnowledgeInv, KnowledgeTypeOK, SettledStays, AloneIsAlone,
        AdditionsKept, Pending, Steps, Actor, baseVars, settledVars, requestVars
<1>1. ASSUME StartListing PROVE KnowledgeInv'
  BY <1>1 DEF StartListing, Begin, Readers
<1>2. ASSUME FindRows PROVE KnowledgeInv'
  BY <1>2 DEF FindRows, Finish
<1>3. ASSUME TidyList PROVE KnowledgeInv'
  BY <1>3 DEF TidyList, SaveList, Finish
<1>4. ASSUME NEW edited \in SUBSET File, NEW given \in BOOLEAN, EditBase(edited, given)
      PROVE  KnowledgeInv'
  BY <1>4 DEF EditBase
<1>5. ASSUME StartReset PROVE KnowledgeInv'
  BY <1>5 DEF StartReset, Begin, Readers
<1>6. ASSUME EmptyList PROVE KnowledgeInv'
  BY <1>6 DEF EmptyList, SaveList, Finish
<1>7. ASSUME NEW a \in Actor, StartDelete(a) PROVE KnowledgeInv'
  BY <1>7 DEF StartDelete, Begin, Readers
<1>8. ASSUME NEW a \in Actor, DropCollection(a) PROVE KnowledgeInv'
  BY <1>8 DEF DropCollection, Goto
<1>9. ASSUME NEW a \in Actor, DropBase(a) PROVE KnowledgeInv'
  BY <1>9 DEF DropBase, Finish
<1>10. ASSUME StartReindex PROVE KnowledgeInv'
  BY <1>10 DEF StartReindex, Begin, Readers
<1>11. ASSUME RebuildCollection PROVE KnowledgeInv'
  BY <1>11 DEF RebuildCollection, Finish
<1>12. ASSUME ReindexDone PROVE KnowledgeInv'
  BY <1>12 DEF ReindexDone, Finish
<1>13. ASSUME NEW f \in File, ReindexFile(f) PROVE KnowledgeInv'
  BY <1>13 DEF ReindexFile
<1>14. ASSUME NEW f \in File, DeleteFile(f) PROVE KnowledgeInv'
  BY <1>14 DEF DeleteFile
<1>15. ASSUME DeleteAllFiles PROVE KnowledgeInv'
  BY <1>15 DEF DeleteAllFiles
<1>16. ASSUME ResetVectors PROVE KnowledgeInv'
  BY <1>16 DEF ResetVectors, Finish
<1> QED
  BY ONLY LoopStep, <1>1, <1>2, <1>3, <1>4, <1>5, <1>6, <1>7, <1>8, <1>9, <1>10, <1>11, <1>12,
          <1>13, <1>14, <1>15, <1>16 DEF LoopStep

LEMMA KnowledgeStep == KnowledgeInv /\ [KnowledgeNext]_knowledgeVars => KnowledgeInv'
<1> SUFFICES ASSUME KnowledgeInv, [KnowledgeNext]_knowledgeVars PROVE KnowledgeInv'
  OBVIOUS
<1>1. CASE KnowledgeCrash
  BY <1>1 DEF KnowledgeCrash, KnowledgeInv, KnowledgeTypeOK, SettledStays, AloneIsAlone,
              AdditionsKept, Pending, Steps, Actor, baseVars, settledVars
<1>2. CASE UNCHANGED knowledgeVars
  BY <1>2 DEF knowledgeVars, KnowledgeInv, KnowledgeTypeOK, SettledStays, AloneIsAlone,
              AdditionsKept, Pending, baseVars, settledVars, requestVars
<1> QED
  BY <1>1, <1>2, ThreadStepKeeps, LoopStepKeeps DEF KnowledgeNext

(* Ids in lists, rows, collections and requests are those of files, in every     *)
(* reachable state of a knowledge base (KnowledgeTypeOK).                         *)
THEOREM KnowledgeTypes == KnowledgeSpec => []KnowledgeTypeOK
<1>1. KnowledgeInv => KnowledgeTypeOK
  BY DEF KnowledgeInv
<1> QED
  BY <1>1, KnowledgeInitially, KnowledgeStep, PTL DEF KnowledgeSpec

(* However many requests overlap, fail or are cut off: a file whose addition      *)
(* overlapped none and was answered stays in the list of routers/knowledge.py     *)
(* until a request takes it out, and in the collection until one replaces its     *)
(* entries or, by its name, the whole collection.                                 *)
THEOREM SettledFilesStay == KnowledgeSpec => []SettledStays
<1>1. KnowledgeInv => SettledStays
  BY DEF KnowledgeInv
<1> QED
  BY <1>1, KnowledgeInitially, KnowledgeStep, PTL DEF KnowledgeSpec

-----------------------------------------------------------------------------
(***************************************************************************)
(* Accounts                                                                *)
(***************************************************************************)

(* Accounts that requests and callbacks hold exist, or were deleted while  *)
(* a callback of theirs waited.                                            *)
HeldExist ==
    /\ \A k \in Callback : who[k] \in users \cup lost \cup {NoUser}
    /\ task \notin {"idle", "rowGone"} => about \in users \cup lost

(* Only groups have members; a plan changes groups that exist or that it   *)
(* makes first; an account that is being deleted has a step to leave each  *)
(* group that it is in.                                                    *)
GroupsFit ==
    /\ \A g \in Group \ groups : members[g] = {}
    /\ \A g \in Group : {<<"leave", g>>, <<"join", g>>} \cap plan # {}
                             => g \in groups \/ <<"make", g>> \in plan
    /\ task \in {"idle", "rowGone"} => plan = {}
    /\ task = "leaving" =>
          /\ \A g \in Group : about \in members[g] => <<"leave", g>> \in plan
          /\ Ties \/ about \notin Oldest

AccountsInv ==
    /\ AccountsTypeOK
    /\ MembersExist
    /\ PrimaryAdmin
    /\ OneFounder
    /\ HeldExist
    /\ GroupsFit

LEMMA AccountsInitially == AccountsInit => AccountsInv
BY AccountsAssumption DEF AccountsInit, AccountsInv, AccountsTypeOK, MembersExist, PrimaryAdmin,
       OneFounder, Oldest, HeldExist, GroupsFit, Tasks

(* A new account takes the place of the first only when there was none.    *)
LEMMA InsertKeeps ==
    ASSUME AccountsInv, task = "idle",
           NEW u \in User, NEW r \in {"admin", "user"},
           NEW next \in {"auth", "authThenClose", "authThenGroups"},
           InsertUser(u, r, next), used = {} => r = "admin",
           \/ founders' = founders /\ wasAdmin # {}
           \/ /\ r = RoleOfNew
              /\ founders' = IF RoleOfNew = "admin" THEN founders \cup {u} ELSE founders,
           wait' \in [Callback -> {"no", "new", "known"}],
           who' \in [Callback -> User \cup {NoUser}],
           sawAdmin' \in [Callback -> BOOLEAN],
           \A k \in Callback : wait'[k] = "known" => who'[k] \in User,
           \A k \in Callback : who'[k] \in {who[k], NoUser}
    PROVE  AccountsInv'
<1> USE DEF AccountsInv, InsertUser, groupVars
<1>1. u \in User /\ u \notin used
  BY NewIdIsNew
<1>2. Cardinality(used) \in Nat
  <2>1. used \subseteq User
    BY DEF AccountsTypeOK
  <2>2. IsFiniteSet(used)
    BY <2>1, AccountsAssumption, FS_Subset
  <2> QED
    BY <2>2, FS_CardinalityType
<1>3. PICK now \in Nat : (\A v \in used : since[v] <= now) /\ since' = [since EXCEPT ![u] = now]
  <2>1. PICK now \in {since[v] : v \in used} \cup {Cardinality(used)} :
            (\A v \in used : since[v] <= now) /\ since' = [since EXCEPT ![u] = now]
    OBVIOUS
  <2>2. now \in Nat
    BY <1>2, <2>1 DEF AccountsTypeOK
  <2> QED
    BY <2>1, <2>2
<1>4. AccountsTypeOK'
  BY <1>1, <1>3 DEF AccountsTypeOK, Tasks
<1>5. MembersExist' /\ HeldExist'
  BY <1>1 DEF AccountsTypeOK, MembersExist, HeldExist
<1>6. GroupsFit'
  BY DEF AccountsTypeOK, GroupsFit
<1>7. PrimaryAdmin'
  <2>1. CASE used = {}
    BY <2>1, <1>1, <1>3 DEF AccountsTypeOK, PrimaryAdmin, Oldest
  <2>2. CASE Ties
    BY <2>2, <1>1, <1>3 DEF AccountsTypeOK, PrimaryAdmin, Ties
  <2>3. CASE \E v \in Oldest : role[v] = "admin"
    <3>1. PICK v \in Oldest : role[v] = "admin"
      BY <2>3
    <3>2. v \in users /\ v # u /\ \A w \in users : since[v] <= since[w]
      BY <3>1, <1>1 DEF Oldest, AccountsTypeOK
    <3>3. role'[v] = "admin" /\ since'[v] = since[v] /\ since'[u] = now
      BY <3>1, <3>2, <1>1, <1>3 DEF AccountsTypeOK
    <3>4. \A w \in users' : since'[v] <= since'[w]
      BY <3>2, <3>3, <1>1, <1>3 DEF AccountsTypeOK
    <3> QED
      BY <3>2, <3>3, <3>4 DEF PrimaryAdmin, Oldest
  <2> QED
    BY <2>1, <2>2, <2>3 DEF PrimaryAdmin
<1>8. OneFounder'
  <2>1. CASE Ties
    BY <2>1, <1>1, <1>3 DEF AccountsTypeOK, OneFounder, Ties
  <2>2. CASE used = {}
    <3>1. users = {} /\ founders = {} /\ wasAdmin = {}
      BY <2>2 DEF AccountsTypeOK
    <3>2. founders' = {u} /\ users' = {u}
      BY <3>1 DEF RoleOfNew
    <3>3. Oldest' = {u}
      BY <1>1, <1>3, <3>2 DEF AccountsTypeOK, Oldest
    <3> QED
      BY <3>2, <3>3 DEF OneFounder
  <2>3. CASE ~Ties /\ used # {}
    <3>1. PICK v \in Oldest : role[v] = "admin"
      BY <2>3 DEF PrimaryAdmin
    <3>2. v \in users /\ v # u /\ since'[v] = since[v] /\ since'[u] = now
      BY <3>1, <1>1, <1>3 DEF Oldest, AccountsTypeOK
    <3>3. founders' = founders /\ founders = Oldest
      BY <2>3, <3>2 DEF RoleOfNew, OneFounder
    <3>4. CASE since[v] = now
      BY <3>2, <3>4 DEF OneFounder, Ties, AccountsTypeOK
    <3>5. CASE since[v] # now
      <4>1. since[v] < now
        BY <1>3, <3>2, <3>5 DEF AccountsTypeOK
      <4>2. \A w \in users : w # u /\ since'[w] = since[w] /\ since[w] \in Nat
        BY <1>1, <1>3 DEF AccountsTypeOK
      <4>3. Oldest' = Oldest
        <5>1. ASSUME NEW w \in Oldest PROVE w \in Oldest'
          <6>1. w \in users /\ since[w] <= since[v] /\ \A x \in users : since[w] <= since[x]
            BY <3>2, <5>1 DEF Oldest
          <6>2. since[w] <= now
            BY <4>1, <4>2, <6>1, <3>2
          <6> QED
            BY <3>2, <4>2, <6>1, <6>2 DEF Oldest
        <5>2. ASSUME NEW w \in Oldest' PROVE w \in Oldest
          <6>1. w # u
            BY <3>2, <4>1, <4>2, <5>2 DEF Oldest
          <6> QED
            BY <4>2, <5>2, <6>1 DEF Oldest
        <5> QED
          BY <5>1, <5>2
      <4> QED
        BY <3>3, <4>3 DEF OneFounder
    <3> QED
      BY <3>4, <3>5
  <2> QED
    BY <2>1, <2>2, <2>3
<1> QED
  BY <1>4, <1>5, <1>6, <1>7, <1>8

(* A step that creates no account and does not change the oldest ones or   *)
(* their roles, save to admin, keeps the primary admin and the founder.    *)
LEMMA SameAccounts ==
    ASSUME PrimaryAdmin, UNCHANGED <<users, used, since>>,
           \A u \in Oldest : role[u] = "admin" => role'[u] = "admin"
    PROVE  PrimaryAdmin' /\ (OneFounder /\ UNCHANGED founders => OneFounder')
BY DEF PrimaryAdmin, OneFounder, Oldest, Ties

LEMMA RegisterStepKeeps ==
    ASSUME AccountsInv, RegisterStep
    PROVE  AccountsInv'
<1>1. RoleOfNew \in {"admin", "user"} /\ (used = {} => RoleOfNew = "admin")
  BY DEF RoleOfNew, AccountsInv, AccountsTypeOK
<1>2. ASSUME NEW u \in User, Signup(u) PROVE AccountsInv'
  BY <1>1, <1>2, InsertKeeps DEF Signup, Register, callbackVars, AccountsInv, AccountsTypeOK
<1>3. ASSUME NEW u \in User, LdapSignup(u) PROVE AccountsInv'
  BY <1>1, <1>3, InsertKeeps DEF LdapSignup, Register, callbackVars, AccountsInv, AccountsTypeOK
<1>4. ASSUME InsertAuth PROVE AccountsInv'
  <2>1. PrimaryAdmin' /\ OneFounder'
    BY <1>4, SameAccounts DEF InsertAuth, AccountsInv, historyVars
  <2> QED
    BY <1>4, <2>1 DEF InsertAuth, Idle, AccountsInv, AccountsTypeOK, MembersExist, HeldExist,
                      GroupsFit, Tasks, groupVars, callbackVars, historyVars
<1>5. ASSUME EnableSignup PROVE AccountsInv'
  <2>1. PrimaryAdmin' /\ OneFounder'
    BY <1>5, SameAccounts DEF EnableSignup, AccountsInv, historyVars
  <2> QED
    BY <1>5, <2>1 DEF EnableSignup, AccountsInv, AccountsTypeOK, MembersExist, HeldExist,
                      GroupsFit, groupVars, callbackVars, taskVars, historyVars
<1> QED
  BY RegisterStep, <1>2, <1>3, <1>4, <1>5 DEF RegisterStep

LEMMA CallbackStepKeeps ==
    ASSUME AccountsInv, CallbackStep
    PROVE  AccountsInv'
<1> USE DEF AccountsInv
<1>1. ASSUME NEW k \in Callback, NEW u \in User, CallbackKnown(k, u) PROVE AccountsInv'
  <2>1. PrimaryAdmin'
    <3>1. UNCHANGED <<users, used, since>>
      BY <1>1 DEF CallbackKnown
    <3>2. \A v \in User : role[v] = "admin" => role'[v] = "admin"
      BY <1>1 DEF CallbackKnown, AccountsTypeOK
    <3>3. Oldest \subseteq User
      BY DEF Oldest, AccountsTypeOK
    <3> QED
      BY <3>1, <3>2, <3>3, SameAccounts
  <2>2. AccountsTypeOK'
    BY <1>1 DEF CallbackKnown, AccountsTypeOK, groupVars, taskVars
  <2>3. OneFounder'
    <3>1. UNCHANGED <<users, used, since>>
      BY <1>1 DEF CallbackKnown
    <3>2. CASE users = {u} /\ role[u] # "admin"
      BY <3>1, <3>2 DEF PrimaryAdmin, OneFounder, Oldest, Ties, AccountsTypeOK
    <3>3. CASE ~(users = {u} /\ role[u] # "admin")
      BY <1>1, <3>1, <3>3 DEF CallbackKnown, OneFounder, Oldest, Ties
    <3> QED
      BY <3>2, <3>3
  <2> QED
    BY <1>1, <2>1, <2>2, <2>3 DEF CallbackKnown, AccountsTypeOK, MembersExist, HeldExist, GroupsFit,
                            groupVars, taskVars
<1>2. ASSUME NEW k \in Callback, NEW u \in User, ResumeNew(k, u) PROVE AccountsInv'
  <2>1. RoleOfNew \in {"admin", "user"} /\ (used = {} => RoleOfNew = "admin")
    BY DEF RoleOfNew, AccountsTypeOK
  <2> QED
    BY <1>2, <2>1, InsertKeeps DEF ResumeNew, Register, CallbackOver, AccountsTypeOK
<1>3. ASSUME NEW k \in Callback, CallbackNew(k) PROVE AccountsInv'
  <2>1. PrimaryAdmin' /\ OneFounder'
    BY <1>3, SameAccounts DEF CallbackNew, accountVars, historyVars
  <2> QED
    BY <1>3, <2>1 DEF CallbackNew, AccountsTypeOK, MembersExist, HeldExist, GroupsFit,
                      accountVars, groupVars, taskVars, historyVars
<1>4. ASSUME NEW k \in Callback, ResumeKnown(k) PROVE AccountsInv'
  <2>1. PrimaryAdmin' /\ OneFounder'
    BY <1>4, SameAccounts DEF ResumeKnown, accountVars, historyVars
  <2> QED
    BY <1>4, <2>1, AccountsAssumption
       DEF ResumeKnown, CallbackOver, AccountsTypeOK, MembersExist, HeldExist, GroupsFit, Tasks,
           accountVars, groupVars, taskVars, historyVars
<1>5. ASSUME NEW k \in Callback, ResumeFails(k) PROVE AccountsInv'
  <2>1. PrimaryAdmin' /\ OneFounder'
    BY <1>5, SameAccounts DEF ResumeFails, accountVars, historyVars
  <2> QED
    BY <1>5, <2>1 DEF ResumeFails, CallbackOver, AccountsTypeOK, MembersExist, HeldExist, GroupsFit,
                      accountVars, groupVars, taskVars, historyVars
<1>6. ASSUME NEW claimed \in SUBSET Group, NEW made \in {{}, claimed \ groups}, Claims(claimed, made)
      PROVE  AccountsInv'
  <2>1. PrimaryAdmin' /\ OneFounder'
    BY <1>6, SameAccounts DEF Claims, accountVars, historyVars
  <2> QED
    BY <1>6, <2>1 DEF Claims, AccountsTypeOK, MembersExist, HeldExist, GroupsFit, Tasks,
                      accountVars, groupVars, callbackVars, historyVars
<1>7. ASSUME NEW kind \in {"make", "leave", "join"}, NEW g \in Group, SyncGroup(kind, g)
      PROVE  AccountsInv'
  <2>1. PrimaryAdmin' /\ OneFounder'
    BY <1>7, SameAccounts DEF SyncGroup, accountVars, historyVars
  <2>2. /\ members'[g] \in SUBSET User
        /\ members'[g] \subseteq users \cup lost
        /\ \A h \in Group \ {g} : members'[h] = members[h]
        /\ members' \in [Group -> SUBSET User]
    BY <1>7 DEF SyncGroup, AccountsTypeOK, MembersExist, HeldExist
  <2>3. groups' = (IF kind = "make" THEN groups \cup {g} ELSE groups)
    BY <1>7 DEF SyncGroup
  <2>4. plan' = plan \ {<<kind, g>>} /\ <<kind, g>> \in plan
    BY <1>7 DEF SyncGroup, First
  <2>5. UNCHANGED <<users, auths, used, since, role, signup, wait, who, sawAdmin, task, about,
                    wasAdmin, founders, lost>>
    BY <1>7 DEF SyncGroup, accountVars, callbackVars, historyVars
  <2>6. AccountsTypeOK'
    BY <2>2, <2>3, <2>4, <2>5 DEF AccountsTypeOK
  <2>7. MembersExist' /\ HeldExist'
    BY <2>2, <2>5 DEF MembersExist, HeldExist
  <2>8. GroupsFit'
    <3>1. kind # "make" => g \in groups
      BY <1>7, <2>4 DEF SyncGroup, First, GroupsFit
    <3>2. \A h \in Group \ groups' : members'[h] = {}
      BY <2>2, <2>3, <3>1 DEF GroupsFit
    <3>3. \A h \in Group : {<<"leave", h>>, <<"join", h>>} \cap plan' # {}
                               => h \in groups' \/ <<"make", h>> \in plan'
      BY <2>3, <2>4 DEF GroupsFit
    <3> QED
      BY <1>7, <2>5, <3>2, <3>3 DEF SyncGroup, GroupsFit
  <2> QED
    BY <2>1, <2>6, <2>7, <2>8
<1>8. ASSUME SyncDone PROVE AccountsInv'
  <2>1. PrimaryAdmin' /\ OneFounder'
    BY <1>8, SameAccounts DEF SyncDone, accountVars, historyVars
  <2> QED
    BY <1>8, <2>1 DEF SyncDone, Idle, AccountsTypeOK, MembersExist, HeldExist, GroupsFit, Tasks,
                      accountVars, groupVars, callbackVars, historyVars
<1>9. ASSUME NEW u \in User, NEW named \in SUBSET Group, SyncAtOnce(u, named) PROVE AccountsInv'
  <2>1. PrimaryAdmin' /\ OneFounder'
    BY <1>9, SameAccounts DEF SyncAtOnce, accountVars, historyVars
  <2> QED
    BY <1>9, <2>1 DEF SyncAtOnce, AccountsTypeOK, MembersExist, HeldExist, GroupsFit,
                      accountVars, callbackVars, taskVars, historyVars
<1> QED
  BY ONLY CallbackStep, <1>1, <1>2, <1>3, <1>4, <1>5, <1>6, <1>7, <1>8, <1>9 DEF CallbackStep

LEMMA AdminStepKeeps ==
    ASSUME AccountsInv, AdminStep
    PROVE  AccountsInv'
<1> USE DEF AccountsInv
<1>1. ASSUME NEW a \in User, NEW u \in User, NEW r \in {"admin", "user"}, AddUser(a, u, r)
      PROVE  AccountsInv'
  <2>1. used # {}
    BY <1>1 DEF AddUser, AccountsTypeOK
  <2> QED
    BY <1>1, <2>1, InsertKeeps DEF AddUser, callbackVars, AccountsTypeOK
<1>2. ASSUME NEW a \in User, NEW u \in User, NEW r \in {"admin", "user"}, UpdateRole(a, u, r)
      PROVE  AccountsInv'
  <2>1. PrimaryAdmin'
    <3>1. UNCHANGED <<users, used, since>>
      BY <1>2 DEF UpdateRole
    <3>2. CASE Ties
      BY <3>1, <3>2 DEF PrimaryAdmin, Ties
    <3>3. CASE ~Ties
      <4>1. PICK first \in Oldest : u = first => a = u /\ r = "admin"
        BY <1>2 DEF UpdateRole
      <4>2. \A v \in Oldest : v = first
        BY <4>1, <3>3 DEF Oldest, Ties, AccountsTypeOK
      <4>3. \A v \in Oldest : role[v] = "admin" => role'[v] = "admin"
        BY <1>2, <4>1, <4>2 DEF UpdateRole, Oldest, AccountsTypeOK
      <4> QED
        BY <3>1, <4>3, SameAccounts
    <3> QED
      BY <3>2, <3>3
  <2>2. OneFounder'
    BY <1>2 DEF UpdateRole, OneFounder, Oldest, Ties
  <2> QED
    BY <1>2, <2>1, <2>2 DEF UpdateRole, AccountsTypeOK, MembersExist, HeldExist, GroupsFit,
                      groupVars, callbackVars, taskVars
<1>3. ASSUME NEW a \in User, NEW u \in User, DeleteUser(a, u) PROVE AccountsInv'
  <2>1. PrimaryAdmin' /\ OneFounder'
    BY <1>3, SameAccounts DEF DeleteUser, accountVars, historyVars
  <2>2. GroupsFit'
    <3>1. Ties' \/ about' \notin Oldest'
      <4>1. PICK first \in Oldest : u # first
        BY <1>3 DEF DeleteUser
      <4>2. Ties \/ u \notin Oldest
        BY <4>1 DEF Oldest, Ties, AccountsTypeOK
      <4>3. about' = u /\ UNCHANGED <<users, used, since>>
        BY <1>3 DEF DeleteUser, accountVars
      <4> QED
        BY <4>2, <4>3 DEF Ties, Oldest
    <3> QED
      BY <1>3, <3>1 DEF DeleteUser, GroupsFit, AccountsTypeOK, accountVars, groupVars
  <2> QED
    BY <1>3, <2>1, <2>2 DEF DeleteUser, AccountsTypeOK, MembersExist, HeldExist, Tasks,
                            accountVars, groupVars, callbackVars, historyVars
<1>4. ASSUME NEW g \in Group, LeaveGroup(g) PROVE AccountsInv'
  <2>1. PrimaryAdmin' /\ OneFounder'
    BY <1>4, SameAccounts DEF LeaveGroup, accountVars, historyVars
  <2>2. Ties' \/ about' \notin Oldest'
    BY <1>4 DEF LeaveGroup, GroupsFit, accountVars, Ties, Oldest
  <2> QED
    BY <1>4, <2>1, <2>2 DEF LeaveGroup, First, AccountsTypeOK, MembersExist, HeldExist, GroupsFit,
                            accountVars, callbackVars, historyVars
<1>5. ASSUME DeleteRow PROVE AccountsInv'
  <2>1. PrimaryAdmin'
    <3>1. used' = used /\ since' = since /\ users' = users \ {about}
      BY <1>5 DEF DeleteRow
    <3>2. CASE used = {} \/ Ties
      BY <3>1, <3>2 DEF PrimaryAdmin, Ties
    <3>3. CASE ~Ties /\ used # {}
      <4>1. PICK v \in Oldest : role[v] = "admin"
        BY <3>3 DEF PrimaryAdmin
      <4>2. v # about
        BY <1>5, <3>3, <4>1 DEF DeleteRow, GroupsFit
      <4>3. v \in Oldest' /\ role'[v] = "admin"
        BY <1>5, <3>1, <4>1, <4>2 DEF DeleteRow, Oldest, AccountsTypeOK
      <4> QED
        BY <4>3 DEF PrimaryAdmin
    <3> QED
      BY <3>2, <3>3
  <2>2. AccountsTypeOK'
    BY <1>5 DEF DeleteRow, AccountsTypeOK, HeldExist, Tasks, groupVars, callbackVars
  <2>3. MembersExist'
    BY <1>5 DEF DeleteRow, AccountsTypeOK, MembersExist, GroupsFit, groupVars
  <2>4. HeldExist'
    BY <1>5 DEF DeleteRow, AccountsTypeOK, HeldExist, groupVars, callbackVars
  <2>5. GroupsFit'
    BY <1>5 DEF DeleteRow, GroupsFit, groupVars
  <2>6. OneFounder'
    <3>1. used' = used /\ since' = since /\ users' = users \ {about} /\ founders' = founders
      BY <1>5 DEF DeleteRow
    <3>2. CASE Ties
      BY <3>1, <3>2 DEF OneFounder, Ties
    <3>3. CASE ~Ties
      <4>1. about \notin Oldest /\ about \in used
        BY <1>5, <3>3 DEF DeleteRow, GroupsFit, HeldExist, AccountsTypeOK
      <4>2. PICK v \in Oldest : role[v] = "admin"
        BY <3>3, <4>1 DEF PrimaryAdmin
      <4>3. v \in users' /\ \A w \in users : since[v] <= since[w]
        BY <3>1, <4>1, <4>2 DEF Oldest
      <4>4. \A w \in users : since[w] \in Nat
        BY DEF AccountsTypeOK
      <4>5. Oldest' = Oldest
        <5>1. ASSUME NEW w \in Oldest PROVE w \in Oldest'
          BY <3>1, <4>1, <5>1 DEF Oldest
        <5>2. ASSUME NEW w \in Oldest' PROVE w \in Oldest
          <6>1. w \in users /\ since[w] <= since[v]
            BY <3>1, <4>3, <5>2 DEF Oldest
          <6> QED
            BY <4>3, <4>4, <6>1 DEF Oldest
        <5> QED
          BY <5>1, <5>2
      <4> QED
        BY <3>1, <3>3, <4>5 DEF OneFounder
    <3> QED
      BY <3>2, <3>3
  <2> QED
    BY <2>1, <2>2, <2>3, <2>4, <2>5, <2>6
<1>6. ASSUME DeleteAuth PROVE AccountsInv'
  <2>1. PrimaryAdmin' /\ OneFounder'
    BY <1>6, SameAccounts DEF DeleteAuth, historyVars
  <2> QED
    BY <1>6, <2>1 DEF DeleteAuth, Idle, AccountsTypeOK, MembersExist, HeldExist, GroupsFit, Tasks,
                      groupVars, callbackVars, historyVars
<1>7. ASSUME NEW g \in Group, CreateGroup(g) PROVE AccountsInv'
  <2>1. PrimaryAdmin' /\ OneFounder'
    BY <1>7, SameAccounts DEF CreateGroup, accountVars, historyVars
  <2> QED
    BY <1>7, <2>1 DEF CreateGroup, AccountsTypeOK, MembersExist, HeldExist, GroupsFit,
                      accountVars, callbackVars, taskVars, historyVars
<1>8. ASSUME NEW g \in Group, DeleteGroup(g) PROVE AccountsInv'
  <2>1. PrimaryAdmin' /\ OneFounder'
    BY <1>8, SameAccounts DEF DeleteGroup, accountVars, historyVars
  <2>2. plan = {}
    BY <1>8 DEF DeleteGroup, GroupsFit
  <2> QED
    BY <1>8, <2>1, <2>2 DEF DeleteGroup, AccountsTypeOK, MembersExist, HeldExist, GroupsFit,
                      accountVars, callbackVars, taskVars, historyVars
<1>9. ASSUME NEW g \in Group, NEW userIds \in SUBSET used, UpdateGroup(g, userIds) \/ AddToGroup(g, userIds)
      PROVE  AccountsInv'
  <2>1. PrimaryAdmin' /\ OneFounder'
    BY <1>9, SameAccounts DEF UpdateGroup, AddToGroup, accountVars, historyVars
  <2> QED
    BY <1>9, <2>1 DEF UpdateGroup, AddToGroup, Valid, AccountsTypeOK, MembersExist, HeldExist,
                      GroupsFit, accountVars, callbackVars, taskVars, historyVars
<1> QED
  BY ONLY AdminStep, <1>1, <1>2, <1>3, <1>4, <1>5, <1>6, <1>7, <1>8, <1>9 DEF AdminStep

LEMMA AccountsStep == AccountsInv /\ [AccountsNext]_accountsVars => AccountsInv'
<1> SUFFICES ASSUME AccountsInv, [AccountsNext]_accountsVars PROVE AccountsInv'
  OBVIOUS
<1>1. CASE AccountsCrash
  <2>1. PrimaryAdmin' /\ OneFounder'
    BY <1>1, SameAccounts DEF AccountsCrash, AccountsInv, accountVars, historyVars
  <2> QED
    BY <1>1, <2>1 DEF AccountsCrash, Idle, AccountsInv, AccountsTypeOK, MembersExist, HeldExist,
                      GroupsFit, Tasks, accountVars, groupVars, historyVars
<1>2. CASE UNCHANGED accountsVars
  <2>1. UNCHANGED accountVars /\ UNCHANGED groupVars /\ UNCHANGED callbackVars
        /\ UNCHANGED taskVars /\ UNCHANGED historyVars
    BY <1>2 DEF accountsVars
  <2> QED
    BY <2>1 DEF accountVars, groupVars, callbackVars, taskVars, historyVars, AccountsInv,
                AccountsTypeOK, MembersExist, PrimaryAdmin, OneFounder, HeldExist, GroupsFit, Ties,
                Oldest
<1> QED
  BY <1>1, <1>2, RegisterStepKeeps, CallbackStepKeeps, AdminStepKeeps DEF AccountsNext

(* Every reachable state of the accounts is well typed: the ids of rows, of       *)
(* members' histories and of requests are ids that accounts were given            *)
(* (AccountsTypeOK).                                                               *)
THEOREM AccountsTypes == AccountsSpec => []AccountsTypeOK
<1>1. AccountsInv => AccountsTypeOK
  BY DEF AccountsInv
<1> QED
  BY <1>1, AccountsInitially, AccountsStep, PTL DEF AccountsSpec

(* The lists of members of groups name accounts that exist, however deletions,    *)
(* logins, claims and crashes interleave, or accounts deleted during a login of   *)
(* theirs.                                                                        *)
THEOREM MembersAlwaysExist == AccountsSpec => []MembersExist
<1>1. AccountsInv => MembersExist
  BY DEF AccountsInv
<1> QED
  BY <1>1, AccountsInitially, AccountsStep, PTL DEF AccountsSpec

(* The guards of routers/users.py and the order of the commits of registrations   *)
(* and deletions keep the oldest account and its role of admin.                   *)
THEOREM PrimaryAdminStays == AccountsSpec => []PrimaryAdmin
<1>1. AccountsInv => PrimaryAdmin
  BY DEF AccountsInv
<1> QED
  BY <1>1, AccountsInitially, AccountsStep, PTL DEF AccountsSpec

(* One account founds the others: no registration, and no login of a callback,    *)
(* makes a second admin, whatever deletions, waits and crashes come between.      *)
THEOREM FounderIsFirst == AccountsSpec => []OneFounder
<1>1. AccountsInv => OneFounder
  BY DEF AccountsInv
<1> QED
  BY <1>1, AccountsInitially, AccountsStep, PTL DEF AccountsSpec

-----------------------------------------------------------------------------
(***************************************************************************)
(* The three parts side by side                                            *)
(***************************************************************************)

(* No step of one part disturbs another: a behaviour of the workspace is one of  *)
(* the library, one of the accounts and one of a knowledge base, and so has      *)
(* every property that is proved of each.                                        *)
THEOREM PartsInterleave == WorkspaceSpec => LibrarySpec /\ AccountsSpec /\ KnowledgeSpec
<1> DEFINE workspaceVars == <<libraryVars, accountsVars, knowledgeVars, part>>
<1>1. WorkspaceInit => LibraryInit /\ AccountsInit /\ KnowledgeInit
  BY DEF WorkspaceInit
<1>2. [WorkspaceNext]_workspaceVars
        => /\ [LibraryNext]_libraryVars
           /\ [AccountsNext]_accountsVars
           /\ [KnowledgeNext]_knowledgeVars
  BY DEF WorkspaceNext
<1> QED
  BY <1>1, <1>2, PTL DEF WorkspaceSpec, LibrarySpec, AccountsSpec, KnowledgeSpec

(* Every variable of every part keeps its type, whichever of them moves.         *)
THEOREM WorkspaceTypes == WorkspaceSpec => []TypeOK
<1>1. LibraryTypeOK /\ AccountsTypeOK /\ KnowledgeTypeOK => TypeOK
  BY DEF TypeOK
<1> QED
  BY <1>1, PartsInterleave, LibraryTypes, AccountsTypes, KnowledgeTypes, PTL
=============================================================================
