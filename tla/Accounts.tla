------------------------------- MODULE Accounts -------------------------------
(***************************************************************************)
(* Accounts, roles and the members of groups: tables user, auth and group  *)
(* (open_webui/models) under registration (routers/auths.py), the OAuth    *)
(* callback (utils/oauth.py) and the admin's requests (routers/users.py,   *)
(* routers/groups.py) in one process.                                      *)
(*                                                                         *)
(* Only the OAuth callback suspends, while it fetches a picture.  Other    *)
(* handlers run to their end once started; each commit is a step, as the   *)
(* process may die after it.  An admin's request is authorised in a thread *)
(* before its handler starts.                                              *)
(*                                                                         *)
(* DEFAULT_USER_ROLE is not "admin" and OAUTH role management is off.      *)
(* Which account a mail address or a provider's subject leads to is any.   *)
(* Roles other than admin are one: "user".                                 *)
(***************************************************************************)
EXTENDS Naturals, FiniteSets, Ids

CONSTANTS User,      \* ids of accounts, uuids that are never used again
          Group,     \* groups, by their names
          Callback,  \* OAuth callbacks
          NoUser

ASSUME AccountsAssumption == NoUser \notin User /\ IsFiniteSet(User)

VARIABLES
    users,     \* ids of the rows of table user
    auths,     \* ids of the rows of table auth
    used,      \* ids that accounts had or have
    since,     \* account -> created_at, in seconds
    role,      \* account -> role
    signup,    \* ENABLE_SIGNUP
    groups,    \* the rows of table group
    members,   \* group -> user_ids
    wait,      \* callback -> what it suspended with
    who,       \* callback -> the account it has looked up
    sawAdmin,  \* callback -> the role it has read is admin
    task,      \* what the handler that runs has to do next
    about,     \* the account that it is about
    plan,      \* the changes of groups that it has to make
    wasAdmin,  \* accounts that are or were an admin's (history)
    founders,  \* accounts made admin by their registration or login, not by
               \* an admin (history)
    lost       \* accounts deleted while a callback of theirs waited (history)

accountVars  == <<users, auths, used, since, role, signup>>
groupVars    == <<groups, members>>
callbackVars == <<wait, who, sawAdmin>>
taskVars     == <<task, about, plan>>
historyVars  == <<wasAdmin, founders, lost>>

accountsVars == <<accountVars, groupVars, callbackVars, taskVars, historyVars>>

-----------------------------------------------------------------------------
Tasks == {"idle", "auth", "authThenClose", "authThenGroups", "claims", "sync",
          "leaving", "rowGone"}

AccountsTypeOK ==
    /\ users \subseteq used /\ used \subseteq User /\ auths \subseteq used
    /\ since \in [User -> Nat]
    /\ role \in [User -> {"admin", "user"}]
    /\ signup \in BOOLEAN
    /\ groups \subseteq Group
    /\ members \in [Group -> SUBSET User]
    /\ wait \in [Callback -> {"no", "new", "known"}]
    /\ who \in [Callback -> User \cup {NoUser}]
    /\ \A k \in Callback : wait[k] = "known" => who[k] \in User
    /\ sawAdmin \in [Callback -> BOOLEAN]
    /\ task \in Tasks
    /\ about \in User \cup {NoUser}
    /\ task # "idle" => about \in User
    /\ plan \subseteq {"make", "leave", "join"} \X Group
    /\ wasAdmin \subseteq used /\ founders \subseteq wasAdmin /\ lost \subseteq used

AccountsInit ==
    /\ users = {} /\ auths = {} /\ used = {}
    /\ since = [u \in User |-> 0]
    /\ role = [u \in User |-> "user"]
    /\ signup = TRUE
    /\ groups = {}
    /\ members = [g \in Group |-> {}]
    /\ wait = [k \in Callback |-> "no"]
    /\ who = [k \in Callback |-> NoUser]
    /\ sawAdmin = [k \in Callback |-> FALSE]
    /\ task = "idle" /\ about = NoUser /\ plan = {}
    /\ wasAdmin = {} /\ founders = {} /\ lost = {}

(* get_first_user: of accounts created in one second it may be any.        *)
Oldest == {u \in users : \A v \in users : since[u] <= since[v]}

Idle == task' = "idle" /\ about' = NoUser /\ plan' = {}

-----------------------------------------------------------------------------
(***************************************************************************)
(* Registration                                                            *)
(***************************************************************************)

(* faulty: the account itself is counted with the others *)
RoleOfNewMiscounts == IF Cardinality(users) <= 1 THEN "admin" ELSE "user"

RoleOfNew == IF users = {} THEN "admin" ELSE "user"

(* insert_new_auth: the row of table user is committed in a transaction of *)
(* its own, before the one that adds the row of table auth.                *)
InsertUser(u, r, next) ==
    /\ u \in NewId(User, used)
    /\ users' = users \cup {u}
    /\ used' = used \cup {u}
    /\ role' = [role EXCEPT ![u] = r]
    /\ \E now \in {since[v] : v \in used} \cup {Cardinality(used)} :
          /\ \A v \in used : since[v] <= now
          /\ since' = [since EXCEPT ![u] = now]
    /\ wasAdmin' = IF r = "admin" THEN wasAdmin \cup {u} ELSE wasAdmin
    /\ task' = next /\ about' = u /\ plan' = {}
    /\ UNCHANGED <<auths, signup, groupVars, lost>>

(* The same, of an account that comes by itself.                           *)
Register(u, next) ==
    /\ InsertUser(u, RoleOfNew, next)
    /\ founders' = IF RoleOfNew = "admin" THEN founders \cup {u} ELSE founders

InsertAuth ==
    /\ task \in {"auth", "authThenClose", "authThenGroups"}
    /\ auths' = auths \cup {about}
    /\ signup' = (signup /\ task # "authThenClose")
    /\ IF task = "authThenGroups"
       THEN task' = "claims" /\ UNCHANGED <<about, plan>>
       ELSE Idle
    /\ UNCHANGED <<users, used, since, role, groupVars, callbackVars, historyVars>>

(* "Disable signup after the first user is created"                        *)
Signup(u) ==
    /\ task = "idle"
    /\ signup
    /\ Register(u, IF users = {} THEN "authThenClose" ELSE "auth")
    /\ UNCHANGED callbackVars

LdapSignup(u) ==
    /\ task = "idle"
    /\ Register(u, "auth")
    /\ UNCHANGED callbackVars

(* update_admin_config                                                     *)
EnableSignup ==
    /\ task = "idle"
    /\ wasAdmin # {}
    /\ signup' = TRUE
    /\ UNCHANGED <<users, auths, used, since, role, groupVars, callbackVars,
                   taskVars, historyVars>>

-----------------------------------------------------------------------------
(***************************************************************************)
(* The OAuth callback                                                      *)
(***************************************************************************)

(* An account is found: it becomes admin if it is the only one.  The row   *)
(* that was read is used to the end.                                       *)
CallbackKnown(k, u) ==
    /\ task = "idle"
    /\ wait[k] = "no"
    /\ u \in users
    /\ wait' = [wait EXCEPT ![k] = "known"]
    /\ who' = [who EXCEPT ![k] = u]
    /\ sawAdmin' = [sawAdmin EXCEPT ![k] = role[u] = "admin"]
    /\ IF users = {u} /\ role[u] # "admin"
       THEN /\ role' = [role EXCEPT ![u] = "admin"]
            /\ wasAdmin' = wasAdmin \cup {u} /\ founders' = founders \cup {u}
       ELSE UNCHANGED <<role, wasAdmin, founders>>
    /\ UNCHANGED <<users, auths, used, since, signup, groupVars, taskVars,
                   lost>>

CallbackNew(k) ==
    /\ task = "idle"
    /\ wait[k] = "no"
    /\ wait' = [wait EXCEPT ![k] = "new"]
    /\ UNCHANGED <<accountVars, groupVars, who, sawAdmin, taskVars, historyVars>>

CallbackOver(k) ==
    /\ wait' = [wait EXCEPT ![k] = "no"]
    /\ who' = [who EXCEPT ![k] = NoUser]
    /\ sawAdmin' = [sawAdmin EXCEPT ![k] = FALSE]

(* faulty: the account is let go of before the groups are seen to *)
ResumeLetsGo(k) ==
    /\ task = "idle"
    /\ wait[k] = "known"
    /\ CallbackOver(k)
    /\ IF sawAdmin[k]
       THEN UNCHANGED taskVars
       ELSE task' = "claims" /\ about' = who'[k] /\ UNCHANGED plan
    /\ UNCHANGED <<accountVars, groupVars, historyVars>>

(* The picture is there.  An admin's groups are left alone.                *)
ResumeKnown(k) ==
    /\ task = "idle"
    /\ wait[k] = "known"
    /\ CallbackOver(k)
    /\ IF sawAdmin[k]
       THEN UNCHANGED taskVars
       ELSE task' = "claims" /\ about' = who[k] /\ UNCHANGED plan
    /\ UNCHANGED <<accountVars, groupVars, historyVars>>

(* The role is determined now.                                             *)
ResumeNew(k, u) ==
    /\ task = "idle"
    /\ wait[k] = "new"
    /\ CallbackOver(k)
    /\ Register(u, IF users = {} THEN "auth" ELSE "authThenGroups")

(* Another callback has inserted the same oauth_sub, which is unique: the  *)
(* insertion fails.  A picture that cannot be fetched stops no callback.   *)
ResumeFails(k) ==
    /\ task = "idle"
    /\ wait[k] = "new"
    /\ CallbackOver(k)
    /\ UNCHANGED <<accountVars, groupVars, taskVars, historyVars>>

(* update_user_groups: groups of the claim are made where that is enabled, *)
(* the account leaves the others and joins those; no claim, no change.     *)
Claims(claimed, made) ==
    /\ task = "claims"
    /\ LET current == {g \in groups : about \in members[g]}
           leave   == IF claimed = {} THEN {} ELSE current \ claimed
           join    == (claimed \cap (groups \cup made)) \ current
       IN  plan' = ({"make"} \X made) \cup ({"leave"} \X leave) \cup ({"join"} \X join)
    /\ task' = "sync"
    /\ UNCHANGED <<accountVars, groupVars, callbackVars, about, historyVars>>

First(kind, g) ==
    /\ <<kind, g>> \in plan
    /\ kind = "leave" => \A h \in Group : <<"make", h>> \notin plan
    /\ kind = "join" => \A h \in Group : {<<"make", h>>, <<"leave", h>>} \cap plan = {}
    /\ plan' = plan \ {<<kind, g>>}

(* Each group is made or updated in a transaction of its own.              *)
SyncGroup(kind, g) ==
    /\ task = "sync"
    /\ First(kind, g)
    /\ groups' = IF kind = "make" THEN groups \cup {g} ELSE groups
    /\ members' = [members EXCEPT ![g] = CASE kind = "make"  -> {}
                                           [] kind = "leave" -> @ \ {about}
                                           [] kind = "join"  -> @ \cup {about}]
    /\ UNCHANGED <<accountVars, callbackVars, task, about, historyVars>>

SyncDone ==
    /\ task = "sync"
    /\ plan = {}
    /\ Idle
    /\ UNCHANGED <<accountVars, groupVars, callbackVars, historyVars>>

(* sync_groups_by_group_names, for LDAP or a trusted header: one           *)
(* transaction.                                                            *)
SyncAtOnce(u, named) ==
    /\ task = "idle"
    /\ u \in users \cap auths
    /\ role[u] # "admin"
    /\ named # {}
    /\ members' = [g \in Group |->
          IF g \notin groups THEN members[g]
          ELSE IF g \in named THEN members[g] \cup {u} ELSE members[g] \ {u}]
    /\ UNCHANGED <<accountVars, groups, callbackVars, taskVars, historyVars>>

-----------------------------------------------------------------------------
(***************************************************************************)
(* The admin's requests: a had the role when the request was authorised    *)
(***************************************************************************)

AddUser(a, u, r) ==
    /\ task = "idle"
    /\ a \in wasAdmin
    /\ InsertUser(u, r, "auth")
    /\ UNCHANGED <<callbackVars, founders>>

(* update_user_by_id: the first account is changed by itself only and      *)
(* stays admin.                                                            *)
UpdateRole(a, u, r) ==
    /\ task = "idle"
    /\ a \in wasAdmin
    /\ u \in users
    /\ \E first \in Oldest : u = first => a = u /\ r = "admin"
    /\ role' = [role EXCEPT ![u] = r]
    /\ wasAdmin' = IF r = "admin" THEN wasAdmin \cup {u} ELSE wasAdmin
    /\ UNCHANGED <<users, auths, used, since, signup, groupVars, callbackVars,
                   taskVars, founders, lost>>

(* faulty: an admin cannot delete itself, but the first account *)
DeleteAnyUser(a, u) ==
    /\ task = "idle"
    /\ a \in wasAdmin
    /\ u \in users
    /\ u # a
    /\ task' = "leaving" /\ about' = u
    /\ plan' = {"leave"} \X {g \in groups : u \in members[g]}
    /\ UNCHANGED <<accountVars, groupVars, callbackVars, historyVars>>

(* delete_user_by_id: the groups that have the account are looked up.      *)
DeleteUser(a, u) ==
    /\ task = "idle"
    /\ a \in wasAdmin
    /\ u \in users
    /\ \E first \in Oldest : u # first
    /\ u # a
    /\ task' = "leaving" /\ about' = u
    /\ plan' = {"leave"} \X {g \in groups : u \in members[g]}
    /\ UNCHANGED <<accountVars, groupVars, callbackVars, historyVars>>

(* remove_user_from_all_groups: one transaction for each of them.          *)
LeaveGroup(g) ==
    /\ task = "leaving"
    /\ First("leave", g)
    /\ members' = [members EXCEPT ![g] = @ \ {about}]
    /\ UNCHANGED <<accountVars, groups, callbackVars, task, about, historyVars>>

(* faulty: the row goes while the account is in groups *)
DeleteRowFirst ==
    /\ task = "leaving"
    /\ users' = users \ {about}
    /\ role' = [role EXCEPT ![about] = "user"]
    /\ lost' = IF \E k \in Callback : who[k] = about THEN lost \cup {about} ELSE lost
    /\ IF plan = {} THEN task' = "rowGone" ELSE UNCHANGED task
    /\ UNCHANGED <<auths, used, since, signup, groupVars, callbackVars, about,
                   plan, wasAdmin, founders>>

(* The chats go in between (ChatLibrary: WipeCopies, WipeChats).           *)
DeleteRow ==
    /\ task = "leaving"
    /\ plan = {}
    /\ users' = users \ {about}
    /\ role' = [role EXCEPT ![about] = "user"]
    /\ lost' = IF \E k \in Callback : who[k] = about THEN lost \cup {about} ELSE lost
    /\ task' = "rowGone"
    /\ UNCHANGED <<auths, used, since, signup, groupVars, callbackVars, about,
                   plan, wasAdmin, founders>>

DeleteAuth ==
    /\ task = "rowGone"
    /\ auths' = auths \ {about}
    /\ Idle
    /\ UNCHANGED <<users, used, since, role, signup, groupVars, callbackVars,
                   historyVars>>

CreateGroup(g) ==
    /\ task = "idle"
    /\ wasAdmin # {}
    /\ g \notin groups
    /\ groups' = groups \cup {g}
    /\ UNCHANGED <<accountVars, members, callbackVars, taskVars, historyVars>>

DeleteGroup(g) ==
    /\ task = "idle"
    /\ wasAdmin # {}
    /\ g \in groups
    /\ groups' = groups \ {g}
    /\ members' = [members EXCEPT ![g] = {}]
    /\ UNCHANGED <<accountVars, callbackVars, taskVars, historyVars>>

(* get_valid_user_ids                                                      *)
Valid(userIds) == userIds \cap users

UpdateGroup(g, userIds) ==
    /\ task = "idle"
    /\ wasAdmin # {}
    /\ g \in groups
    /\ members' = [members EXCEPT ![g] = Valid(userIds)]
    /\ UNCHANGED <<accountVars, groups, callbackVars, taskVars, historyVars>>

(* add_users_to_group changes the loaded list in place, which is saved     *)
(* only if it was empty, for a new list is assigned then;                  *)
(* remove_users_from_group never saves anything.                           *)
AddToGroup(g, userIds) ==
    /\ task = "idle"
    /\ wasAdmin # {}
    /\ g \in groups
    /\ members[g] = {}
    /\ members' = [members EXCEPT ![g] = Valid(userIds)]
    /\ UNCHANGED <<accountVars, groups, callbackVars, taskVars, historyVars>>

-----------------------------------------------------------------------------
(* The process dies and starts again.                                      *)
AccountsCrash ==
    /\ wait' = [k \in Callback |-> "no"]
    /\ who' = [k \in Callback |-> NoUser]
    /\ sawAdmin' = [k \in Callback |-> FALSE]
    /\ Idle
    /\ UNCHANGED <<accountVars, groupVars, historyVars>>

RegisterStep ==
    \/ \E u \in User : Signup(u) \/ LdapSignup(u)
    \/ InsertAuth
    \/ EnableSignup

CallbackStep ==
    \/ \E k \in Callback, u \in User : CallbackKnown(k, u) \/ ResumeNew(k, u)
    \/ \E k \in Callback : CallbackNew(k) \/ ResumeKnown(k) \/ ResumeFails(k)
    \/ \E claimed \in SUBSET Group : \E made \in {{}, claimed \ groups} : Claims(claimed, made)
    \/ \E kind \in {"make", "leave", "join"}, g \in Group : SyncGroup(kind, g)
    \/ SyncDone
    \/ \E u \in User, named \in SUBSET Group : SyncAtOnce(u, named)

AdminStep ==
    \/ \E a, u \in User, r \in {"admin", "user"} : AddUser(a, u, r) \/ UpdateRole(a, u, r)
    \/ \E a, u \in User : DeleteUser(a, u)
    \/ \E g \in Group : LeaveGroup(g)
    \/ DeleteRow
    \/ DeleteAuth
    \/ \E g \in Group : CreateGroup(g) \/ DeleteGroup(g)
    \/ \E g \in Group, userIds \in SUBSET used :
           UpdateGroup(g, userIds) \/ AddToGroup(g, userIds)

AccountsNext == RegisterStep \/ CallbackStep \/ AdminStep \/ AccountsCrash

AccountsSpec == AccountsInit /\ [][AccountsNext]_accountsVars

-----------------------------------------------------------------------------
(***************************************************************************)
(* Properties                                                              *)
(***************************************************************************)

Ties == \E u, v \in used : u # v /\ since[u] = since[v]

(* "Prevent deletion of the primary admin user": once there are accounts,  *)
(* the first of them is there and is an admin, whatever admins do to one   *)
(* another and wherever a registration or deletion was cut off, unless     *)
(* some were created within one second.                                    *)
PrimaryAdmin ==
    \/ used = {}
    \/ Ties
    \/ \E u \in Oldest : role[u] = "admin"

(* No second account gets the admin's role but from an admin: the first    *)
(* one has it by its registration or login and is there for good, so there *)
(* is never again no account, or a single one that is no admin, for a      *)
(* registration, or a callback that has waited since there was none, to    *)
(* see; unless some were created within one second.                        *)
OneFounder == Ties \/ founders = Oldest

(* Groups have no members without an account, save one that was deleted    *)
(* while its own login waited for a picture: the login goes on with the    *)
(* row it has read and puts the id into groups.                            *)
MembersExist == \A g \in Group : members[g] \subseteq users \cup lost
=============================================================================
