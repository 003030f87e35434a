--------------------------- MODULE SharedDocument ---------------------------
(***************************************************************************)
(* What the collaborative documents of open_webui/socket promise: a        *)
(* document keeps every accepted update for as long as sessions are in it. *)
(* A single process keeps that promise.  Processes that share Redis do     *)
(* not: there a document may also be forgotten, and its members with it,   *)
(* while sessions are in it, though never in part.                         *)
(***************************************************************************)
CONSTANTS Session, Update

VARIABLES single,    \* whether one process serves the document
          members,   \* the sessions in it
          log        \* the updates it holds

docVars == <<single, members, log>>

Init ==
    /\ single \in BOOLEAN
    /\ members = {}
    /\ log = {}

Enter(x) ==
    /\ members' = members \cup {x}
    /\ UNCHANGED <<single, log>>

Accept(u) ==
    /\ log' = log \cup {u}
    /\ UNCHANGED <<single, members>>

(* The last one out may take the content along.                            *)
Exit(x) ==
    /\ members' = members \ {x}
    /\ log' # log => log' = {} /\ members' = {}
    /\ UNCHANGED single

Forget ==
    /\ single => members = {}
    /\ log' = {}
    /\ UNCHANGED <<single, members>>

Expel ==
    /\ single => members = {}
    /\ members' = {}
    /\ UNCHANGED <<single, log>>

Next ==
    \/ \E x \in Session : Enter(x) \/ Exit(x)
    \/ \E u \in Update : Accept(u)
    \/ Forget
    \/ Expel

Spec == Init /\ [][Next]_docVars
=============================================================================
