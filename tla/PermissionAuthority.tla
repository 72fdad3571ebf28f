------------------------ MODULE PermissionAuthority -------------------------
(***************************************************************************)
(* What the permission service promises to those who ask it: an answer is  *)
(* the permission set of a role that the user had, and a set that the role *)
(* had, since the last time the user's entry was forgotten for good.       *)
(* PermissionStore is the service with its two caches.                     *)
(***************************************************************************)
CONSTANTS Users, Roles, DefaultRole, PermissionSets

NoRole == "deleted"

VARIABLES
    role,    \* the role of each user's row; NoRole if there is no row
    table,   \* the permission set of each role
    since,   \* the roles of each user, and their sets, since the entry was forgotten
    answer   \* the last answer given; its mark tells it from the one before

authorityVars == <<role, table, since, answer>>

NoAnswer == [user |-> NoRole, perms |-> {}, mark |-> FALSE]

\* A user without a row counts as one of the default role.
RoleOf(u) == IF role[u] = NoRole THEN DefaultRole ELSE role[u]

\* With nothing else going on, what there is to say about u is his role.
Known(u) == [roles |-> {RoleOf(u)}, sets |-> {table[RoleOf(u)]}]

Init ==
    /\ role \in [Users -> Roles]
    /\ table \in [Roles -> PermissionSets]
    /\ since = [u \in Users |-> Known(u)]
    /\ answer = NoAnswer

\* The user gets role x, or is deleted.
ChangeRole(u, x) ==
    LET y == IF x = NoRole THEN DefaultRole ELSE x IN
    /\ x # role[u]
    /\ role' = [role EXCEPT ![u] = x]
    /\ since' = [since EXCEPT ![u].roles = @ \cup {y}, ![u].sets = @ \cup {table[y]}]
    /\ UNCHANGED <<table, answer>>

SetTable(x, p) ==
    /\ table' = [table EXCEPT ![x] = p]
    /\ since' = [u \in Users |-> IF x \in since[u].roles
                                 THEN [since[u] EXCEPT !.sets = @ \cup {p}]
                                 ELSE since[u]]
    /\ UNCHANGED <<role, answer>>

\* A read of the users that fails may pass for a user without permissions.
Outage(u) ==
    /\ since' = [since EXCEPT ![u].sets = @ \cup {{}}]
    /\ UNCHANGED <<role, table, answer>>

Forget(U) ==
    /\ since' = [u \in Users |-> IF u \in U THEN Known(u) ELSE since[u]]
    /\ UNCHANGED <<role, table, answer>>

Answer(u) ==
    /\ \E p \in since[u].sets : answer' = [user |-> u, perms |-> p, mark |-> ~answer.mark]
    /\ UNCHANGED <<role, table, since>>

Next ==
    \/ \E u \in Users, x \in Roles \cup {NoRole} : ChangeRole(u, x)
    \/ \E x \in Roles, p \in PermissionSets : SetTable(x, p)
    \/ \E u \in Users : Outage(u)
    \/ \E U \in SUBSET Users : Forget(U)
    \/ \E u \in Users : Answer(u)

Spec == Init /\ [][Next]_authorityVars
=============================================================================
