--------------------------- MODULE PermissionStore --------------------------
(***************************************************************************)
(* The permission service (internal/service/permission_service.go) under   *)
(* the handlers of /permissions: a table of role permissions and a cache   *)
(* of user permissions behind one lock that is released between the steps. *)
(* Each step below is one section under the lock or one query.             *)
(***************************************************************************)
CONSTANTS
    Users, Roles, DefaultRole, PermissionSets,
    Calls,        \* requests that can be under way at a time
    Defaults      \* models.DefaultPermissionsByRole

NoRole == "deleted"

ASSUME StoreAssumption ==
    /\ DefaultRole \in Roles
    /\ NoRole \notin Roles \cup Users
    /\ Defaults \in [Roles -> PermissionSets]

VARIABLES
    role,        \* the users table: role of each user, NoRole if deleted
    roleCache,
    userCache,   \* user -> what is cached; see Missing
    call,        \* the requests
    since,       \* history: what PermissionAuthority remembers
    answer       \* history: the last answer given, marked unlike the one before

storeVars == <<role, roleCache, userCache, call, since, answer>>

\* A cache entry: a set, or nothing.
Missing   == [hit |-> FALSE, perms |-> {}]
Entry(p)  == [hit |-> TRUE, perms |-> p]

Idle == [pc |-> "idle", user |-> NoRole, role |-> NoRole, perms |-> {}]

NoAnswer == [user |-> NoRole, perms |-> {}, mark |-> FALSE]

RoleOf(u) == IF role[u] = NoRole THEN DefaultRole ELSE role[u]

Known(u) == [roles |-> {RoleOf(u)}, sets |-> {roleCache[RoleOf(u)]}]

Init ==
    /\ role = [u \in Users |-> DefaultRole]
    /\ roleCache = Defaults
    /\ userCache = [u \in Users |-> Missing]
    /\ call = [c \in Calls |-> Idle]
    /\ since = [u \in Users |-> Known(u)]
    /\ answer = NoAnswer
-----------------------------------------------------------------------------
(***************************************************************************)
(* getPermissionsWithCache and buildUserPermissions, for GetUserPermissions*)
(* and CheckPermission.                                                    *)
(***************************************************************************)
Give(u, p) == answer' = [user |-> u, perms |-> p, mark |-> ~answer.mark]

Hit(u) == userCache[u].hit

\* Under the read lock: a hit is the answer.
Lookup(c, u) ==
    /\ call[c].pc = "idle"
    /\ IF Hit(u)
       THEN Give(u, userCache[u].perms) /\ UNCHANGED call
       ELSE /\ call' = [call EXCEPT ![c] = [Idle EXCEPT !.pc = "users", !.user = u]]
            /\ UNCHANGED answer
    /\ UNCHANGED <<role, roleCache, userCache, since>>

Mutant_FoundRole(u) == role[u]

\* GetAll gives all users; one that is not among them has the default role.
FoundRole(u) == RoleOf(u)

ReadRole(c) ==
    /\ call[c].pc = "users"
    /\ call' = [call EXCEPT ![c].pc = "table", ![c].role = FoundRole(call[c].user)]
    /\ UNCHANGED <<role, roleCache, userCache, since, answer>>

\* GetAll fails or finds nobody: an empty set, which is cached like any other.
ReadRoleFails(c) ==
    /\ call[c].pc = "users"
    /\ call' = [call EXCEPT ![c].pc = "store"]
    /\ since' = [since EXCEPT ![call[c].user].sets = @ \cup {{}}]
    /\ UNCHANGED <<role, roleCache, userCache, answer>>

GetRolePermissions(x) == roleCache[x]

ReadTable(c) ==
    /\ call[c].pc = "table"
    /\ call' = [call EXCEPT ![c].pc = "store",
                            ![c].perms = GetRolePermissions(call[c].role)]
    /\ UNCHANGED <<role, roleCache, userCache, since, answer>>

\* The result is cached whatever happened since the look-up.
Store(c) ==
    /\ call[c].pc = "store"
    /\ userCache' = [userCache EXCEPT ![call[c].user] = Entry(call[c].perms)]
    /\ Give(call[c].user, call[c].perms)
    /\ call' = [call EXCEPT ![c] = Idle]
    /\ UNCHANGED <<role, roleCache, since>>
-----------------------------------------------------------------------------
(***************************************************************************)
(* The changes.                                                            *)
(***************************************************************************)
\* No look-up for the user has read anything yet.
Undisturbed(u) ==
    \A c \in Calls : call[c].user = u => call[c].pc \in {"idle", "users"}

Forgotten(U) == [u \in Users |-> IF u \in U /\ Undisturbed(u) THEN Known(u) ELSE since[u]]

Mutant_Without(cache, u) == cache

Without(cache, u) == [cache EXCEPT ![u] = Missing]

\* GrantPermissionToUser, RevokePermissionFromUser, ResetUserPermissionsToRole:
\* none stores an override, each deletes the cached set.
InvalidateUserPermissionCache(u) ==
    /\ userCache' = Without(userCache, u)
    /\ since' = Forgotten({u})
    /\ UNCHANGED <<role, roleCache, call, answer>>

\* SetRolePermissions, first section under the lock.
SetRole(c, x, p) ==
    /\ call[c].pc = "idle"
    /\ call' = [call EXCEPT ![c] = [Idle EXCEPT !.pc = "clear"]]
    /\ roleCache' = [roleCache EXCEPT ![x] = p]
    /\ since' = [u \in Users |-> IF x \in since[u].roles
                                 THEN [since[u] EXCEPT !.sets = @ \cup {p}]
                                 ELSE since[u]]
    /\ UNCHANGED <<role, userCache, answer>>

Cleared == [u \in Users |-> Missing]

\* SetRolePermissions, second section.
ClearUsers(c) ==
    /\ call[c].pc = "clear"
    /\ userCache' = Cleared
    /\ since' = Forgotten(Users)
    /\ call' = [call EXCEPT ![c] = Idle]
    /\ UNCHANGED <<role, roleCache, answer>>

\* UpdateUserRole, DeleteUser: they do not call the permission service.
ChangeUser(u, x) ==
    LET y == IF x = NoRole THEN DefaultRole ELSE x IN
    /\ x # role[u]
    /\ role' = [role EXCEPT ![u] = x]
    /\ since' = [since EXCEPT ![u].roles = @ \cup {y},
                              ![u].sets = @ \cup {roleCache[y]}]
    /\ UNCHANGED <<roleCache, userCache, call, answer>>

Proceed(c) ==
    \/ ReadRole(c)
    \/ ReadRoleFails(c)
    \/ ReadTable(c)
    \/ Store(c)
    \/ ClearUsers(c)

Next ==
    \/ \E c \in Calls, u \in Users : Lookup(c, u)
    \/ \E c \in Calls : Proceed(c)
    \/ \E u \in Users : InvalidateUserPermissionCache(u)
    \/ \E c \in Calls, x \in Roles, p \in PermissionSets : SetRole(c, x, p)
    \/ \E u \in Users, x \in Roles \cup {NoRole} : ChangeUser(u, x)

Spec == Init /\ [][Next]_storeVars
-----------------------------------------------------------------------------
CallType ==
    [pc : {"idle", "users", "table", "store", "clear"},
     user : Users \cup {NoRole}, role : Roles \cup {NoRole},
     perms : PermissionSets \cup {{}}]

\* Every variable has its type; who is past the look-up knows its user.
TypeOK ==
    /\ role \in [Users -> Roles \cup {NoRole}]
    /\ roleCache \in [Roles -> PermissionSets]
    /\ userCache \in [Users -> [hit : BOOLEAN, perms : PermissionSets \cup {{}}]]
    /\ call \in [Calls -> CallType]
    /\ \A c \in Calls : call[c].pc \in {"users", "table", "store"} => call[c].user \in Users
    /\ \A c \in Calls : call[c].pc = "table" => call[c].role \in Roles
    /\ since \in [Users -> [roles : SUBSET Roles, sets : SUBSET (PermissionSets \cup {{}})]]
    /\ answer \in [user : Users \cup {NoRole}, perms : PermissionSets \cup {{}},
                  mark : BOOLEAN]

\* What is cached for a user is a set that one of his roles had since his entry
\* was last deleted with no look-up for him under way.  A look-up that overlaps
\* SetRolePermissions or a change of role leaves an older set, and nothing but
\* the next deletion removes it; nothing else does.
CachedIsKnown == \A u \in Users : userCache[u].hit => userCache[u].perms \in since[u].sets

Authority == INSTANCE PermissionAuthority WITH table <- roleCache

\* The service with its caches is one that keeps PermissionAuthority's promise:
\* every answer it gives is one of those allowed there.
KeepsPromise == Authority!Spec
=============================================================================
