---------------------------- MODULE Stores_proofs ---------------------------
(***************************************************************************)
(* What holds of the four stores of MCStores, for any numbers of users,    *)
(* roles, sessions, tokens and calls under way and any limits and times.   *)
(* Permissions: the types, CachedIsKnown, and that the service with its    *)
(* two caches keeps the promise of PermissionAuthority.  Then the sessions,*)
(* the in-memory limiter and the one-time tokens, each with an invariant   *)
(* of its own, and the four together.                                      *)
(***************************************************************************)
EXTENDS MCStores, FiniteSetTheorems, TLAPS

(***************************************************************************)
(* PermissionStore.                                                        *)
(***************************************************************************)
Sets == PermissionSets \cup {{}}

\* What a look-up carries between its sections is something that the history
\* remembers of its user: before the first read nothing, then a role, then a set
\* of permissions.
Carried(c) ==
    /\ call[c].pc = "users" => call[c].perms = {}
    /\ call[c].pc = "table" => call[c].role \in since[call[c].user].roles
    /\ call[c].pc = "store" => call[c].perms \in since[call[c].user].sets

\* The history knows the role a user has now, and the set each of the roles it
\* remembers has now.
UpToDate(u) ==
    /\ RoleOf(u) \in since[u].roles
    /\ \A x \in since[u].roles : roleCache[x] \in since[u].sets

Inv ==
    /\ TypeOK
    /\ \A c \in Calls : Carried(c)
    /\ \A u \in Users : UpToDate(u)
    /\ CachedIsKnown

USE StoreAssumption DEF StoreAssumption, NoRole

LEMMA InitInv == Init => Inv
<1>. SUFFICES ASSUME Init PROVE Inv
  OBVIOUS
<1>1. TypeOK
  BY DEF Init, TypeOK, Known, RoleOf, Missing, Idle, NoAnswer, CallType
<1>2. \A c \in Calls : Carried(c)
  BY DEF Init, Carried, Idle
<1>3. \A u \in Users : UpToDate(u)
  BY DEF Init, UpToDate, Known, RoleOf
<1>4. CachedIsKnown
  BY DEF Init, CachedIsKnown, Missing
<1>. QED
  BY <1>1, <1>2, <1>3, <1>4 DEF Inv

\* A call that is begun, moved on or ended is again one, whatever it is.
LEMMA CallUpdate ==
    ASSUME TypeOK, NEW c \in Calls, NEW new \in CallType,
           new.pc \in {"users", "table", "store"} => new.user \in Users,
           new.pc = "table" => new.role \in Roles,
           call' = [call EXCEPT ![c] = new]
    PROVE  /\ call' \in [Calls -> CallType]
           /\ \A d \in Calls : call'[d].pc \in {"users", "table", "store"} => call'[d].user \in Users
           /\ \A d \in Calls : call'[d].pc = "table" => call'[d].role \in Roles
           /\ call'[c] = new
           /\ \A d \in Calls \ {c} : call'[d] = call[d]
  BY DEF TypeOK

\* The steps of a look-up.
LEMMA LookupStep ==
    ASSUME Inv, NEW c \in Calls, NEW u \in Users, Lookup(c, u)
    PROVE  Inv'
<1>. USE DEF Inv
<1>1. CASE Hit(u)
  <2>. DEFINE given == [user |-> u, perms |-> userCache[u].perms, mark |-> ~answer.mark]
  <2>1. answer' = given /\ UNCHANGED <<role, roleCache, userCache, call, since>>
    BY <1>1 DEF Lookup, Give
  <2>2. given \in [user : Users \cup {"deleted"}, perms : Sets, mark : BOOLEAN]
    BY DEF TypeOK, Sets
  <2>. HIDE DEF given
  <2>. QED
    BY <2>1, <2>2 DEF TypeOK, Sets, Carried, UpToDate, RoleOf, CachedIsKnown
<1>2. CASE ~Hit(u)
  <2>. DEFINE new == [pc |-> "users", user |-> u, role |-> "deleted", perms |-> {}]
  <2>1. call' = [call EXCEPT ![c] = new]
    BY <1>2 DEF Lookup, Idle
  <2>2. new \in CallType /\ new.pc = "users" /\ new.user = u /\ new.perms = {}
    BY DEF CallType
  <2>3. UNCHANGED <<role, roleCache, userCache, since, answer>>
    BY <1>2 DEF Lookup
  <2>. HIDE DEF new
  <2>4. /\ call' \in [Calls -> CallType]
        /\ \A d \in Calls : call'[d].pc \in {"users", "table", "store"} => call'[d].user \in Users
        /\ \A d \in Calls : call'[d].pc = "table" => call'[d].role \in Roles
        /\ call'[c] = new
        /\ \A d \in Calls \ {c} : call'[d] = call[d]
    BY <2>1, <2>2, CallUpdate
  <2>5. TypeOK'
    BY <2>3, <2>4 DEF TypeOK
  <2>6. \A d \in Calls : Carried(d)'
    BY <2>2, <2>3, <2>4 DEF Carried
  <2>7. (\A v \in Users : UpToDate(v))' /\ CachedIsKnown'
    BY <2>3 DEF UpToDate, RoleOf, CachedIsKnown
  <2>. QED
    BY <2>5, <2>6, <2>7
<1>. QED
  BY <1>1, <1>2

LEMMA ReadRoleStep ==
    ASSUME Inv, NEW c \in Calls, ReadRole(c)
    PROVE  Inv'
<1>. USE DEF Inv
<1>. DEFINE u == call[c].user
            new == [call[c] EXCEPT !.pc = "table", !.role = RoleOf(u)]
<1>1. call[c] \in CallType /\ u \in Users /\ RoleOf(u) \in Roles
  BY DEF ReadRole, TypeOK, RoleOf
<1>2. call' = [call EXCEPT ![c] = new]
  BY DEF ReadRole, FoundRole
<1>3. new \in CallType /\ new.pc = "table" /\ new.user = u /\ new.role = RoleOf(u)
  BY <1>1 DEF CallType
<1>4. UNCHANGED <<role, roleCache, userCache, since, answer>>
  BY DEF ReadRole
<1>. HIDE DEF new
<1>5. /\ call' \in [Calls -> CallType]
      /\ \A d \in Calls : call'[d].pc \in {"users", "table", "store"} => call'[d].user \in Users
      /\ \A d \in Calls : call'[d].pc = "table" => call'[d].role \in Roles
      /\ call'[c] = new
      /\ \A d \in Calls \ {c} : call'[d] = call[d]
  BY <1>1, <1>2, <1>3, CallUpdate
<1>6. TypeOK'
  BY <1>4, <1>5 DEF TypeOK
<1>7. \A d \in Calls : Carried(d)'
  BY <1>1, <1>3, <1>4, <1>5 DEF Carried, UpToDate
<1>8. (\A v \in Users : UpToDate(v))' /\ CachedIsKnown'
  BY <1>4 DEF UpToDate, RoleOf, CachedIsKnown
<1>. QED
  BY <1>6, <1>7, <1>8

LEMMA ReadTableStep ==
    ASSUME Inv, NEW c \in Calls, ReadTable(c)
    PROVE  Inv'
<1>. USE DEF Inv
<1>. DEFINE u == call[c].user
            p == roleCache[call[c].role]
            new == [call[c] EXCEPT !.pc = "store", !.perms = p]
<1>1. call[c] \in CallType /\ u \in Users /\ p \in PermissionSets
  BY DEF ReadTable, TypeOK
<1>2. call' = [call EXCEPT ![c] = new]
  BY DEF ReadTable, GetRolePermissions
<1>3. new \in CallType /\ new.pc = "store" /\ new.user = u /\ new.perms = p
  BY <1>1 DEF CallType
<1>4. UNCHANGED <<role, roleCache, userCache, since, answer>>
  BY DEF ReadTable
<1>5. p \in since[u].sets
  BY <1>1 DEF ReadTable, Carried, UpToDate
<1>. HIDE DEF new
<1>6. /\ call' \in [Calls -> CallType]
      /\ \A d \in Calls : call'[d].pc \in {"users", "table", "store"} => call'[d].user \in Users
      /\ \A d \in Calls : call'[d].pc = "table" => call'[d].role \in Roles
      /\ call'[c] = new
      /\ \A d \in Calls \ {c} : call'[d] = call[d]
  BY <1>1, <1>2, <1>3, CallUpdate
<1>7. TypeOK'
  BY <1>4, <1>6 DEF TypeOK
<1>8. \A d \in Calls : Carried(d)'
  BY <1>3, <1>4, <1>5, <1>6 DEF Carried
<1>9. (\A v \in Users : UpToDate(v))' /\ CachedIsKnown'
  BY <1>4 DEF UpToDate, RoleOf, CachedIsKnown
<1>. QED
  BY <1>7, <1>8, <1>9

\* The empty set is remembered with the rest.
LEMMA ReadRoleFailsStep ==
    ASSUME Inv, NEW c \in Calls, ReadRoleFails(c)
    PROVE  Inv'
<1>. USE DEF Inv
<1>. DEFINE u == call[c].user
            new == [call[c] EXCEPT !.pc = "store"]
            grown == [since[u] EXCEPT !.sets = @ \cup {{}}]
<1>1. call[c] \in CallType /\ u \in Users /\ call[c].pc = "users" /\ call[c].perms = {}
  BY DEF ReadRoleFails, TypeOK, Carried
<1>2. /\ call' = [call EXCEPT ![c] = new]
      /\ since' = [since EXCEPT ![u] = grown]
      /\ UNCHANGED <<role, roleCache, userCache, answer>>
  BY DEF ReadRoleFails
<1>3. new \in CallType /\ new.pc = "store" /\ new.user = u /\ new.perms = {}
  BY <1>1 DEF CallType
<1>a. since[u] \in [roles : SUBSET Roles, sets : SUBSET Sets]
  BY <1>1 DEF TypeOK, Sets
<1>4. /\ grown \in [roles : SUBSET Roles, sets : SUBSET Sets]
      /\ grown.roles = since[u].roles /\ grown.sets = since[u].sets \cup {{}}
  <2>. {} \in Sets
    BY DEF Sets
  <2>. QED
    BY <1>a
<1>. HIDE DEF new, grown
<1>5. /\ call' \in [Calls -> CallType]
      /\ \A d \in Calls : call'[d].pc \in {"users", "table", "store"} => call'[d].user \in Users
      /\ \A d \in Calls : call'[d].pc = "table" => call'[d].role \in Roles
      /\ call'[c] = new
      /\ \A d \in Calls \ {c} : call'[d] = call[d]
  BY <1>1, <1>2, <1>3, CallUpdate
<1>6. /\ since' \in [Users -> [roles : SUBSET Roles, sets : SUBSET Sets]]
      /\ since'[u] = grown
      /\ \A v \in Users : v # u => since'[v] = since[v]
  BY <1>1, <1>2, <1>4 DEF TypeOK, Sets
<1>7. \A v \in Users : since'[v].roles = since[v].roles /\ since[v].sets \subseteq since'[v].sets
  BY <1>4, <1>6
<1>8. TypeOK'
  BY <1>2, <1>5, <1>6 DEF TypeOK, Sets
<1>9. \A d \in Calls : Carried(d)'
  <2>. TAKE d \in Calls
  <2>1. CASE d = c
    BY <2>1, <1>3, <1>4, <1>5, <1>6 DEF Carried
  <2>2. CASE d # c
    <3>1. call'[d] = call[d] /\ Carried(d)
      BY <2>2, <1>5
    <3>2. call[d].pc \in {"table", "store"} => call[d].user \in Users
      BY DEF TypeOK
    <3>. QED
      BY <3>1, <3>2, <1>7 DEF Carried
  <2>. QED
    BY <2>1, <2>2
<1>10. (\A v \in Users : UpToDate(v))'
  <2>1. \A v \in Users : UpToDate(v)
    OBVIOUS
  <2>. QED
    BY <2>1, <1>2, <1>7 DEF UpToDate, RoleOf
<1>11. CachedIsKnown'
  BY <1>2, <1>7 DEF CachedIsKnown
<1>. QED
  BY <1>8, <1>9, <1>10, <1>11

LEMMA StoreStep ==
    ASSUME Inv, NEW c \in Calls, Store(c)
    PROVE  Inv'
<1>. USE DEF Inv
<1>. DEFINE u == call[c].user
            p == call[c].perms
            new == [pc |-> "idle", user |-> "deleted", role |-> "deleted", perms |-> {}]
            stored == [hit |-> TRUE, perms |-> p]
            given == [user |-> u, perms |-> p, mark |-> ~answer.mark]
<1>1. call[c] \in CallType /\ u \in Users /\ p \in Sets /\ p \in since[u].sets
  BY DEF Store, TypeOK, CallType, Carried, Sets
<1>2. /\ call' = [call EXCEPT ![c] = new]
      /\ userCache' = [userCache EXCEPT ![u] = stored]
      /\ answer' = given
      /\ UNCHANGED <<role, roleCache, since>>
  BY DEF Store, Give, Idle, Entry
<1>3. new \in CallType /\ new.pc = "idle"
  BY DEF CallType
<1>4. stored \in [hit : BOOLEAN, perms : Sets] /\ stored.perms = p
  BY <1>1
<1>5. given \in [user : Users \cup {"deleted"}, perms : Sets, mark : BOOLEAN]
  BY <1>1
<1>. HIDE DEF new, stored, given
<1>6. /\ call' \in [Calls -> CallType]
      /\ \A d \in Calls : call'[d].pc \in {"users", "table", "store"} => call'[d].user \in Users
      /\ \A d \in Calls : call'[d].pc = "table" => call'[d].role \in Roles
      /\ call'[c] = new
      /\ \A d \in Calls \ {c} : call'[d] = call[d]
  BY <1>2, <1>3, CallUpdate
<1>7. /\ userCache' \in [Users -> [hit : BOOLEAN, perms : Sets]]
      /\ userCache'[u] = stored
      /\ \A v \in Users : v # u => userCache'[v] = userCache[v]
  BY <1>1, <1>2, <1>4 DEF TypeOK, Sets
<1>8. TypeOK'
  BY <1>2, <1>5, <1>6, <1>7 DEF TypeOK, Sets
<1>9. \A d \in Calls : Carried(d)'
  BY <1>2, <1>3, <1>6 DEF Carried
<1>10. (\A v \in Users : UpToDate(v))'
  BY <1>2 DEF UpToDate, RoleOf
<1>11. CachedIsKnown'
  <2>. SUFFICES ASSUME NEW v \in Users, userCache'[v].hit
                PROVE  userCache'[v].perms \in since[v].sets
    BY <1>2 DEF CachedIsKnown
  <2>1. CASE v = u
    BY <2>1, <1>1, <1>4, <1>7
  <2>2. CASE v # u
    BY <2>2, <1>7 DEF CachedIsKnown
  <2>. QED
    BY <2>1, <2>2
<1>. QED
  BY <1>8, <1>9, <1>10, <1>11

\* An entry that is deleted may be forgotten of a user none of whose look-ups has
\* read anything; whoever else's it was, his history is kept.
LEMMA Forgetting ==
    ASSUME Inv, NEW U \in SUBSET Users,
           since' = Forgotten(U), UNCHANGED <<role, roleCache>>,
           userCache' \in [Users -> [hit : BOOLEAN, perms : Sets]],
           \A u \in U : ~userCache'[u].hit,
           \A u \in Users \ U : userCache'[u] = userCache[u]
    PROVE  /\ since' \in [Users -> [roles : SUBSET Roles, sets : SUBSET Sets]]
           /\ (\A u \in Users : UpToDate(u))'
           /\ CachedIsKnown'
           /\ \A c \in Calls : call'[c] = call[c] => Carried(c)'
<1>. USE DEF Inv
<1>1. \A u \in Users : RoleOf(u) \in Roles /\ RoleOf(u)' = RoleOf(u)
  BY DEF TypeOK, RoleOf
<1>2. \A u \in Users : /\ Known(u) \in [roles : SUBSET Roles, sets : SUBSET Sets]
                       /\ Known(u).roles = {RoleOf(u)}
                       /\ Known(u).sets = {roleCache[RoleOf(u)]}
  BY <1>1 DEF Known, TypeOK, Sets
<1>3. \A u \in Users : since'[u] = IF u \in U /\ Undisturbed(u) THEN Known(u) ELSE since[u]
  BY DEF Forgotten
<1>4. since' \in [Users -> [roles : SUBSET Roles, sets : SUBSET Sets]]
  BY <1>2 DEF Forgotten, TypeOK, Sets
<1>5. (\A u \in Users : UpToDate(u))'
  <2>. SUFFICES ASSUME NEW u \in Users
                PROVE  /\ RoleOf(u) \in since'[u].roles
                       /\ \A x \in since'[u].roles : roleCache[x] \in since'[u].sets
    BY <1>1 DEF UpToDate
  <2>1. CASE u \in U /\ Undisturbed(u)
    BY <2>1, <1>2, <1>3
  <2>2. CASE ~(u \in U /\ Undisturbed(u))
    BY <2>2, <1>3 DEF UpToDate
  <2>. QED
    BY <2>1, <2>2
<1>6. CachedIsKnown'
  <2>. SUFFICES ASSUME NEW u \in Users, userCache'[u].hit
                PROVE  userCache'[u].perms \in since'[u].sets
    BY DEF CachedIsKnown
  <2>1. u \notin U /\ since'[u] = since[u] /\ userCache'[u] = userCache[u]
    BY <1>3
  <2>. QED
    BY <2>1 DEF CachedIsKnown
<1>7. ASSUME NEW c \in Calls, call'[c] = call[c] PROVE Carried(c)'
  <2>1. Carried(c) /\ (call[c].pc \in {"table", "store"} => call[c].user \in Users)
    BY DEF TypeOK
  <2>2. call[c].pc \in {"table", "store"} => ~Undisturbed(call[c].user)
    BY DEF Undisturbed
  <2>3. call[c].pc \in {"table", "store"} => since'[call[c].user] = since[call[c].user]
    BY <2>1, <2>2, <1>3
  <2>. QED
    BY <2>1, <2>3, <1>7 DEF Carried
<1>. QED
  BY <1>4, <1>5, <1>6, <1>7

LEMMA InvalidateStep ==
    ASSUME Inv, NEW u \in Users, InvalidateUserPermissionCache(u)
    PROVE  Inv'
<1>. USE DEF Inv
<1>. DEFINE missing == [hit |-> FALSE, perms |-> {}]
<1>1. /\ userCache' = [userCache EXCEPT ![u] = missing]
      /\ since' = Forgotten({u})
      /\ UNCHANGED <<role, roleCache, call, answer>>
  BY DEF InvalidateUserPermissionCache, Without, Missing
<1>2. missing \in [hit : BOOLEAN, perms : Sets] /\ ~missing.hit
  BY DEF Sets
<1>. HIDE DEF missing
<1>3. /\ userCache' \in [Users -> [hit : BOOLEAN, perms : Sets]]
      /\ userCache'[u] = missing
      /\ \A v \in Users \ {u} : userCache'[v] = userCache[v]
  BY <1>1, <1>2 DEF TypeOK, Sets
<1>4. {u} \in SUBSET Users /\ \A v \in {u} : ~userCache'[v].hit
  BY <1>2, <1>3
<1>5. /\ since' \in [Users -> [roles : SUBSET Roles, sets : SUBSET Sets]]
      /\ (\A v \in Users : UpToDate(v))'
      /\ CachedIsKnown'
      /\ \A c \in Calls : call'[c] = call[c] => Carried(c)'
  BY <1>1, <1>3, <1>4, Forgetting
<1>6. TypeOK'
  BY <1>1, <1>3, <1>5 DEF TypeOK, Sets
<1>7. (\A c \in Calls : Carried(c))'
  BY <1>1, <1>5
<1>. QED
  BY <1>5, <1>6, <1>7

LEMMA ClearUsersStep ==
    ASSUME Inv, NEW c \in Calls, ClearUsers(c)
    PROVE  Inv'
<1>. USE DEF Inv
<1>. DEFINE new == [pc |-> "idle", user |-> "deleted", role |-> "deleted", perms |-> {}]
<1>1. /\ call' = [call EXCEPT ![c] = new]
      /\ userCache' = [u \in Users |-> Missing]
      /\ since' = Forgotten(Users)
      /\ UNCHANGED <<role, roleCache, answer>>
  BY DEF ClearUsers, Cleared, Idle
<1>2. new \in CallType /\ new.pc = "idle"
  BY DEF CallType
<1>. HIDE DEF new
<1>3. /\ call' \in [Calls -> CallType]
      /\ \A d \in Calls : call'[d].pc \in {"users", "table", "store"} => call'[d].user \in Users
      /\ \A d \in Calls : call'[d].pc = "table" => call'[d].role \in Roles
      /\ call'[c] = new
      /\ \A d \in Calls \ {c} : call'[d] = call[d]
  BY <1>1, <1>2, CallUpdate
<1>4. /\ userCache' \in [Users -> [hit : BOOLEAN, perms : Sets]]
      /\ \A v \in Users : ~userCache'[v].hit
      /\ \A v \in Users \ Users : userCache'[v] = userCache[v]
  BY <1>1 DEF Missing, Sets
<1>5. /\ since' \in [Users -> [roles : SUBSET Roles, sets : SUBSET Sets]]
      /\ (\A v \in Users : UpToDate(v))'
      /\ CachedIsKnown'
      /\ \A d \in Calls : call'[d] = call[d] => Carried(d)'
  BY <1>1, <1>4, Forgetting
<1>6. TypeOK'
  BY <1>1, <1>3, <1>4, <1>5 DEF TypeOK, Sets
<1>7. (\A d \in Calls : Carried(d))'
  <2>1. Carried(c)'
    BY <1>2, <1>3 DEF Carried
  <2>2. \A d \in Calls \ {c} : Carried(d)'
    BY <1>3, <1>5
  <2>. QED
    BY <2>1, <2>2
<1>. QED
  BY <1>5, <1>6, <1>7

LEMMA SetRoleStep ==
    ASSUME Inv, NEW c \in Calls, NEW x \in Roles, NEW p \in PermissionSets, SetRole(c, x, p)
    PROVE  Inv'
<1>. USE DEF Inv
<1>. DEFINE new == [pc |-> "clear", user |-> "deleted", role |-> "deleted", perms |-> {}]
            more(u) == [since[u] EXCEPT !.sets = @ \cup {p}]
<1>1. /\ call' = [call EXCEPT ![c] = new]
      /\ roleCache' = [roleCache EXCEPT ![x] = p]
      /\ since' = [u \in Users |-> IF x \in since[u].roles THEN more(u) ELSE since[u]]
      /\ UNCHANGED <<role, userCache, answer>>
  <2>1. call' = [call EXCEPT ![c] = new]
    <3>1. call' = [call EXCEPT ![c] = [Idle EXCEPT !.pc = "clear"]]
      BY Zenon DEF SetRole
    <3>2. [Idle EXCEPT !.pc = "clear"] = new
      BY DEF Idle
    <3>. QED
      BY <3>1, <3>2
  <2>2. since' = [u \in Users |-> IF x \in since[u].roles THEN more(u) ELSE since[u]]
    BY DEF SetRole
  <2>. QED
    BY <2>1, <2>2 DEF SetRole
<1>2. new \in CallType /\ new.pc = "clear"
  BY DEF CallType
<1>3. ASSUME NEW u \in Users
      PROVE  /\ since[u] \in [roles : SUBSET Roles, sets : SUBSET Sets]
             /\ more(u) \in [roles : SUBSET Roles, sets : SUBSET Sets]
             /\ more(u).roles = since[u].roles /\ more(u).sets = since[u].sets \cup {p}
  <2>1. since[u] \in [roles : SUBSET Roles, sets : SUBSET Sets] /\ p \in Sets
    BY DEF TypeOK, Sets
  <2>. QED
    BY <2>1
<1>. HIDE DEF new, more
<1>4. /\ call' \in [Calls -> CallType]
      /\ \A d \in Calls : call'[d].pc \in {"users", "table", "store"} => call'[d].user \in Users
      /\ \A d \in Calls : call'[d].pc = "table" => call'[d].role \in Roles
      /\ call'[c] = new
      /\ \A d \in Calls \ {c} : call'[d] = call[d]
  BY <1>1, <1>2, CallUpdate
<1>5. since' \in [Users -> [roles : SUBSET Roles, sets : SUBSET Sets]]
  BY <1>1, <1>3
<1>6. \A u \in Users : /\ since'[u].roles = since[u].roles
                       /\ since[u].sets \subseteq since'[u].sets
                       /\ x \in since[u].roles => p \in since'[u].sets
  BY <1>1, <1>3
<1>7. roleCache' \in [Roles -> PermissionSets]
  BY <1>1 DEF TypeOK
<1>8. TypeOK'
  BY <1>1, <1>4, <1>5, <1>7 DEF TypeOK, Sets
<1>9. (\A d \in Calls : Carried(d))'
  <2>. SUFFICES ASSUME NEW d \in Calls PROVE Carried(d)'
    OBVIOUS
  <2>1. CASE d = c
    BY <2>1, <1>2, <1>4 DEF Carried
  <2>2. CASE d # c
    <3>1. call'[d] = call[d] /\ Carried(d)
      BY <2>2, <1>4
    <3>2. call[d].pc \in {"table", "store"} => call[d].user \in Users
      BY DEF TypeOK
    <3>. QED
      BY <3>1, <3>2, <1>6 DEF Carried
  <2>. QED
    BY <2>1, <2>2
<1>10. (\A u \in Users : UpToDate(u))'
  <2>. SUFFICES ASSUME NEW u \in Users
                PROVE  /\ RoleOf(u) \in since'[u].roles
                       /\ \A y \in since'[u].roles : roleCache'[y] \in since'[u].sets
    BY <1>1 DEF UpToDate, RoleOf
  <2>1. UpToDate(u) /\ since[u].roles \subseteq Roles
    BY <1>3
  <2>2. RoleOf(u) \in since'[u].roles
    BY <2>1, <1>6 DEF UpToDate
  <2>3. ASSUME NEW y \in since'[u].roles PROVE roleCache'[y] \in since'[u].sets
    <3>1. y \in since[u].roles /\ y \in Roles
      BY <2>1, <1>6
    <3>2. CASE y = x
      BY <3>1, <3>2, <1>1, <1>6 DEF TypeOK
    <3>3. CASE y # x
      BY <3>1, <3>3, <2>1, <1>1, <1>6 DEF TypeOK, UpToDate
    <3>. QED
      BY <3>2, <3>3
  <2>. QED
    BY <2>2, <2>3
<1>11. CachedIsKnown'
  BY <1>1, <1>6 DEF CachedIsKnown
<1>. QED
  BY <1>8, <1>9, <1>10, <1>11

LEMMA ChangeUserStep ==
    ASSUME Inv, NEW u \in Users, NEW x \in Roles \cup {NoRole}, ChangeUser(u, x)
    PROVE  Inv'
<1>. USE DEF Inv
<1>. DEFINE y == IF x = NoRole THEN DefaultRole ELSE x
            more == [since[u] EXCEPT !.roles = @ \cup {y}, !.sets = @ \cup {roleCache[y]}]
<1>1. /\ role' = [role EXCEPT ![u] = x]
      /\ since' = [since EXCEPT ![u] = more]
      /\ UNCHANGED <<roleCache, userCache, call, answer>>
  BY DEF ChangeUser
<1>2. y \in Roles /\ roleCache[y] \in Sets
  BY DEF TypeOK, Sets
<1>3. since[u] \in [roles : SUBSET Roles, sets : SUBSET Sets]
  BY DEF TypeOK, Sets
<1>. HIDE DEF y
<1>4. /\ more \in [roles : SUBSET Roles, sets : SUBSET Sets]
      /\ more.roles = since[u].roles \cup {y}
      /\ more.sets = since[u].sets \cup {roleCache[y]}
  BY <1>2, <1>3
<1>. HIDE DEF more
<1>5. /\ since' \in [Users -> [roles : SUBSET Roles, sets : SUBSET Sets]]
      /\ since'[u] = more
      /\ \A v \in Users \ {u} : since'[v] = since[v]
  BY <1>1, <1>4 DEF TypeOK, Sets
<1>6. \A v \in Users : since[v].roles \subseteq since'[v].roles /\ since[v].sets \subseteq since'[v].sets
  BY <1>4, <1>5
<1>7. role' \in [Users -> Roles \cup {NoRole}]
  BY <1>1 DEF TypeOK
<1>8. TypeOK'
  BY <1>1, <1>5, <1>7 DEF TypeOK, Sets
<1>9. (\A c \in Calls : Carried(c))'
  <2>. SUFFICES ASSUME NEW c \in Calls PROVE Carried(c)'
    OBVIOUS
  <2>1. Carried(c) /\ (call[c].pc \in {"table", "store"} => call[c].user \in Users)
    BY DEF TypeOK
  <2>. QED
    BY <2>1, <1>1, <1>6 DEF Carried
<1>10. (\A v \in Users : UpToDate(v))'
  <2>. SUFFICES ASSUME NEW v \in Users PROVE UpToDate(v)'
    OBVIOUS
  <2>1. CASE v = u
    <3>1. RoleOf(u)' = y
      BY <1>1 DEF TypeOK, RoleOf, y
    <3>. QED
      BY <2>1, <3>1, <1>1, <1>4, <1>5 DEF UpToDate
  <2>2. CASE v # u
    <3>1. RoleOf(v)' = RoleOf(v)
      BY <2>2, <1>1 DEF TypeOK, RoleOf
    <3>. QED
      BY <2>2, <3>1, <1>1, <1>5 DEF UpToDate
  <2>. QED
    BY <2>1, <2>2
<1>11. CachedIsKnown'
  BY <1>1, <1>6 DEF CachedIsKnown
<1>. QED
  BY <1>8, <1>9, <1>10, <1>11

LEMMA StepInv == Inv /\ [Next]_storeVars => Inv'
<1>. SUFFICES ASSUME Inv, [Next]_storeVars PROVE Inv'
  OBVIOUS
<1>1. CASE \E c \in Calls, u \in Users : Lookup(c, u)
  BY <1>1, LookupStep
<1>2. CASE \E c \in Calls : Proceed(c)
  BY <1>2, ReadRoleStep, ReadRoleFailsStep, ReadTableStep, StoreStep, ClearUsersStep
     DEF Proceed
<1>3. CASE \E u \in Users : InvalidateUserPermissionCache(u)
  BY <1>3, InvalidateStep
<1>4. CASE \E c \in Calls, x \in Roles, p \in PermissionSets : SetRole(c, x, p)
  BY <1>4, SetRoleStep
<1>5. CASE \E u \in Users, x \in Roles \cup {NoRole} : ChangeUser(u, x)
  BY <1>5, ChangeUserStep
<1>6. CASE UNCHANGED storeVars
  BY <1>6 DEF storeVars, Inv, TypeOK, Carried, UpToDate, RoleOf, CachedIsKnown
<1>. QED
  BY <1>1, <1>2, <1>3, <1>4, <1>5, <1>6 DEF Next

\* What the history records of an emptied cache is what the authority forgets.
LEMMA ForgetsSome ==
    ASSUME NEW U \in SUBSET Users, since' = Forgotten(U), UNCHANGED <<role, roleCache, answer>>
    PROVE  Authority!Next
<1>. DEFINE V == {u \in U : Undisturbed(u)}
<1>1. since' = [u \in Users |-> IF u \in V THEN Authority!Known(u) ELSE since[u]]
  BY DEF Forgotten, Known, RoleOf, Authority!Known, Authority!RoleOf, Authority!NoRole
<1>2. V \in SUBSET Users
  OBVIOUS
<1>. HIDE DEF V
<1>3. Authority!Forget(V)
  BY <1>1 DEF Authority!Forget
<1>. QED
  BY <1>2, <1>3 DEF Authority!Next

\* Each section under the lock is a step of the authority, or none.
LEMMA StepRefines ==
    ASSUME Inv, Next PROVE Authority!Next \/ UNCHANGED Authority!authorityVars
<1>. USE DEF Inv
<1>1. ASSUME NEW c \in Calls, NEW u \in Users, Lookup(c, u)
      PROVE  Authority!Next \/ UNCHANGED Authority!authorityVars
  <2>1. CASE Hit(u)
    <3>1. /\ answer' = [user |-> u, perms |-> userCache[u].perms, mark |-> ~answer.mark]
          /\ UNCHANGED <<role, roleCache, since>>
      BY <1>1, <2>1 DEF Lookup, Give
    <3>2. userCache[u].perms \in since[u].sets
      BY <2>1 DEF Hit, CachedIsKnown
    <3>3. Authority!Answer(u)
      BY <3>1, <3>2 DEF Authority!Answer
    <3>. QED
      BY <3>3 DEF Authority!Next
  <2>2. CASE ~Hit(u)
    BY <1>1, <2>2 DEF Lookup, Authority!authorityVars
  <2>. QED
    BY <2>1, <2>2
<1>2. ASSUME NEW c \in Calls, Proceed(c)
      PROVE  Authority!Next \/ UNCHANGED Authority!authorityVars
  <2>1. CASE ReadRole(c)
    BY <2>1 DEF ReadRole, Authority!authorityVars
  <2>2. CASE ReadRoleFails(c)
    <3>1. call[c].user \in Users
      BY <2>2 DEF ReadRoleFails, TypeOK
    <3>2. Authority!Outage(call[c].user)
      BY <2>2 DEF ReadRoleFails, Authority!Outage
    <3>. QED
      BY <3>1, <3>2 DEF Authority!Next
  <2>3. CASE ReadTable(c)
    BY <2>3 DEF ReadTable, Authority!authorityVars
  <2>4. CASE Store(c)
    <3>1. call[c].user \in Users /\ call[c].perms \in since[call[c].user].sets
      BY <2>4 DEF Store, TypeOK, Carried
    <3>2. Authority!Answer(call[c].user)
      BY <2>4, <3>1 DEF Store, Give, Authority!Answer
    <3>. QED
      BY <3>1, <3>2 DEF Authority!Next
  <2>5. CASE ClearUsers(c)
    <3>1. since' = Forgotten(Users) /\ UNCHANGED <<role, roleCache, answer>>
      BY <2>5 DEF ClearUsers
    <3>. QED
      BY <3>1, ForgetsSome
  <2>. QED
    BY <1>2, <2>1, <2>2, <2>3, <2>4, <2>5 DEF Proceed
<1>3. ASSUME NEW u \in Users, InvalidateUserPermissionCache(u)
      PROVE  Authority!Next
  <2>1. since' = Forgotten({u}) /\ {u} \in SUBSET Users /\ UNCHANGED <<role, roleCache, answer>>
    BY <1>3 DEF InvalidateUserPermissionCache
  <2>. QED
    BY <2>1, ForgetsSome
<1>4. ASSUME NEW c \in Calls, NEW x \in Roles, NEW p \in PermissionSets, SetRole(c, x, p)
      PROVE  Authority!Next
  <2>1. Authority!SetTable(x, p)
    BY <1>4 DEF SetRole, Authority!SetTable
  <2>. QED
    BY <2>1 DEF Authority!Next
<1>5. ASSUME NEW u \in Users, NEW x \in Roles \cup {NoRole}, ChangeUser(u, x)
      PROVE  Authority!Next
  <2>1. Authority!ChangeRole(u, x)
    BY <1>5 DEF ChangeUser, Authority!ChangeRole, Authority!NoRole
  <2>. QED
    BY <2>1 DEF Authority!Next, Authority!NoRole
<1>. QED
  BY <1>1, <1>2, <1>3, <1>4, <1>5 DEF Next

LEMMA InitRefines == Init => Authority!Init
  BY DEF Init, Known, RoleOf, NoAnswer, Authority!Init, Authority!Known, Authority!RoleOf,
         Authority!NoRole, Authority!NoAnswer

LEMMA AlwaysInv == Spec => []Inv
<1>1. Init => Inv
  BY InitInv
<1>2. Inv /\ [Next]_storeVars => Inv'
  BY StepInv
<1>. QED
  BY <1>1, <1>2, PTL DEF Spec

\* In permission_service.go every look-up, whatever overlaps it, keeps the types,
\* and who is past its first section knows its user.
THEOREM PermissionTypeCorrect == Spec => []TypeOK
<1>1. Inv => TypeOK
  BY DEF Inv
<1>. QED
  BY <1>1, AlwaysInv, PTL

\* What the user cache holds is a set that one of the user's roles had since his
\* entry was last deleted with no look-up for him under way.
THEOREM CacheIsKnown == Spec => []CachedIsKnown
<1>1. Inv => CachedIsKnown
  BY DEF Inv
<1>. QED
  BY <1>1, AlwaysInv, PTL

\* The service with its two caches and the lock it releases between its sections
\* answers as PermissionAuthority allows.
THEOREM StoreKeepsPromise == Spec => KeepsPromise
<1>1. Init => Authority!Init
  BY InitRefines
<1>2. Inv /\ [Next]_storeVars => [Authority!Next]_(Authority!authorityVars)
  <2>1. ASSUME Inv, Next PROVE Authority!Next \/ UNCHANGED Authority!authorityVars
    BY <2>1, StepRefines
  <2>2. UNCHANGED storeVars => UNCHANGED Authority!authorityVars
    BY DEF storeVars, Authority!authorityVars
  <2>. QED
    BY <2>1, <2>2
<1>. QED
  BY <1>1, <1>2, AlwaysInv, PTL DEF Spec, KeepsPromise, Authority!Spec
-----------------------------------------------------------------------------
(***************************************************************************)
(* SessionStore.                                                           *)
(***************************************************************************)
SessionCall ==
    [pc : {"idle", "scan", "read", "evict", "set", "put", "delete"},
     op : {"none", "add", "activity", "revoke", "all", "others"},
     tok : Sessions \cup {"none"}, left : SUBSET Sessions, seen : SUBSET Sessions,
     copy : {"none", "active", "revoked"}, newer : SUBSET Sessions]

Status == {"none", "active", "revoked"}

\* What a call holds fits its operation, and who is about to write a session back
\* as active has read it after it was last logged out; G are those logged out.
Sound(q, G) ==
    /\ q.op \in {"add", "activity", "revoke", "others"} => q.tok \in Sessions
    /\ q.pc = "scan" => q.seen = {}
    /\ q.pc \in {"read", "evict", "set"} => q.op = "add"
    /\ q.pc = "put" => q.op \in {"activity", "revoke"}
    /\ q.pc = "put" => q.copy # "none" /\ (q.op = "revoke" => q.copy = "revoked")
    /\ q.pc = "put" /\ q.copy = "active" => q.tok \notin G

\* A logout has still to visit every active session that it may not leave; A are
\* the active ones.
Reaches(q, A) == q.pc = "delete" => A \subseteq q.left \cup q.newer \cup {q.tok}

\* A call that is about to make a session active has room for it.
Room(q, A) ==
    /\ q.pc = "read" => A \subseteq q.left \cup q.seen /\ Cardinality(A \cup q.seen) <= MaxSessions
    /\ q.pc = "evict" => A \subseteq q.seen /\ Cardinality(q.seen) <= MaxSessions
    /\ q.pc = "set" => Cardinality(A) < MaxSessions
    /\ q.pc = "put" /\ q.copy = "active" => Cardinality(A \cup {q.tok}) <= MaxSessions

Waits(c) == scall[c].pc = "idle"

OneByOne == \A c, d \in Calls : Waits(c) \/ Waits(d) \/ c = d

SessionInv ==
    /\ Session!TypeOK
    /\ Session!GoneStaysGone
    /\ \A c \in Calls : Sound(scall[c], gone) /\ (intact => Reaches(scall[c], Session!Active))
    /\ single => OneByOne
    /\ single /\ intact => /\ Cardinality(Session!Active) <= MaxSessions
                           /\ \A c \in Calls : Room(scall[c], Session!Active)

LEMMA Counting ==
    /\ \A S \in SUBSET Sessions : Cardinality(S) \in Nat
    /\ \A S, T \in SUBSET Sessions : S \subseteq T => Cardinality(S) <= Cardinality(T)
    /\ \A S \in SUBSET Sessions, s \in Sessions : Cardinality(S \cup {s}) <= Cardinality(S) + 1
    /\ \A S \in SUBSET Sessions : \A s \in S : Cardinality(S \ {s}) = Cardinality(S) - 1
    /\ Cardinality({}) = 0 /\ MaxSessions \in Nat /\ MaxSessions >= 1
<1>1. \A S \in SUBSET Sessions : IsFiniteSet(S)
  BY StoresAssumption, FS_Subset
<1>2. \A S \in SUBSET Sessions : Cardinality(S) \in Nat
  BY <1>1, FS_CardinalityType
<1>3. \A S, T \in SUBSET Sessions : S \subseteq T => Cardinality(S) <= Cardinality(T)
  BY <1>1, FS_Subset
<1>4. \A S \in SUBSET Sessions, s \in Sessions : Cardinality(S \cup {s}) <= Cardinality(S) + 1
  <2>. SUFFICES ASSUME NEW S \in SUBSET Sessions, NEW s \in Sessions
                PROVE  Cardinality(S \cup {s}) <= Cardinality(S) + 1
    OBVIOUS
  <2>1. IsFiniteSet(S) /\ Cardinality(S) \in Nat
    BY <1>1, <1>2
  <2>2. Cardinality(S \cup {s}) = IF s \in S THEN Cardinality(S) ELSE Cardinality(S) + 1
    BY <2>1, FS_AddElement
  <2>. QED
    BY <2>1, <2>2
<1>5. \A S \in SUBSET Sessions : \A s \in S : Cardinality(S \ {s}) = Cardinality(S) - 1
  BY <1>1, FS_RemoveElement
<1>. QED
  BY <1>2, <1>3, <1>4, <1>5, FS_EmptySet, StoresAssumption

\* SessionStore counts with its own instance of the standard module.
LEMMA SameCardinality == \A S : Session!Cardinality(S) = Cardinality(S)
  BY DEF Session!Cardinality, Cardinality, Session!IsFiniteSet, IsFiniteSet

LEMMA SessionTypes ==
    Session!TypeOK <=> /\ store \in [Sessions -> Status]
                       /\ scall \in [Calls -> SessionCall]
                       /\ gone \subseteq Sessions
                       /\ single \in BOOLEAN
                       /\ intact \in BOOLEAN
  BY DEF Session!TypeOK, SessionCall, Status, Session!NoSession

LEMMA IdleCall ==
    ASSUME NEW G, NEW A
    PROVE  /\ Session!Idle \in SessionCall /\ Session!Idle.pc = "idle"
           /\ Sound(Session!Idle, G) /\ Reaches(Session!Idle, A) /\ Room(Session!Idle, A)
  BY DEF Session!Idle, SessionCall, Session!NoSession, Sound, Reaches, Room

LEMMA SessionInit == Session!Init => SessionInv
<1>. SUFFICES ASSUME Session!Init PROVE SessionInv
  OBVIOUS
<1>1. Session!TypeOK
  BY IdleCall, SessionTypes DEF Session!Init, Status
<1>2. Session!GoneStaysGone /\ OneByOne
  BY IdleCall DEF Session!Init, Session!GoneStaysGone, OneByOne, Waits
<1>3. Session!Active = {}
  BY DEF Session!Init, Session!Active
<1>4. \A c \in Calls : /\ Sound(scall[c], gone) /\ Reaches(scall[c], Session!Active)
                       /\ Room(scall[c], Session!Active)
  BY IdleCall DEF Session!Init
<1>. QED
  BY <1>1, <1>2, <1>3, <1>4, Counting DEF SessionInv

\* Fewer active sessions, and more that are gone but not held, spoil no call.
LEMMA Stays ==
    ASSUME NEW q \in SessionCall, NEW A \in SUBSET Sessions, NEW B \in SUBSET A, NEW G, NEW H
    PROVE  /\ Reaches(q, A) => Reaches(q, B)
           /\ Room(q, A) => Room(q, B)
           /\ Sound(q, G) /\ (q.pc = "put" => q.tok \notin H \ G) => Sound(q, H)
<1>1. Reaches(q, A) => Reaches(q, B)
  BY DEF Reaches
<1>2. Sound(q, G) /\ (q.pc = "put" => q.tok \notin H \ G) => Sound(q, H)
  BY DEF Sound
<1>3. ASSUME Room(q, A) PROVE Room(q, B)
  <2>0. q.seen \in SUBSET Sessions /\ B \in SUBSET Sessions
    BY DEF SessionCall
  <2>1. q.pc = "read" => B \subseteq q.left \cup q.seen /\ Cardinality(B \cup q.seen) <= MaxSessions
    <3>1. Cardinality(B \cup q.seen) <= Cardinality(A \cup q.seen)
      BY <2>0, Counting
    <3>2. A \cup q.seen \in SUBSET Sessions /\ B \cup q.seen \in SUBSET Sessions
      BY <2>0
    <3>. QED
      BY <1>3, <3>1, <3>2, Counting DEF Room
  <2>2. q.pc = "set" => Cardinality(B) < MaxSessions
    <3>1. Cardinality(B) <= Cardinality(A) /\ Cardinality(A) \in Nat /\ Cardinality(B) \in Nat
      BY <2>0, Counting
    <3>. QED
      BY <1>3, <3>1, Counting DEF Room
  <2>3. q.pc = "put" /\ q.copy = "active" => Cardinality(B \cup {q.tok}) <= MaxSessions
    <3>. SUFFICES ASSUME q.pc = "put", q.copy = "active"
                  PROVE  Cardinality(B \cup {q.tok}) <= MaxSessions
      OBVIOUS
    <3>1. CASE q.tok \in Sessions
      <4>1. A \cup {q.tok} \in SUBSET Sessions /\ B \cup {q.tok} \in SUBSET Sessions
            /\ B \cup {q.tok} \subseteq A \cup {q.tok}
        BY <2>0, <3>1
      <4>2. Cardinality(B \cup {q.tok}) <= Cardinality(A \cup {q.tok})
            /\ Cardinality(A \cup {q.tok}) \in Nat /\ Cardinality(B \cup {q.tok}) \in Nat
        BY <4>1, Counting
      <4>. QED
        BY <1>3, <4>2, Counting DEF Room
    <3>2. CASE q.tok \notin Sessions
      <4>1. IsFiniteSet(A) /\ IsFiniteSet(B) /\ Cardinality(B) <= Cardinality(A)
            /\ q.tok \notin A /\ q.tok \notin B
        BY <2>0, <3>2, Counting, StoresAssumption, FS_Subset
      <4>2. Cardinality(A \cup {q.tok}) = Cardinality(A) + 1
            /\ Cardinality(B \cup {q.tok}) = Cardinality(B) + 1
            /\ Cardinality(A) \in Nat /\ Cardinality(B) \in Nat
        BY <2>0, <4>1, FS_AddElement, Counting
      <4>. QED
        BY <1>3, <4>1, <4>2, Counting DEF Room
    <3>. QED
      BY <3>1, <3>2
  <2>4. q.pc = "evict" => B \subseteq q.seen /\ Cardinality(q.seen) <= MaxSessions
    BY <1>3 DEF Room
  <2>. QED
    BY <2>1, <2>2, <2>3, <2>4 DEF Room
<1>. QED
  BY <1>1, <1>2, <1>3

LEMMA SessionTurn ==
    ASSUME Session!TypeOK, NEW c \in Calls, NEW new \in SessionCall,
           scall' = [scall EXCEPT ![c] = new]
    PROVE  /\ scall' \in [Calls -> SessionCall]
           /\ scall'[c] = new
           /\ \A d \in Calls \ {c} : scall'[d] = scall[d]
  BY SessionTypes

\* A step that makes no session active: it may move one call, delete sessions and
\* note those as gone that nobody holds.
LEMMA NothingAdded ==
    ASSUME SessionInv, NEW moved \in SUBSET Calls,
           store' \in [Sessions -> Status], Session!Active' \subseteq Session!Active,
           scall' \in [Calls -> SessionCall], \A d \in Calls \ moved : scall'[d] = scall[d],
           gone \subseteq gone', gone' \subseteq Sessions,
           \A s \in gone' \ gone : store'[s] # "active" /\
               \A d \in Calls \ moved : ~(scall[d].pc = "put" /\ scall[d].tok = s),
           intact' \in BOOLEAN, intact' => intact, single' \in BOOLEAN, single' => single,
           single' => OneByOne',
           \A c \in moved : /\ Sound(scall'[c], gone')
                            /\ intact' => Reaches(scall'[c], Session!Active')
                            /\ single' /\ intact' => Room(scall'[c], Session!Active')
    PROVE  SessionInv'
<1>. USE DEF SessionInv
<1>1. Session!TypeOK'
  BY DEF Session!TypeOK, SessionCall, Status, Session!NoSession
<1>2. /\ Session!Active \in SUBSET Sessions /\ Session!Active' \in SUBSET Session!Active
      /\ store \in [Sessions -> Status]
      /\ \A s \in Sessions : /\ s \in Session!Active <=> store[s] = "active"
                             /\ s \in Session!Active' <=> store'[s] = "active"
  BY SessionTypes DEF Session!Active
<1>3. Session!GoneStaysGone'
  <2>. SUFFICES ASSUME NEW s \in gone' PROVE store'[s] # "active"
    BY DEF Session!GoneStaysGone
  <2>1. CASE s \in gone
    BY <2>1, <1>2 DEF Session!GoneStaysGone
  <2>. QED
    BY <2>1
<1>4. ASSUME NEW d \in Calls
      PROVE  /\ Sound(scall'[d], gone')
             /\ intact' => Reaches(scall'[d], Session!Active')
             /\ single' /\ intact' => Room(scall'[d], Session!Active')
  <2>1. CASE d \notin moved
    <3>1. scall[d] \in SessionCall /\ scall'[d] = scall[d]
      BY <2>1, SessionTypes
    <3>2. Sound(scall[d], gone) /\ (scall[d].pc = "put" => scall[d].tok \notin gone' \ gone)
      BY <2>1
    <3>3. /\ intact' => Reaches(scall[d], Session!Active)
          /\ single' /\ intact' => Room(scall[d], Session!Active)
      OBVIOUS
    <3>. QED
      BY <1>2, <3>1, <3>2, <3>3, Stays
  <2>. QED
    BY <2>1
<1>5. ASSUME single', intact' PROVE Cardinality(Session!Active') <= MaxSessions
  <2>1. /\ Cardinality(Session!Active') <= Cardinality(Session!Active)
        /\ Cardinality(Session!Active') \in Nat /\ Cardinality(Session!Active) \in Nat
    <3>. HIDE DEF SessionInv
    <3>. QED
      BY <1>2, Counting
  <2>2. Cardinality(Session!Active) <= MaxSessions
    BY <1>5
  <2>. QED
    BY <2>1, <2>2, Counting
<1>. QED
  BY <1>1, <1>3, <1>4, <1>5

\* Steps that change nothing but a call and the histories.
LEMMA OnlyCall ==
    ASSUME SessionInv, NEW c \in Calls, NEW new \in SessionCall,
           scall' = [scall EXCEPT ![c] = new],
           UNCHANGED <<store, gone>>,
           intact' \in BOOLEAN, intact' => intact, single' \in BOOLEAN, single' => single,
           single' => Session!Quiet \/ ~Waits(c) \/ new.pc = "idle",
           Sound(new, gone), intact' => Reaches(new, Session!Active),
           single' /\ intact' => Room(new, Session!Active)
    PROVE  SessionInv'
<1>1. Session!TypeOK /\ store' \in [Sessions -> Status] /\ gone' \subseteq Sessions
  BY SessionTypes DEF SessionInv
<1>2. /\ scall' \in [Calls -> SessionCall]
      /\ scall'[c] = new
      /\ \A d \in Calls \ {c} : scall'[d] = scall[d]
  BY <1>1, SessionTurn
<1>3. Session!Active' = Session!Active
  BY DEF Session!Active
<1>4. single' => OneByOne'
  BY <1>2 DEF SessionInv, OneByOne, Waits, Session!Quiet
<1>5. \A d \in {c} : /\ Sound(scall'[d], gone')
                     /\ intact' => Reaches(scall'[d], Session!Active')
                     /\ single' /\ intact' => Room(scall'[d], Session!Active')
  BY <1>2, <1>3
<1>6. {c} \in SUBSET Calls /\ gone \subseteq gone' /\ gone' \ gone = {}
  OBVIOUS
<1>7. \A s \in gone' \ gone : store'[s] # "active" /\
          \A d \in Calls \ {c} : ~(scall[d].pc = "put" /\ scall[d].tok = s)
  BY <1>6
<1>. QED
  BY <1>1, <1>2, <1>3, <1>4, <1>5, <1>6, <1>7, NothingAdded

LEMMA BeginStep ==
    ASSUME SessionInv, NEW c \in Calls, NEW op \in {"add", "all", "others"},
           NEW tok \in Sessions \cup {"none"}, op # "all" => tok \in Sessions,
           Session!Begin(c, op, tok, "scan")
    PROVE  SessionInv'
<1>. DEFINE new == [Session!Idle EXCEPT !.pc = "scan", !.op = op, !.tok = tok]
<1>1. scall' = [scall EXCEPT ![c] = new]
  BY Zenon DEF Session!Begin
<1>2. /\ new \in SessionCall /\ new.pc = "scan" /\ new.op = op /\ new.tok = tok
      /\ new.seen = {}
  BY DEF Session!Idle, Session!NoSession, SessionCall
<1>. HIDE DEF new
<1>3. Sound(new, gone) /\ Reaches(new, Session!Active) /\ Room(new, Session!Active)
  BY <1>2 DEF Sound, Reaches, Room
<1>4. UNCHANGED <<store, gone, intact>> /\ single' = (single /\ Session!Quiet)
  BY Zenon DEF Session!Begin
<1>5. intact \in BOOLEAN /\ single' \in BOOLEAN /\ (single' => single /\ Session!Quiet)
  BY <1>4, SessionTypes DEF SessionInv
<1>. QED
  BY <1>1, <1>2, <1>3, <1>4, <1>5, OnlyCall

LEMMA StartAllStep ==
    ASSUME SessionInv, NEW c \in Calls, Session!InvalidateUserSessions(c)
    PROVE  SessionInv'
  BY BeginStep DEF Session!InvalidateUserSessions, Session!NoSession

LEMMA StartStep ==
    ASSUME SessionInv, NEW c \in Calls, NEW s \in Sessions, Session!Start(c, s)
    PROVE  SessionInv'
<1>1. ASSUME NEW op \in {"add", "others"}, Session!Begin(c, op, s, "scan")
      PROVE  SessionInv'
  BY <1>1, BeginStep
<1>2. ASSUME NEW op \in {"activity", "revoke"}, Session!Modify(c, op, s)
      PROVE  SessionInv'
  <2>. DEFINE copy == IF op = "revoke" \/ store[s] = "revoked" THEN "revoked" ELSE "active"
              new == [Session!Idle EXCEPT !.pc = "put", !.op = op, !.tok = s, !.copy = copy]
  <2>1. scall' = [scall EXCEPT ![c] = new] /\ store[s] # "none"
    BY <1>2, Zenon DEF Session!Modify, Session!Found
  <2>2. /\ copy \in {"active", "revoked"} /\ (op = "revoke" => copy = "revoked")
        /\ copy = "active" => store[s] = "active"
    BY <2>1, SessionTypes DEF SessionInv, Status
  <2>. HIDE DEF copy
  <2>3. /\ new \in SessionCall /\ new.pc = "put" /\ new.op = op /\ new.tok = s
        /\ new.copy = copy
    BY <2>2 DEF Session!Idle, Session!NoSession, SessionCall
  <2>. HIDE DEF new
  <2>4. UNCHANGED <<store, gone, intact>> /\ single' = (single /\ Session!Quiet)
    BY <1>2, Zenon DEF Session!Modify
  <2>5. intact \in BOOLEAN /\ single' \in BOOLEAN /\ (single' => single /\ Session!Quiet)
    BY <2>4, SessionTypes DEF SessionInv
  <2>6. Sound(new, gone) /\ Reaches(new, Session!Active)
    BY <2>2, <2>3 DEF Sound, Reaches, SessionInv, Session!GoneStaysGone
  <2>7. single' /\ intact => Room(new, Session!Active)
    <3>. SUFFICES ASSUME single', intact, copy = "active"
                  PROVE  Cardinality(Session!Active \cup {s}) <= MaxSessions
      BY <2>3 DEF Room
    <3>1. Session!Active \cup {s} = Session!Active
      BY <2>2 DEF Session!Active
    <3>. QED
      BY <2>5, <3>1 DEF SessionInv
  <2>. QED
    BY <2>1, <2>3, <2>4, <2>5, <2>6, <2>7, OnlyCall
<1>. QED
  BY <1>1, <1>2 DEF Session!Start, Session!CacheUserSession, Session!InvalidateUserSessionsExcept

LEMMA CallFacts ==
    ASSUME SessionInv, NEW c \in Calls
    PROVE  /\ scall[c] \in SessionCall
           /\ Sound(scall[c], gone)
           /\ intact => Reaches(scall[c], Session!Active)
           /\ single /\ intact => Room(scall[c], Session!Active)
           /\ Session!Active \in SUBSET Sessions /\ Session!Active \subseteq Session!Keys
           /\ Session!Keys \in SUBSET Sessions
           /\ intact \in BOOLEAN /\ single \in BOOLEAN
<1>1. Session!TypeOK
  BY DEF SessionInv
<1>. QED
  BY <1>1, SessionTypes DEF SessionInv, Session!Active, Session!Keys, Status

LEMMA EndCall ==
    ASSUME SessionInv, NEW c \in Calls, Session!Done(c), UNCHANGED <<store, gone, single>>,
           intact' \in BOOLEAN, intact' => intact
    PROVE  SessionInv'
  BY IdleCall, OnlyCall, CallFacts DEF Session!Done

LEMMA ScanStep ==
    ASSUME SessionInv, NEW c \in Calls, Session!Scan(c) \/ Session!ScanFails(c)
    PROVE  SessionInv'
<1>. DEFINE q == scall[c]
<1>1. q.pc = "scan" /\ ~Waits(c) /\ UNCHANGED <<store, gone, single>>
  BY DEF Session!Scan, Session!ScanFails, Waits
<1>2. CASE Session!Scan(c)
  <2>. DEFINE visit == Session!ToVisit(c)
              pc == IF q.op = "add" THEN "read" ELSE "delete"
              new == [q EXCEPT !.left = visit, !.pc = pc, !.newer = {}]
  <2>1. scall' = [scall EXCEPT ![c] = new] /\ intact' = intact
    BY <1>2 DEF Session!Scan
  <2>2. /\ visit \in SUBSET Sessions
        /\ q.op = "add" => visit = Session!Keys
        /\ Session!Keys \subseteq visit \cup {q.tok}
    BY CallFacts DEF Session!ToVisit
  <2>3. pc \in {"read", "delete"} /\ (pc = "read" <=> q.op = "add")
    OBVIOUS
  <2>. HIDE DEF visit, pc
  <2>4. /\ new \in SessionCall /\ new.pc = pc /\ new.op = q.op /\ new.tok = q.tok
        /\ new.left = visit /\ new.seen = q.seen /\ new.newer = {}
    BY <2>2, <2>3, CallFacts DEF SessionCall
  <2>. HIDE DEF new
  <2>5. Sound(new, gone)
    BY <1>1, <2>3, <2>4, CallFacts DEF Sound
  <2>6. Reaches(new, Session!Active)
    BY <2>2, <2>4, CallFacts DEF Reaches
  <2>7. single /\ intact => Room(new, Session!Active)
    <3>. SUFFICES ASSUME single, intact PROVE Room(new, Session!Active)
      OBVIOUS
    <3>1. q.seen = {} /\ Cardinality(Session!Active) <= MaxSessions
      BY <1>1, CallFacts DEF Sound, SessionInv
    <3>2. Session!Active \cup {} = Session!Active
      OBVIOUS
    <3>3. Session!Active \subseteq Session!Keys
      BY CallFacts
    <3>. QED
      BY <2>2, <2>3, <2>4, <3>1, <3>2, <3>3 DEF Room
  <2>. QED
    BY <1>1, <2>1, <2>4, <2>5, <2>6, <2>7, OnlyCall, CallFacts
<1>3. CASE Session!ScanFails(c) /\ q.op = "add"
  <2>. DEFINE new == [q EXCEPT !.pc = "set"]
  <2>1. scall' = [scall EXCEPT ![c] = new] /\ intact' = FALSE
    BY <1>3 DEF Session!ScanFails, Session!Goto
  <2>2. new \in SessionCall /\ new.pc = "set" /\ new.op = q.op /\ new.tok = q.tok
    BY CallFacts DEF SessionCall
  <2>. HIDE DEF new
  <2>3. Sound(new, gone)
    BY <1>3, <2>2, CallFacts DEF Sound
  <2>. QED
    BY <1>1, <2>1, <2>2, <2>3, OnlyCall, CallFacts
<1>4. CASE Session!ScanFails(c) /\ q.op # "add"
  <2>1. Session!Done(c) /\ intact' = FALSE
    BY <1>4 DEF Session!ScanFails
  <2>. QED
    BY <1>1, <2>1, EndCall
<1>. QED
  BY <1>2, <1>3, <1>4

LEMMA ReadStep ==
    ASSUME SessionInv, NEW c \in Calls, Session!ReadOne(c) \/ Session!AllRead(c)
    PROVE  SessionInv'
<1>. DEFINE q == scall[c]
            A == Session!Active
<1>1. q.pc = "read" /\ ~Waits(c) /\ UNCHANGED <<store, gone, single, intact>>
  BY DEF Session!ReadOne, Session!AllRead, Waits
<1>2. /\ q \in SessionCall /\ Sound(q, gone) /\ A \in SUBSET Sessions
      /\ single /\ intact => A \subseteq q.left \cup q.seen /\ Cardinality(A \cup q.seen) <= MaxSessions
      /\ intact \in BOOLEAN /\ single \in BOOLEAN
  BY <1>1, CallFacts DEF Room
<1>3. CASE Session!ReadOne(c)
  <2>1. PICK s \in q.left :
          scall' = [scall EXCEPT ![c].left = @ \ {s},
                                 ![c].seen = IF store[s] = "active" THEN @ \cup {s} ELSE @]
    BY <1>3 DEF Session!ReadOne
  <2>. DEFINE left == q.left \ {s}
              seen == IF store[s] = "active" THEN q.seen \cup {s} ELSE q.seen
              new == [q EXCEPT !.left = left, !.seen = seen]
  <2>2. scall' = [scall EXCEPT ![c] = new]
    BY <2>1
  <2>3. /\ left \in SUBSET Sessions /\ seen \in SUBSET Sessions /\ s \in Sessions
        /\ A \cup seen = A \cup q.seen
        /\ A \subseteq q.left \cup q.seen => A \subseteq left \cup seen
    BY <1>2 DEF SessionCall, Session!Active
  <2>. HIDE DEF left, seen, A
  <2>4. /\ new \in SessionCall /\ new.pc = "read" /\ new.op = q.op /\ new.tok = q.tok
        /\ new.left = left /\ new.seen = seen
    BY <1>1, <1>2, <2>3 DEF SessionCall
  <2>. HIDE DEF new
  <2>5. Sound(new, gone) /\ Reaches(new, A)
    BY <1>1, <1>2, <2>4 DEF Sound, Reaches
  <2>6. single /\ intact => Room(new, A)
    BY <1>2, <2>3, <2>4 DEF Room
  <2>. QED
    BY <1>1, <1>2, <2>2, <2>4, <2>5, <2>6, OnlyCall DEF A
<1>4. CASE Session!AllRead(c)
  <2>. DEFINE full == Cardinality(q.seen) >= MaxSessions
              pc == IF full THEN "evict" ELSE "set"
              new == [q EXCEPT !.pc = pc]
  <2>1. scall' = [scall EXCEPT ![c] = new] /\ q.left = {}
    BY <1>4, SameCardinality DEF Session!AllRead, Session!Goto, Session!Full
  <2>2. /\ pc \in {"evict", "set"}
        /\ new \in SessionCall /\ new.pc = pc /\ new.op = q.op /\ new.tok = q.tok
        /\ new.seen = q.seen
    BY <1>2 DEF SessionCall
  <2>3. Sound(new, gone) /\ Reaches(new, A)
    <3>. HIDE DEF pc, new
    <3>. QED
      BY <1>1, <1>2, <2>2 DEF Sound, Reaches
  <2>4. ASSUME single, intact PROVE Room(new, A)
    <3>0. q.seen \in SUBSET Sessions
      BY <1>2 DEF SessionCall
    <3>1. A \subseteq q.seen /\ A \cup q.seen = q.seen
      BY <1>2, <2>1, <2>4
    <3>2. Cardinality(q.seen) <= MaxSessions
      BY <1>2, <2>4, <3>1
    <3>3. ~full => Cardinality(A) < MaxSessions
      <4>1. /\ Cardinality(A) <= Cardinality(q.seen)
            /\ Cardinality(A) \in Nat /\ Cardinality(q.seen) \in Nat /\ MaxSessions \in Nat
        BY <1>2, <3>0, <3>1, Counting
      <4>. QED
        BY <4>1
    <3>4. (pc = "evict" <=> full) /\ (pc = "set" <=> ~full)
      OBVIOUS
    <3>. HIDE DEF new, pc, full, A
    <3>. QED
      BY <2>2, <3>1, <3>2, <3>3, <3>4 DEF Room
  <2>. HIDE DEF new, pc, A
  <2>. QED
    BY <1>1, <1>2, <2>1, <2>2, <2>3, <2>4, OnlyCall DEF A
<1>. QED
  BY <1>3, <1>4

\* Deleting a key, from a call or from nowhere, with or without noting it as gone.
LEMMA DeletedKey ==
    ASSUME SessionInv, NEW s \in Sessions, store' = Session!Deleted(s)
    PROVE  /\ store' \in [Sessions -> Status]
           /\ store'[s] = "none"
           /\ Session!Active' = Session!Active \ {s}
           /\ Session!Lost(s) \in SUBSET Sessions /\ gone \subseteq Session!Lost(s)
           /\ \A x \in Session!Lost(s) \ gone :
                store'[x] # "active" /\ \A d \in Calls : ~(scall[d].pc = "put" /\ scall[d].tok = x)
<1>1. store \in [Sessions -> Status] /\ gone \subseteq Sessions
  BY SessionTypes DEF SessionInv
<1>2. store' = [store EXCEPT ![s] = "none"]
  BY DEF Session!Deleted
<1>3. store' \in [Sessions -> Status] /\ store'[s] = "none"
  BY <1>1, <1>2 DEF Status
<1>4. Session!Active' = Session!Active \ {s}
  BY <1>1, <1>2 DEF Session!Active
<1>. QED
  BY <1>1, <1>3, <1>4 DEF Session!Lost, Session!Held

LEMMA EvictStep ==
    ASSUME SessionInv, NEW c \in Calls, Session!Evict(c)
    PROVE  SessionInv'
<1>. DEFINE q == scall[c]
            A == Session!Active
            new == [q EXCEPT !.pc = "set"]
<1>1. q.pc = "evict" /\ ~Waits(c) /\ UNCHANGED <<gone, single>> /\ scall' = [scall EXCEPT ![c] = new]
  BY DEF Session!Evict, Session!Goto, Waits
<1>2. /\ q \in SessionCall /\ Sound(q, gone) /\ A \in SUBSET Sessions
      /\ single /\ intact => A \subseteq q.seen /\ Cardinality(q.seen) <= MaxSessions
      /\ intact \in BOOLEAN /\ single \in BOOLEAN
      /\ q.seen \in SUBSET Sessions
  BY <1>1, CallFacts DEF Room, SessionCall
<1>3. new \in SessionCall /\ new.pc = "set" /\ new.op = q.op /\ new.tok = q.tok
  BY <1>2 DEF SessionCall
<1>. HIDE DEF new
<1>4. Sound(new, gone) /\ \A B : Reaches(new, B)
  BY <1>1, <1>2, <1>3 DEF Sound, Reaches
<1>5. CASE intact' = FALSE /\ store' = store
  BY <1>1, <1>2, <1>3, <1>4, <1>5, OnlyCall
<1>6. CASE intact' = intact /\ \E s \in q.seen :
             store' = IF MCSidOf[s] \in Sessions THEN Session!Deleted(MCSidOf[s]) ELSE store
  <2>1. PICK s \in q.seen : store' = Session!Deleted(s)
    BY <1>2, <1>6 DEF MCSidOf
  <2>2. s \in Sessions
    BY <1>2
  <2>3. store' \in [Sessions -> Status] /\ Session!Active' = A \ {s}
    BY <2>1, <2>2, DeletedKey
  <2>4. Session!TypeOK
    BY DEF SessionInv
  <2>5. /\ scall' \in [Calls -> SessionCall]
        /\ scall'[c] = new
        /\ \A d \in Calls \ {c} : scall'[d] = scall[d]
    BY <1>1, <1>3, <2>4, SessionTurn
  <2>6. ASSUME single, intact PROVE Room(new, A \ {s})
    <3>1. A \ {s} \in SUBSET Sessions /\ q.seen \ {s} \in SUBSET Sessions
          /\ A \ {s} \subseteq q.seen \ {s}
      BY <1>2, <2>6
    <3>2. Cardinality(A \ {s}) <= Cardinality(q.seen \ {s})
          /\ Cardinality(A \ {s}) \in Nat /\ Cardinality(q.seen \ {s}) \in Nat
      BY <3>1, Counting
    <3>3. Cardinality(q.seen \ {s}) = Cardinality(q.seen) - 1 /\ Cardinality(q.seen) \in Nat
      BY <1>2, Counting
    <3>4. Cardinality(q.seen) <= MaxSessions
      BY <1>2, <2>6
    <3>5. Cardinality(A \ {s}) < MaxSessions
      BY <3>2, <3>3, <3>4, Counting
    <3>. QED
      BY <1>3, <3>5 DEF Room
  <2>7. single => OneByOne'
    BY <1>1, <2>5 DEF SessionInv, OneByOne, Waits
  <2>8. \A d \in {c} : /\ Sound(scall'[d], gone')
                       /\ intact' => Reaches(scall'[d], Session!Active')
                       /\ single' /\ intact' => Room(scall'[d], Session!Active')
    BY <1>1, <1>4, <1>6, <2>3, <2>5, <2>6
  <2>9. /\ {c} \in SUBSET Calls /\ gone \subseteq gone' /\ gone' \subseteq Sessions
        /\ gone' \ gone = {} /\ Session!Active' \subseteq Session!Active
    BY <1>1, <2>3, SessionTypes DEF SessionInv
  <2>10. \A x \in gone' \ gone : store'[x] # "active" /\
            \A d \in Calls \ {c} : ~(scall[d].pc = "put" /\ scall[d].tok = x)
    BY <2>9
  <2>. QED
    BY <1>1, <1>2, <1>6, <2>3, <2>5, <2>7, <2>8, <2>9, <2>10, NothingAdded
<1>7. \/ intact' = FALSE /\ store' = store
      \/ intact' = intact /\ \E s \in q.seen :
             store' = IF MCSidOf[s] \in Sessions THEN Session!Deleted(MCSidOf[s]) ELSE store
  BY Zenon DEF Session!Evict
<1>. QED
  BY <1>5, <1>6, <1>7

LEMMA DeleteStep ==
    ASSUME SessionInv, NEW c \in Calls, Session!DeleteOne(c)
    PROVE  SessionInv'
<1>. DEFINE q == scall[c]
            A == Session!Active
<1>1. q.pc = "delete" /\ ~Waits(c) /\ single' = single
  BY DEF Session!DeleteOne, Waits
<1>2. /\ q \in SessionCall /\ Sound(q, gone) /\ A \in SUBSET Sessions
      /\ intact => A \subseteq q.left \cup q.newer \cup {q.tok}
      /\ intact \in BOOLEAN /\ single \in BOOLEAN
  BY <1>1, CallFacts DEF Reaches
<1>3. PICK s \in q.left :
         /\ scall' = [scall EXCEPT ![c].left = @ \ {s}]
         /\ \/ store' = Session!Deleted(s) /\ gone' = Session!Lost(s) /\ intact' = intact
            \/ intact' = FALSE /\ UNCHANGED <<store, gone>>
  BY Zenon DEF Session!DeleteOne
<1>. DEFINE left == q.left \ {s}
            new == [q EXCEPT !.left = left]
<1>4. s \in Sessions /\ left \in SUBSET Sessions /\ scall' = [scall EXCEPT ![c] = new]
  BY <1>2, <1>3 DEF SessionCall
<1>5. /\ new \in SessionCall /\ new.pc = "delete" /\ new.op = q.op /\ new.tok = q.tok
      /\ new.left = q.left \ {s} /\ new.newer = q.newer
  BY <1>1, <1>2, <1>4 DEF SessionCall
<1>. HIDE DEF new, left
<1>6. (\A G : Sound(new, G)) /\ \A B : Room(new, B)
  BY <1>2, <1>5 DEF Sound, Room
<1>7. CASE intact' = FALSE /\ UNCHANGED <<store, gone>>
  BY <1>1, <1>2, <1>4, <1>5, <1>6, <1>7, OnlyCall
<1>8. CASE store' = Session!Deleted(s) /\ gone' = Session!Lost(s) /\ intact' = intact
  <2>1. /\ store' \in [Sessions -> Status]
        /\ Session!Active' = A \ {s}
        /\ gone' \in SUBSET Sessions /\ gone \subseteq gone'
        /\ \A x \in gone' \ gone :
             store'[x] # "active" /\ \A d \in Calls : ~(scall[d].pc = "put" /\ scall[d].tok = x)
    BY <1>4, <1>8, DeletedKey
  <2>2. Session!TypeOK
    BY DEF SessionInv
  <2>3. /\ scall' \in [Calls -> SessionCall]
        /\ scall'[c] = new
        /\ \A d \in Calls \ {c} : scall'[d] = scall[d]
    BY <1>4, <1>5, <2>2, SessionTurn
  <2>4. intact => Reaches(new, A \ {s})
    BY <1>2, <1>5 DEF Reaches
  <2>5. single => OneByOne'
    BY <1>1, <2>3 DEF SessionInv, OneByOne, Waits
  <2>6. \A d \in {c} : /\ Sound(scall'[d], gone')
                       /\ intact' => Reaches(scall'[d], Session!Active')
                       /\ single' /\ intact' => Room(scall'[d], Session!Active')
    BY <1>6, <1>8, <2>1, <2>3, <2>4
  <2>7. {c} \in SUBSET Calls /\ Session!Active' \subseteq Session!Active
    BY <2>1
  <2>8. /\ intact' \in BOOLEAN /\ (intact' => intact)
        /\ single' \in BOOLEAN /\ (single' => single) /\ (single' => OneByOne')
    BY <1>1, <1>2, <1>8, <2>5
  <2>9. \A x \in gone' \ gone : store'[x] # "active" /\
           \A d \in Calls \ {c} : ~(scall[d].pc = "put" /\ scall[d].tok = x)
    BY <2>1
  <2>10. gone \subseteq gone' /\ gone' \subseteq Sessions
    BY <2>1
  <2>. HIDE DEF A, q
  <2>. QED
    BY <2>1, <2>3, <2>6, <2>7, <2>8, <2>9, <2>10, NothingAdded
<1>. QED
  BY <1>3, <1>7, <1>8

\* InvalidateUserSession, and a key that expires.
LEMMA KeyStep ==
    ASSUME SessionInv, NEW s \in Sessions, Session!InvalidateUserSession(s) \/ Session!Expire(s)
    PROVE  SessionInv'
<1>1. /\ store' = Session!Deleted(s) /\ UNCHANGED <<scall, single, intact>>
      /\ gone' = gone \/ gone' = Session!Lost(s)
  BY DEF Session!InvalidateUserSession, Session!Expire
<1>2. /\ store' \in [Sessions -> Status]
      /\ Session!Active' \subseteq Session!Active
      /\ Session!Lost(s) \in SUBSET Sessions /\ gone \subseteq Session!Lost(s)
      /\ \A x \in Session!Lost(s) \ gone :
           store'[x] # "active" /\ \A d \in Calls : ~(scall[d].pc = "put" /\ scall[d].tok = x)
  BY <1>1, DeletedKey
<1>3. /\ scall \in [Calls -> SessionCall] /\ single \in BOOLEAN /\ intact \in BOOLEAN
      /\ gone \subseteq Sessions /\ (single => OneByOne)
  BY SessionTypes DEF SessionInv
<1>4. OneByOne' <=> OneByOne
  BY <1>1 DEF OneByOne, Waits
<1>5. {} \in SUBSET Calls /\ gone \subseteq gone' /\ gone' \subseteq Sessions
  BY <1>1, <1>2, <1>3
<1>6. \A x \in gone' \ gone : store'[x] # "active" /\
         \A d \in Calls \ {} : ~(scall[d].pc = "put" /\ scall[d].tok = x)
  BY <1>1, <1>2
<1>7. \A d \in {} : /\ Sound(scall'[d], gone')
                    /\ intact' => Reaches(scall'[d], Session!Active')
                    /\ single' /\ intact' => Room(scall'[d], Session!Active')
  OBVIOUS
<1>. QED
  BY <1>1, <1>2, <1>3, <1>4, <1>5, <1>6, <1>7, NothingAdded

\* Set and Put: c writes s as v and ends.
LEMMA WriteStep ==
    ASSUME SessionInv, NEW c \in Calls, NEW s \in Sessions, NEW v \in {"active", "revoked"},
           ~Waits(c), store' = [store EXCEPT ![s] = v], Session!Wrote(c, s),
           UNCHANGED <<single, intact>>, gone' \subseteq gone \cup {s},
           v = "active" => /\ s \notin gone'
                           /\ single /\ intact => Cardinality(Session!Active \cup {s}) <= MaxSessions,
           s \in gone' \ gone => \A d \in Calls \ {c} : ~(scall[d].pc = "put" /\ scall[d].tok = s)
    PROVE  SessionInv'
<1>. DEFINE A == Session!Active
            new(d) == [scall[d] EXCEPT !.newer = @ \cup {s}]
<1>1. /\ Session!TypeOK /\ Session!GoneStaysGone
      /\ store \in [Sessions -> Status] /\ scall \in [Calls -> SessionCall]
      /\ gone \subseteq Sessions /\ single \in BOOLEAN /\ intact \in BOOLEAN
  BY SessionTypes DEF SessionInv
<1>2. /\ store' \in [Sessions -> Status] /\ store'[s] = v
      /\ \A x \in Sessions \ {s} : store'[x] = store[x]
  BY <1>1 DEF Status
<1>3. /\ Session!Active' \subseteq A \cup {s} /\ (v # "active" => Session!Active' \subseteq A)
      /\ A \in SUBSET Sessions /\ Session!Active' \in SUBSET Sessions
  BY <1>2 DEF Session!Active
<1>4. scall' = [d \in Calls |-> IF d = c THEN Session!Idle ELSE new(d)]
  BY DEF Session!Wrote
<1>5. ASSUME NEW d \in Calls
      PROVE  /\ new(d) \in SessionCall /\ new(d).pc = scall[d].pc /\ new(d).op = scall[d].op
             /\ new(d).tok = scall[d].tok /\ new(d).copy = scall[d].copy
             /\ new(d).left = scall[d].left /\ new(d).seen = scall[d].seen
             /\ new(d).newer = scall[d].newer \cup {s}
  BY <1>1 DEF SessionCall
<1>. HIDE DEF new
<1>6. scall' \in [Calls -> SessionCall]
  BY <1>4, <1>5, IdleCall
<1>7. Session!TypeOK'
  <2>1. gone' \subseteq Sessions
    BY <1>1
  <2>. QED
    BY <1>1, <1>2, <1>6, <2>1 DEF Session!TypeOK, SessionCall, Status, Session!NoSession
<1>8. Session!GoneStaysGone'
  BY <1>1, <1>2 DEF Session!GoneStaysGone
<1>9. ASSUME NEW d \in Calls, d # c
      PROVE  Sound(scall'[d], gone') /\ (intact' => Reaches(scall'[d], Session!Active'))
  <2>1. Sound(scall[d], gone) /\ (intact => Reaches(scall[d], A)) /\ scall'[d] = new(d)
    BY <1>4, <1>9 DEF SessionInv
  <2>2. scall[d].pc = "put" /\ scall[d].copy = "active" => scall[d].tok \notin gone'
    BY <1>9, <2>1 DEF Sound
  <2>3. Sound(new(d), gone')
    BY <2>1, <2>2, <1>5 DEF Sound
  <2>4. intact => Reaches(new(d), Session!Active')
    BY <2>1, <1>3, <1>5 DEF Reaches
  <2>. QED
    BY <2>1, <2>3, <2>4
<1>10. scall'[c] = Session!Idle
  BY <1>4
<1>11. \A d \in Calls : Sound(scall'[d], gone') /\ (intact' => Reaches(scall'[d], Session!Active'))
  <2>1. Sound(scall'[c], gone') /\ Reaches(scall'[c], Session!Active')
    BY <1>10, IdleCall
  <2>. QED
    BY <1>9, <2>1
<1>12. ASSUME single'
       PROVE  \A d \in Calls : scall'[d].pc = "idle"
  <2>. SUFFICES ASSUME NEW d \in Calls PROVE scall'[d].pc = "idle"
    OBVIOUS
  <2>1. CASE d = c
    BY <2>1, <1>10, IdleCall
  <2>2. CASE d # c
    <3>1. scall[d].pc = "idle"
      BY <2>2, <1>12 DEF SessionInv, OneByOne, Waits
    <3>. QED
      BY <2>2, <3>1, <1>4, <1>5
  <2>. QED
    BY <2>1, <2>2
<1>13. ASSUME single', intact'
       PROVE  /\ Cardinality(Session!Active') <= MaxSessions
              /\ \A d \in Calls : Room(scall'[d], Session!Active')
  <2>1. \A d \in Calls : Room(scall'[d], Session!Active')
    BY <1>12, <1>13 DEF Room
  <2>2. CASE v = "active"
    <3>1. A \cup {s} \in SUBSET Sessions /\ Cardinality(A \cup {s}) <= MaxSessions
      BY <2>2, <1>3, <1>13
    <3>2. Cardinality(Session!Active') <= Cardinality(A \cup {s})
          /\ Cardinality(Session!Active') \in Nat /\ Cardinality(A \cup {s}) \in Nat
      BY <3>1, <1>3, Counting
    <3>. QED
      BY <2>1, <3>1, <3>2, Counting
  <2>3. CASE v # "active"
    <3>1. Cardinality(A) <= MaxSessions
      BY <1>13 DEF SessionInv
    <3>2. Cardinality(Session!Active') <= Cardinality(A)
          /\ Cardinality(Session!Active') \in Nat /\ Cardinality(A) \in Nat
      BY <2>3, <1>3, Counting
    <3>. QED
      BY <2>1, <3>1, <3>2, Counting
  <2>. QED
    BY <2>2, <2>3
<1>14. single' => OneByOne'
  BY <1>12 DEF OneByOne, Waits
<1>. QED
  BY <1>7, <1>8, <1>11, <1>13, <1>14 DEF SessionInv

LEMMA SetStep ==
    ASSUME SessionInv, NEW c \in Calls, Session!Set(c)
    PROVE  SessionInv'
<1>. DEFINE s == scall[c].tok
<1>1. /\ scall[c].pc = "set" /\ ~Waits(c) /\ store' = [store EXCEPT ![s] = "active"]
      /\ gone' = gone \ {s} /\ Session!Wrote(c, s) /\ UNCHANGED <<single, intact>>
  BY DEF Session!Set, Waits
<1>2. s \in Sessions
  BY <1>1, CallFacts DEF Sound
<1>3. single /\ intact => Cardinality(Session!Active \cup {s}) <= MaxSessions
  <2>. SUFFICES ASSUME single, intact PROVE Cardinality(Session!Active \cup {s}) <= MaxSessions
    OBVIOUS
  <2>1. Cardinality(Session!Active) < MaxSessions /\ Session!Active \in SUBSET Sessions
    BY <1>1, CallFacts DEF Room
  <2>2. Session!Active \cup {s} \in SUBSET Sessions
    BY <1>2, <2>1
  <2>3. /\ Cardinality(Session!Active \cup {s}) <= Cardinality(Session!Active) + 1
        /\ Cardinality(Session!Active) \in Nat /\ Cardinality(Session!Active \cup {s}) \in Nat
    BY <1>2, <2>1, <2>2, Counting
  <2>. QED
    BY <2>1, <2>3, Counting
<1>. HIDE DEF s
<1>. QED
  BY <1>1, <1>2, <1>3, WriteStep

LEMMA PutStep ==
    ASSUME SessionInv, NEW c \in Calls, Session!Put(c)
    PROVE  SessionInv'
<1>. DEFINE q == scall[c]
            s == q.tok
            v == q.copy
<1>1. /\ q.pc = "put" /\ ~Waits(c) /\ store' = [store EXCEPT ![s] = v]
      /\ Session!Wrote(c, s) /\ UNCHANGED <<single, intact>>
      /\ \/ gone' = gone
         \/ /\ gone' = gone \cup {s} /\ q.op = "revoke"
            /\ \A d \in Calls \ {c} : ~(scall[d].pc = "put" /\ scall[d].tok = s)
  BY DEF Session!Put, Waits
<1>2. /\ q \in SessionCall /\ Sound(q, gone) /\ (single /\ intact => Room(q, Session!Active))
  BY CallFacts
<1>3. s \in Sessions /\ v \in {"none", "active", "revoked"}
      /\ (q.op = "revoke" => v = "revoked") /\ (v = "active" => s \notin gone)
  BY <1>1, <1>2 DEF Sound, SessionCall
<1>4. v = "active" => /\ s \notin gone'
                      /\ single /\ intact => Cardinality(Session!Active \cup {s}) <= MaxSessions
  BY <1>1, <1>2, <1>3 DEF Room
<1>5. v # "none"
  BY <1>1, <1>2 DEF Sound
<1>. HIDE DEF q, s, v
<1>. QED
  BY <1>1, <1>3, <1>4, <1>5, WriteStep DEF s

LEMMA SessionStep == SessionInv /\ Session!Next => SessionInv'
<1>. SUFFICES ASSUME SessionInv, Session!Next PROVE SessionInv'
  OBVIOUS
<1>1. ASSUME NEW c \in Calls, Session!Proceed(c) PROVE SessionInv'
  <2>1. CASE Session!AllDeleted(c)
    <3>1. Session!Done(c) /\ UNCHANGED <<store, gone, single, intact>>
      BY <2>1 DEF Session!AllDeleted
    <3>. QED
      BY <3>1, EndCall, CallFacts
  <2>. QED
    BY <1>1, <2>1, ScanStep, ReadStep, EvictStep, SetStep, PutStep, DeleteStep DEF Session!Proceed
<1>2. CASE \E c \in Calls, s \in Sessions : Session!Start(c, s)
  BY <1>2, StartStep
<1>3. CASE \E c \in Calls : Session!InvalidateUserSessions(c)
  BY <1>3, StartAllStep
<1>4. CASE \E s \in Sessions : Session!InvalidateUserSession(s) \/ Session!Expire(s)
  BY <1>4, KeyStep
<1>. QED
  BY <1>1, <1>2, <1>3, <1>4 DEF Session!Next
-----------------------------------------------------------------------------
(***************************************************************************)
(* MemoryLimiter.                                                          *)
(***************************************************************************)
Login ==
    [pc : {"idle", "locked", "count", "drop", "allowed"}, shared : BOOLEAN,
     own : Limiter!EntryType]

\* What is left of a lock and the time since the failure that set it make up its
\* duration.
Lasts(e) ==
    MaxAttempts > 1 /\ e.here /\ e.failed >= MaxAttempts => e.left + e.idle >= LockoutDuration

\* A login that comes alone passes the first check only if no lock is in force.
PassesUnlocked(q) ==
    q.pc \in {"count", "drop"} \/ (q.pc = "locked" /\ ~q.shared) => ~Limiter!InForce

OneLogin == \A k, l \in Calls : login[k].pc = "idle" \/ login[l].pc = "idle" \/ k = l

LimiterInv ==
    /\ entry \in Limiter!EntryType
    /\ login \in [Calls -> Login]
    /\ \A l \in Calls : login[l].shared => entry.here
    /\ apart \in BOOLEAN
    /\ Lasts(entry)
    /\ apart => OneLogin /\ \A l \in Calls : PassesUnlocked(login[l])

LEMMA LimiterNumbers ==
    /\ MaxAttempts \in Nat /\ LockoutDuration \in Nat /\ ResetWindow \in Nat
    /\ Limiter!Oldest \in Nat /\ Limiter!Oldest >= LockoutDuration /\ Limiter!Oldest >= 1
  BY StoresAssumption DEF Limiter!Oldest

LEMMA EmptyEntry ==
    /\ Limiter!NoEntry \in Limiter!EntryType /\ ~Limiter!NoEntry.here /\ Limiter!NoEntry.left = 0
    /\ Limiter!Idle \in Login /\ Limiter!Idle.pc = "idle" /\ ~Limiter!Idle.shared
  BY LimiterNumbers DEF Limiter!NoEntry, Limiter!EntryType, Limiter!Idle, Login

LEMMA LimiterInit == Limiter!Init => LimiterInv
  BY EmptyEntry DEF Limiter!Init, LimiterInv, Lasts, OneLogin, PassesUnlocked

\* A step of one login that leaves the entry alone.
LEMMA LoginTurn ==
    ASSUME LimiterInv, NEW l \in Calls, NEW new \in Login, login' = [login EXCEPT ![l] = new],
           entry' = entry, new.shared => entry.here,
           apart' \in BOOLEAN, apart' => apart,
           apart' => (\A k \in Calls : login[k].pc = "idle") \/ login[l].pc # "idle",
           apart' => PassesUnlocked(new)
    PROVE  LimiterInv' /\ Limiter!LockEndsByTime
<1>1. /\ login' \in [Calls -> Login] /\ login'[l] = new
      /\ \A k \in Calls \ {l} : login'[k] = login[k]
  BY DEF LimiterInv
<1>2. Limiter!InForce' <=> Limiter!InForce
  BY DEF Limiter!InForce
<1>3. entry' \in Limiter!EntryType /\ Lasts(entry') /\ \A k \in Calls : login'[k].shared => entry'.here
  BY <1>1 DEF LimiterInv, Limiter!EntryType
<1>4. ASSUME apart' PROVE OneLogin'
  BY <1>1, <1>4 DEF LimiterInv, OneLogin
<1>5. ASSUME apart', NEW k \in Calls PROVE PassesUnlocked(login[k])'
  <2>1. CASE k = l
    BY <2>1, <1>1, <1>2, <1>5 DEF PassesUnlocked
  <2>2. CASE k # l
    <3>1. login'[k] = login[k] /\ PassesUnlocked(login[k])
      BY <2>2, <1>1, <1>5 DEF LimiterInv
    <3>. QED
      BY <3>1, <1>2 DEF PassesUnlocked
  <2>. QED
    BY <2>1, <2>2
<1>6. LimiterInv'
  <2>1. Lasts(entry)'
    BY <1>3 DEF Lasts
  <2>. QED
    BY <1>1, <1>3, <1>4, <1>5, <2>1 DEF LimiterInv, Limiter!EntryType
<1>. QED
  BY <1>2, <1>6 DEF Limiter!LockEndsByTime

\* The map drops its entry, and the login l, if any, moves on.
LEMMA EntryDropped ==
    ASSUME LimiterInv, NEW f \in [Calls -> Login], login' = Limiter!Orphaned(f),
           entry' = Limiter!NoEntry, apart' = apart,
           \A l \in Calls : f[l] = login[l] \/ (login[l].pc # "idle" /\ f[l].pc \in {"idle", "allowed"})
    PROVE  LimiterInv'
<1>. DEFINE own(l) == [f[l] EXCEPT !.shared = FALSE, !.own = entry]
<1>1. login' = [l \in Calls |-> IF f[l].shared THEN own(l) ELSE f[l]]
  BY DEF Limiter!Orphaned
<1>2. ASSUME NEW l \in Calls
      PROVE  own(l) \in Login /\ own(l).pc = f[l].pc /\ ~own(l).shared
  BY DEF LimiterInv, Login
<1>. HIDE DEF own
<1>3. /\ login' \in [Calls -> Login]
      /\ \A l \in Calls : login'[l].pc = f[l].pc /\ ~login'[l].shared
  BY <1>1, <1>2 DEF Login
<1>4. ~Limiter!InForce' /\ Lasts(entry)'
  BY EmptyEntry DEF Limiter!InForce, Lasts
<1>5. apart' => OneLogin'
  BY <1>3 DEF LimiterInv, OneLogin
<1>6. \A l \in Calls : PassesUnlocked(login[l])'
  BY <1>4 DEF PassesUnlocked
<1>. QED
  BY <1>3, <1>4, <1>5, <1>6, EmptyEntry DEF LimiterInv, Limiter!EntryType

LEMMA CheckStep ==
    ASSUME LimiterInv, NEW l \in Calls,
           Limiter!Fetch(l) \/ Limiter!ReadLockedUntil(l) \/ Limiter!ReadFailedAttempts(l)
    PROVE  LimiterInv' /\ Limiter!LockEndsByTime
<1>. DEFINE q == login[l]
<1>1. q \in Login /\ entry \in Limiter!EntryType /\ apart \in BOOLEAN
      /\ (q.shared => entry.here) /\ (apart => PassesUnlocked(q)) /\ entry' = entry
  BY DEF LimiterInv, Limiter!Fetch, Limiter!ReadLockedUntil, Limiter!ReadFailedAttempts
<1>2. CASE Limiter!Fetch(l)
  <2>. DEFINE new == [Limiter!Idle EXCEPT !.shared = entry.here,
                                          !.pc = IF entry.here THEN "locked" ELSE "allowed"]
  <2>1. login' = [login EXCEPT ![l] = new]
    BY <1>2, Zenon DEF Limiter!Fetch
  <2>2. new \in Login /\ new.shared = entry.here /\ new.pc \in {"locked", "allowed"}
        /\ (new.pc = "locked" => entry.here)
    BY <1>1, EmptyEntry DEF Limiter!Idle, Login, Limiter!EntryType
  <2>. HIDE DEF new
  <2>3. apart' = (apart /\ \A k \in Calls : login[k].pc = "idle")
    BY <1>2, Zenon DEF Limiter!Fetch
  <2>4. apart' \in BOOLEAN /\ (apart' => apart) /\ (apart' => \A k \in Calls : login[k].pc = "idle")
    BY <2>3
  <2>5. PassesUnlocked(new)
    BY <2>2 DEF PassesUnlocked
  <2>. QED
    BY <1>1, <2>1, <2>2, <2>4, <2>5, LoginTurn
<1>3. CASE Limiter!ReadLockedUntil(l)
  <2>1. q.pc = "locked" /\ apart' = apart
    BY <1>3 DEF Limiter!ReadLockedUntil
  <2>2. CASE login' = [login EXCEPT ![l] = Limiter!Idle]
    BY <1>1, <2>1, <2>2, EmptyEntry, LoginTurn DEF PassesUnlocked
  <2>3. CASE Limiter!Goto(l, "count") /\ ~Limiter!After(Limiter!At(l).left)
    <3>. DEFINE new == [q EXCEPT !.pc = "count"]
    <3>1. login' = [login EXCEPT ![l] = new]
      BY <2>3 DEF Limiter!Goto
    <3>2. new \in Login /\ new.pc = "count" /\ new.shared = q.shared
      BY <1>1 DEF Login
    <3>3. apart => ~Limiter!InForce
      <4>1. CASE q.shared
        BY <4>1, <2>3 DEF Limiter!After, Limiter!At, Limiter!InForce
      <4>2. CASE ~q.shared
        BY <4>2, <1>1, <2>1 DEF PassesUnlocked
      <4>. QED
        BY <4>1, <4>2
    <3>. HIDE DEF new
    <3>4. apart => PassesUnlocked(new)
      BY <3>3 DEF PassesUnlocked
    <3>. QED
      BY <1>1, <2>1, <3>1, <3>2, <3>4, LoginTurn
  <2>. QED
    BY <1>3, <2>2, <2>3 DEF Limiter!ReadLockedUntil
<1>4. CASE Limiter!ReadFailedAttempts(l)
  <2>. DEFINE pc == IF Limiter!Reached(Limiter!At(l).failed) THEN "drop" ELSE "allowed"
              new == [q EXCEPT !.pc = pc]
  <2>1. q.pc = "count" /\ apart' = apart /\ login' = [login EXCEPT ![l] = new]
    BY <1>4 DEF Limiter!ReadFailedAttempts, Limiter!Goto
  <2>2. pc \in {"drop", "allowed"}
    OBVIOUS
  <2>. HIDE DEF pc
  <2>3. new \in Login /\ new.pc = pc /\ new.shared = q.shared
    BY <1>1, <2>2 DEF Login
  <2>. HIDE DEF new
  <2>4. apart => PassesUnlocked(new)
    BY <1>1, <2>1 DEF PassesUnlocked
  <2>. QED
    BY <1>1, <2>1, <2>3, <2>4, LoginTurn
<1>. QED
  BY <1>2, <1>3, <1>4

\* The check that finds the limit reached, a success and the clean-up.
LEMMA DropStep ==
    ASSUME LimiterInv,
           \/ \E l \in Calls : Limiter!Drop(l) \/ Limiter!RecordSuccess(l)
           \/ Limiter!Cleanup
    PROVE  LimiterInv' /\ Limiter!LockEndsByTime
<1>1. ASSUME NEW l \in Calls, NEW new \in Login,
             login' = Limiter!Orphaned([login EXCEPT ![l] = new]), login[l].pc # "idle",
             new.pc \in {"idle", "allowed"}, entry' = Limiter!NoEntry, apart' = apart
      PROVE  LimiterInv'
  <2>. DEFINE f == [login EXCEPT ![l] = new]
  <2>1. f \in [Calls -> Login] /\ f[l] = new /\ \A k \in Calls \ {l} : f[k] = login[k]
    BY DEF LimiterInv
  <2>2. login' = Limiter!Orphaned(f)
    BY <1>1
  <2>. HIDE DEF f
  <2>. QED
    BY <1>1, <2>1, <2>2, EntryDropped
<1>2. ASSUME NEW l \in Calls, Limiter!Drop(l) PROVE LimiterInv' /\ Limiter!LockEndsByTime
  <2>. DEFINE new == [login[l] EXCEPT !.pc = "allowed"]
  <2>1. /\ login[l].pc = "drop" /\ entry' = Limiter!NoEntry /\ apart' = apart
        /\ login' = Limiter!Orphaned([login EXCEPT ![l] = new])
    BY <1>2 DEF Limiter!Drop
  <2>2. new \in Login /\ new.pc = "allowed"
    BY DEF LimiterInv, Login
  <2>. HIDE DEF new
  <2>3. apart => ~Limiter!InForce
    BY <2>1 DEF LimiterInv, PassesUnlocked
  <2>. QED
    BY <2>1, <2>2, <2>3, <1>1 DEF Limiter!LockEndsByTime
<1>3. ASSUME NEW l \in Calls, Limiter!RecordSuccess(l) PROVE LimiterInv' /\ Limiter!LockEndsByTime
  <2>1. /\ login[l].pc = "allowed" /\ entry' = Limiter!NoEntry /\ apart' = apart
        /\ login' = Limiter!Orphaned([login EXCEPT ![l] = Limiter!Idle])
    BY <1>3 DEF Limiter!RecordSuccess
  <2>. QED
    BY <1>3, <2>1, <1>1, EmptyEntry DEF Limiter!LockEndsByTime
<1>4. CASE Limiter!Cleanup
  <2>1. /\ entry' = Limiter!NoEntry /\ apart' = apart /\ login' = Limiter!Orphaned(login)
        /\ ~Limiter!InForce
    BY <1>4 DEF Limiter!Cleanup, Limiter!Old, Limiter!InForce
  <2>2. login \in [Calls -> Login]
    BY DEF LimiterInv
  <2>. QED
    BY <2>1, <2>2, EntryDropped DEF Limiter!LockEndsByTime
<1>. QED
  BY <1>2, <1>3, <1>4

LEMMA FailureStep ==
    ASSUME LimiterInv, NEW l \in Calls, Limiter!RecordFailure(l)
    PROVE  LimiterInv' /\ Limiter!LockEndsByTime
<1>1. /\ login[l].pc = "allowed" /\ entry' = Limiter!Failed /\ apart' = apart
      /\ login' = [login EXCEPT ![l] = Limiter!Idle]
      /\ entry \in Limiter!EntryType
  BY DEF Limiter!RecordFailure, LimiterInv
<1>2. /\ login' \in [Calls -> Login] /\ login'[l] = Limiter!Idle
      /\ \A k \in Calls \ {l} : login'[k] = login[k]
  BY <1>1, EmptyEntry DEF LimiterInv
<1>3. Limiter!Counted \in 0..(MaxAttempts + 1)
  BY <1>1, LimiterNumbers DEF Limiter!Counted, Limiter!EntryType
<1>4. /\ entry' \in Limiter!EntryType /\ entry'.here
      /\ Limiter!InForce => Limiter!InForce'
      /\ Lasts(entry')
  <2>1. CASE ~entry.here
    <3>1. entry' = [here |-> TRUE, failed |-> 1, left |-> 0, idle |-> 0]
      BY <1>1, <2>1 DEF Limiter!Failed
    <3>. QED
      BY <2>1, <3>1, LimiterNumbers DEF Limiter!EntryType, Limiter!InForce, Lasts
  <2>2. CASE entry.here
    <3>. DEFINE n == Limiter!Counted
                left == IF n >= MaxAttempts THEN LockoutDuration ELSE entry.left
                e == [entry EXCEPT !.failed = n, !.idle = 0, !.left = left]
    <3>1. entry' = e
      BY <1>1, <2>2 DEF Limiter!Failed, Limiter!Lock
    <3>2. /\ left \in 0..LockoutDuration /\ (n >= MaxAttempts => left = LockoutDuration)
          /\ entry.left > 0 => left > 0
          /\ n \in 0..(MaxAttempts + 1) /\ 0 \in 0..Limiter!Oldest
      BY <1>1, <1>3, LimiterNumbers DEF Limiter!EntryType
    <3>. HIDE DEF left, n
    <3>3. e \in Limiter!EntryType /\ e.here = entry.here /\ e.failed = n /\ e.idle = 0 /\ e.left = left
      BY <1>1, <3>2 DEF Limiter!EntryType
    <3>. HIDE DEF e
    <3>4. Lasts(e)
      BY <3>2, <3>3, LimiterNumbers DEF Lasts
    <3>5. Limiter!InForce => Limiter!InForce'
      BY <3>1, <3>2, <3>3 DEF Limiter!InForce
    <3>. QED
      BY <2>2, <3>1, <3>3, <3>4, <3>5
  <2>. QED
    BY <2>1, <2>2
<1>5. apart' => OneLogin' /\ \A k \in Calls : PassesUnlocked(login[k])'
  <2>. SUFFICES ASSUME apart PROVE OneLogin' /\ \A k \in Calls : PassesUnlocked(login[k])'
    BY <1>1
  <2>1. \A k \in Calls : login'[k].pc = "idle"
    BY <1>1, <1>2, EmptyEntry DEF LimiterInv, OneLogin
  <2>. QED
    BY <2>1 DEF OneLogin, PassesUnlocked
<1>6. LimiterInv'
  <2>1. Lasts(entry)' /\ (entry \in Limiter!EntryType)'
    BY <1>4 DEF Lasts, Limiter!EntryType
  <2>2. \A k \in Calls : login'[k].shared => entry'.here
    BY <1>4
  <2>. QED
    BY <1>1, <1>2, <1>5, <2>1, <2>2 DEF LimiterInv
<1>. QED
  BY <1>4, <1>6 DEF Limiter!LockEndsByTime

LEMMA Ages ==
    ASSUME NEW e \in Limiter!EntryType
    PROVE  /\ Limiter!Aged(e) \in Limiter!EntryType
           /\ Limiter!Aged(e).here = e.here /\ Limiter!Aged(e).failed = e.failed
           /\ e.left = 0 => Limiter!Aged(e).left = 0
           /\ Lasts(e) => Lasts(Limiter!Aged(e))
<1>. DEFINE left == IF e.left = 0 THEN 0 ELSE e.left - 1
            idle == IF e.here /\ e.idle < Limiter!Oldest THEN e.idle + 1 ELSE e.idle
            new == [e EXCEPT !.left = left, !.idle = idle]
<1>1. Limiter!Aged(e) = new
  BY DEF Limiter!Aged
<1>2. /\ e.left \in 0..LockoutDuration /\ e.idle \in 0..Limiter!Oldest
      /\ left \in 0..LockoutDuration /\ idle \in 0..Limiter!Oldest
      /\ e.left = 0 => left = 0
      /\ e.here /\ e.left + e.idle >= LockoutDuration => left + idle >= LockoutDuration
  BY LimiterNumbers DEF Limiter!EntryType
<1>. HIDE DEF left, idle
<1>3. new \in Limiter!EntryType /\ new.here = e.here /\ new.failed = e.failed /\ new.left = left
      /\ new.idle = idle
  BY <1>2 DEF Limiter!EntryType
<1>. HIDE DEF new
<1>. QED
  BY <1>1, <1>2, <1>3 DEF Lasts

LEMMA LimiterTick ==
    ASSUME LimiterInv, Limiter!Tick
    PROVE  LimiterInv' /\ Limiter!LockEndsByTime
<1>. DEFINE new(l) == [login[l] EXCEPT !.own = Limiter!Aged(@)]
<1>1. /\ entry' = Limiter!Aged(entry) /\ apart' = apart
      /\ login' = [l \in Calls |-> new(l)]
  BY DEF Limiter!Tick
<1>2. ASSUME NEW l \in Calls
      PROVE  new(l) \in Login /\ new(l).pc = login[l].pc /\ new(l).shared = login[l].shared
  <2>1. login[l] \in Login /\ login[l].own \in Limiter!EntryType
    BY DEF LimiterInv, Login
  <2>2. Limiter!Aged(login[l].own) \in Limiter!EntryType
    BY <2>1, Ages
  <2>. QED
    BY <2>1, <2>2 DEF Login
<1>. HIDE DEF new
<1>3. /\ entry' \in Limiter!EntryType /\ entry'.here = entry.here /\ Lasts(entry')
      /\ entry.left = 0 => entry'.left = 0
      /\ entry.left \in Nat /\ entry'.left \in Nat
  <2>1. entry \in Limiter!EntryType /\ Lasts(entry)
    BY DEF LimiterInv
  <2>2. entry' \in Limiter!EntryType /\ entry'.here = entry.here /\ Lasts(entry')
        /\ (entry.left = 0 => entry'.left = 0)
    BY <1>1, <2>1, Ages
  <2>. QED
    BY <2>1, <2>2, LimiterNumbers DEF Limiter!EntryType
<1>4. ~Limiter!InForce => ~Limiter!InForce'
  BY <1>3 DEF Limiter!InForce
<1>5. /\ login' \in [Calls -> Login]
      /\ \A l \in Calls : login'[l].pc = login[l].pc /\ login'[l].shared = login[l].shared
  BY <1>1, <1>2
<1>6. apart' => OneLogin' /\ \A l \in Calls : PassesUnlocked(login[l])'
  BY <1>1, <1>4, <1>5 DEF LimiterInv, OneLogin, PassesUnlocked
<1>7. Lasts(entry)' /\ (entry \in Limiter!EntryType)'
  BY <1>3 DEF Lasts, Limiter!EntryType
<1>8. \A l \in Calls : login'[l].shared => entry'.here
  BY <1>3, <1>5 DEF LimiterInv
<1>9. apart' \in BOOLEAN
  BY <1>1 DEF LimiterInv
<1>. QED
  BY <1>5, <1>6, <1>7, <1>8, <1>9 DEF LimiterInv, Limiter!LockEndsByTime

LEMMA LimiterStep ==
    LimiterInv /\ Limiter!Next => LimiterInv' /\ Limiter!LockEndsByTime
  BY CheckStep, DropStep, FailureStep, LimiterTick DEF Limiter!Next

LEMMA LimiterMeans ==
    ASSUME LimiterInv PROVE Limiter!TypeOK /\ Limiter!LimitLocks
<1>1. Limiter!TypeOK
  BY DEF LimiterInv, Limiter!TypeOK, Login
<1>2. entry.left \in Nat /\ entry.idle \in Nat
  BY LimiterNumbers DEF LimiterInv, Limiter!EntryType
<1>3. Limiter!LimitLocks
  BY <1>2, LimiterNumbers DEF LimiterInv, Lasts, Limiter!LimitLocks
<1>. QED
  BY <1>1, <1>3
-----------------------------------------------------------------------------
(***************************************************************************)
(* CsrfStore.                                                              *)
(***************************************************************************)
CsrfEntry == [here : BOOLEAN, left : 0..TTL, used : BOOLEAN]

Post == [pc : {"idle", "valid"}, token : Tokens \cup {"none"}]

\* The request p has found t valid.
Validated(p, t) == post[p].token = t

\* A token that no two requests validated at a time has let nobody through yet, or
\* one request, and then nobody else can pass.
Once(t) ==
    /\ \A p, q \in Calls : Validated(p, t) /\ Validated(q, t) => p = q
    /\ passed[t] = 0 \/ (passed[t] = 1 /\ (tokens[t].here => tokens[t].used)
                                       /\ \A p \in Calls : ~Validated(p, t))

\* The token of a cookie lives as long as the cookie, or is used up.
CookieLives ==
    cookie.token # "none" =>
        /\ cookie.token \in drawn
        /\ cookie.left > 0
        /\ \/ passed[cookie.token] > 0
           \/ /\ tokens[cookie.token].here /\ ~tokens[cookie.token].used
              /\ tokens[cookie.token].left >= cookie.left

CsrfInv ==
    /\ tokens \in [Tokens -> CsrfEntry]
    /\ drawn \subseteq Tokens
    /\ cookie \in [token : Tokens \cup {"none"}, left : 0..TTL]
    /\ post \in [Calls -> Post]
    /\ passed \in [Tokens -> Nat]
    /\ met \subseteq Tokens
    /\ \A p \in Calls : /\ post[p].pc = "idle" => post[p].token = "none"
                        /\ post[p].token # "none" => post[p].token \in drawn
                        /\ post[p].pc = "valid" => post[p].token # "none"
    /\ \A t \in Tokens \ drawn : passed[t] = 0
    /\ \A t \in Tokens \ met : Once(t)
    /\ CookieLives

LEMMA CsrfNumbers == TTL \in Nat /\ TTL >= 1 /\ "none" \notin Tokens
  BY StoresAssumption

LEMMA CsrfInit == Csrf!Init => CsrfInv
<1>. SUFFICES ASSUME Csrf!Init PROVE CsrfInv
  OBVIOUS
<1>1. /\ tokens \in [Tokens -> CsrfEntry]
      /\ cookie \in [token : Tokens \cup {"none"}, left : 0..TTL]
      /\ post \in [Calls -> Post] /\ passed \in [Tokens -> Nat]
      /\ \A p \in Calls : post[p].pc = "idle" /\ post[p].token = "none"
      /\ \A t \in Tokens : passed[t] = 0
      /\ drawn = {} /\ met = {} /\ cookie.token = "none"
  BY CsrfNumbers DEF Csrf!Init, Csrf!Absent, Csrf!NoCookie, Csrf!Idle, Csrf!NoToken, CsrfEntry, Post
<1>2. \A t \in Tokens : Once(t)
  BY <1>1, CsrfNumbers DEF Once, Validated
<1>. QED
  BY <1>1, <1>2 DEF CsrfInv, CookieLives

\* SafeRequest and FreshToken: a token that was never drawn.
LEMMA DrawStep ==
    ASSUME CsrfInv, NEW t \in Tokens, Csrf!GenerateToken(t),
           UNCHANGED <<post, passed, met>>,
           cookie' = cookie \/ cookie' = [token |-> t, left |-> TTL]
    PROVE  CsrfInv'
<1>. DEFINE new == [here |-> TRUE, left |-> TTL, used |-> FALSE]
<1>1. t \notin drawn /\ drawn' = drawn \cup {t} /\ tokens' = [tokens EXCEPT ![t] = new]
  BY DEF Csrf!GenerateToken
<1>2. new \in CsrfEntry /\ new.here /\ ~new.used /\ new.left = TTL
  BY CsrfNumbers DEF CsrfEntry
<1>. HIDE DEF new
<1>3. /\ tokens' \in [Tokens -> CsrfEntry] /\ tokens'[t] = new
      /\ \A u \in Tokens \ {t} : tokens'[u] = tokens[u]
  BY <1>1, <1>2 DEF CsrfInv
<1>4. ASSUME NEW u \in Tokens \ met PROVE Once(u)'
  <2>1. Once(u)
    BY DEF CsrfInv
  <2>2. CASE u = t
    <3>1. passed'[u] = 0
      BY <2>2, <1>1 DEF CsrfInv
    <3>. QED
      BY <2>1, <3>1 DEF Once, Validated
  <2>3. CASE u # t
    BY <2>1, <2>3, <1>3 DEF Once, Validated
  <2>. QED
    BY <2>2, <2>3
<1>5. CookieLives' /\ cookie' \in [token : Tokens \cup {"none"}, left : 0..TTL]
  <2>1. CASE cookie' = cookie
    <3>1. cookie.token # "none" => cookie.token # t /\ cookie.token \in Tokens
      BY <1>1 DEF CsrfInv, CookieLives
    <3>. QED
      BY <2>1, <3>1, <1>1, <1>3 DEF CsrfInv, CookieLives
  <2>2. CASE cookie' = [token |-> t, left |-> TTL]
    <3>1. cookie'.token = t /\ cookie'.left = TTL
      BY <2>2
    <3>. QED
      BY <2>2, <3>1, <1>1, <1>2, <1>3, CsrfNumbers DEF CookieLives
  <2>. QED
    BY <2>1, <2>2
<1>. QED
  BY <1>1, <1>3, <1>4, <1>5 DEF CsrfInv

LEMMA BeginPostStep ==
    ASSUME CsrfInv, NEW p \in Calls, NEW t \in Tokens, Csrf!BeginPost(p, t)
    PROVE  CsrfInv'
<1>. DEFINE new == [pc |-> "valid", token |-> t]
<1>1. /\ post[p].pc = "idle" /\ t \in drawn /\ tokens[t].here /\ ~tokens[t].used
      /\ post' = [post EXCEPT ![p] = new]
      /\ met' = (IF \E q \in Calls : post[q].token = t THEN met \cup {t} ELSE met)
      /\ UNCHANGED <<tokens, drawn, cookie, passed>>
  BY DEF Csrf!BeginPost, Csrf!ValidateToken
<1>2. new \in Post /\ new.pc = "valid" /\ new.token = t
  BY DEF Post
<1>. HIDE DEF new
<1>3. /\ post' \in [Calls -> Post] /\ post'[p] = new
      /\ \A q \in Calls \ {p} : post'[q] = post[q]
  BY <1>1, <1>2 DEF CsrfInv
<1>4. ASSUME NEW u \in Tokens \ met' PROVE Once(u)'
  <2>1. Once(u) /\ u \in Tokens \ met
    BY <1>1 DEF CsrfInv
  <2>2. CASE u = t
    <3>1. \A q \in Calls : ~Validated(q, t)
      BY <2>2, <1>1 DEF Validated
    <3>2. passed[t] = 0
      BY <2>1, <2>2, <1>1 DEF Once
    <3>. QED
      BY <2>2, <3>1, <3>2, <1>1, <1>2, <1>3 DEF Once, Validated
  <2>3. CASE u # t
    BY <2>1, <2>3, <1>1, <1>2, <1>3 DEF Once, Validated
  <2>. QED
    BY <2>2, <2>3
<1>5. \A q \in Calls : /\ post'[q].pc = "idle" => post'[q].token = "none"
                       /\ post'[q].token # "none" => post'[q].token \in drawn
                       /\ post'[q].pc = "valid" => post'[q].token # "none"
  BY <1>1, <1>2, <1>3, CsrfNumbers DEF CsrfInv
<1>6. CookieLives' /\ met' \subseteq Tokens
  BY <1>1 DEF CsrfInv, CookieLives
<1>. QED
  BY <1>1, <1>3, <1>4, <1>5, <1>6 DEF CsrfInv

LEMMA EndPostStep ==
    ASSUME CsrfInv, NEW p \in Calls, Csrf!EndPost(p)
    PROVE  CsrfInv'
<1>. DEFINE t == post[p].token
            used == [tokens[t] EXCEPT !.used = TRUE]
<1>1. /\ post[p].pc = "valid" /\ post' = [post EXCEPT ![p] = Csrf!Idle]
      /\ UNCHANGED <<drawn, cookie, met>> /\ t \in Tokens /\ t \in drawn
  BY DEF Csrf!EndPost, CsrfInv
<1>2. /\ post' \in [Calls -> Post] /\ post'[p].pc = "idle" /\ post'[p].token = "none"
      /\ \A q \in Calls \ {p} : post'[q] = post[q]
  BY <1>1 DEF CsrfInv, Csrf!Idle, Csrf!NoToken, Post
<1>3. \A u \in Tokens, q \in Calls : Validated(q, u)' => Validated(q, u) /\ q # p
  BY <1>2, CsrfNumbers DEF Validated
<1>4. \A q \in Calls : /\ post'[q].pc = "idle" => post'[q].token = "none"
                       /\ post'[q].token # "none" => post'[q].token \in drawn
                       /\ post'[q].pc = "valid" => post'[q].token # "none"
  BY <1>2 DEF CsrfInv
<1>5. CASE ~tokens[t].here
  <2>1. UNCHANGED <<tokens, passed>>
    BY <1>5 DEF Csrf!EndPost
  <2>2. \A u \in Tokens \ met : Once(u)'
    BY <2>1, <1>3 DEF CsrfInv, Once
  <2>3. CookieLives'
    BY <2>1, <1>1 DEF CsrfInv, CookieLives
  <2>. QED
    BY <2>1, <2>2, <2>3, <1>1, <1>2, <1>4 DEF CsrfInv
<1>6. CASE tokens[t].here
  <2>1. tokens' = [tokens EXCEPT ![t] = used] /\ passed' = [passed EXCEPT ![t] = @ + 1]
    BY <1>6 DEF Csrf!EndPost, Csrf!InvalidateToken
  <2>2. used \in CsrfEntry /\ used.here /\ used.used
    BY <1>1, <1>6 DEF CsrfInv, CsrfEntry
  <2>. HIDE DEF used
  <2>3. /\ tokens' \in [Tokens -> CsrfEntry] /\ tokens'[t] = used
        /\ passed' \in [Tokens -> Nat] /\ passed'[t] = passed[t] + 1
        /\ \A u \in Tokens \ {t} : tokens'[u] = tokens[u] /\ passed'[u] = passed[u]
    BY <1>1, <2>1, <2>2 DEF CsrfInv
  <2>4. ASSUME NEW u \in Tokens \ met PROVE Once(u)'
    <3>1. Once(u)
      BY DEF CsrfInv
    <3>2. CASE u = t
      <4>1. Validated(p, t)
        BY DEF Validated
      <4>2. passed[t] = 0 /\ \A q \in Calls : Validated(q, t) => q = p
        BY <3>1, <3>2, <4>1 DEF Once
      <4>3. passed'[u] = 1 /\ tokens'[u].used /\ \A q \in Calls : ~Validated(q, u)'
        BY <1>1, <1>3, <2>2, <2>3, <3>2, <4>2
      <4>. QED
        BY <4>3 DEF Once
    <3>3. CASE u # t
      BY <3>1, <3>3, <1>3, <2>3 DEF Once
    <3>. QED
      BY <3>2, <3>3
  <2>5. CookieLives'
    <3>. SUFFICES ASSUME cookie.token # "none" PROVE CookieLives'
      BY <1>1 DEF CookieLives
    <3>0. cookie.token \in Tokens /\ CookieLives /\ passed[t] \in Nat
      BY <1>1 DEF CsrfInv
    <3>1. CASE cookie.token = t
      BY <3>0, <3>1, <1>1, <2>3 DEF CookieLives
    <3>2. CASE cookie.token # t
      BY <3>0, <3>2, <1>1, <2>3 DEF CookieLives
    <3>. QED
      BY <3>1, <3>2
  <2>6. \A u \in Tokens \ drawn : passed'[u] = 0
    BY <1>1, <2>3 DEF CsrfInv
  <2>. QED
    BY <2>3, <2>4, <2>5, <2>6, <1>1, <1>2, <1>4 DEF CsrfInv
<1>. QED
  BY <1>5, <1>6

\* The clean-up and the clock: tokens go or age, the cookie ages.
LEMMA CsrfTimeStep ==
    ASSUME CsrfInv, Csrf!Cleanup \/ Csrf!Tick
    PROVE  CsrfInv'
<1>1. UNCHANGED <<drawn, post, passed, met>>
  BY DEF Csrf!Cleanup, Csrf!Tick
<1>2. /\ tokens' \in [Tokens -> CsrfEntry]
      /\ \A t \in Tokens : (tokens[t].here => tokens[t].used) => (tokens'[t].here => tokens'[t].used)
      /\ cookie' \in [token : Tokens \cup {"none"}, left : 0..TTL]
      /\ CookieLives'
  <2>0. /\ tokens \in [Tokens -> CsrfEntry] /\ cookie \in [token : Tokens \cup {"none"}, left : 0..TTL]
        /\ CookieLives
    BY DEF CsrfInv
  <2>1. CASE Csrf!Cleanup
    <3>1. /\ cookie' = cookie
          /\ tokens' = [t \in Tokens |-> IF Csrf!Spent(tokens[t]) THEN Csrf!Absent ELSE tokens[t]]
      BY <2>1 DEF Csrf!Cleanup
    <3>2. Csrf!Absent \in CsrfEntry /\ ~Csrf!Absent.here
      BY CsrfNumbers DEF Csrf!Absent, CsrfEntry
    <3>3. tokens' \in [Tokens -> CsrfEntry]
      BY <2>0, <3>1, <3>2
    <3>4. \A t \in Tokens : tokens'[t] = tokens[t] \/ (~tokens'[t].here /\ Csrf!Spent(tokens[t]))
      BY <3>1, <3>2
    <3>5. ASSUME cookie.token # "none", ~(passed[cookie.token] > 0)
          PROVE  tokens'[cookie.token] = tokens[cookie.token]
      <4>1. /\ cookie.token \in Tokens /\ ~tokens[cookie.token].used
            /\ tokens[cookie.token].left >= cookie.left /\ cookie.left > 0
        BY <2>0, <3>5 DEF CookieLives
      <4>2. tokens[cookie.token].left \in Nat /\ cookie.left \in Nat
        BY <2>0, <4>1, CsrfNumbers DEF CsrfEntry
      <4>3. tokens[cookie.token].left # 0
        BY <4>1, <4>2
      <4>. QED
        BY <3>4, <4>1, <4>3 DEF Csrf!Spent
    <3>6. CookieLives'
      BY <2>0, <3>1, <3>5, <1>1 DEF CookieLives
    <3>. QED
      BY <2>0, <3>1, <3>3, <3>4, <3>6
  <2>2. CASE Csrf!Tick
    <3>. DEFINE older(t) == [tokens[t] EXCEPT !.left = Csrf!Minus1(@)]
    <3>1. /\ tokens' = [t \in Tokens |-> older(t)]
          /\ cookie' = (IF cookie.left <= 1 THEN Csrf!NoCookie ELSE [cookie EXCEPT !.left = @ - 1])
      BY <2>2 DEF Csrf!Tick
    <3>2. ASSUME NEW t \in Tokens
          PROVE  /\ older(t) \in CsrfEntry /\ older(t).here = tokens[t].here
                 /\ older(t).used = tokens[t].used
                 /\ older(t).left = Csrf!Minus1(tokens[t].left)
                 /\ tokens[t].left \in 0..TTL
      <4>1. tokens[t] \in CsrfEntry /\ tokens[t].left \in 0..TTL
        BY <2>0 DEF CsrfEntry
      <4>2. Csrf!Minus1(tokens[t].left) \in 0..TTL
        BY <4>1, CsrfNumbers DEF Csrf!Minus1
      <4>. QED
        BY <4>1, <4>2 DEF CsrfEntry
    <3>. HIDE DEF older
    <3>3. tokens' \in [Tokens -> CsrfEntry]
      BY <3>1, <3>2
    <3>4. \A t \in Tokens : (tokens[t].here => tokens[t].used) => (tokens'[t].here => tokens'[t].used)
      BY <3>1, <3>2
    <3>5. CASE cookie.left <= 1
      <4>1. cookie'.token = "none" /\ cookie' \in [token : Tokens \cup {"none"}, left : 0..TTL]
        BY <3>1, <3>5, CsrfNumbers DEF Csrf!NoCookie, Csrf!NoToken
      <4>. QED
        BY <3>3, <3>4, <4>1 DEF CookieLives
    <3>6. CASE cookie.left > 1
      <4>. DEFINE new == [cookie EXCEPT !.left = cookie.left - 1]
      <4>1. cookie' = new
        BY <3>1, <3>6, <2>0, CsrfNumbers
      <4>2. /\ new \in [token : Tokens \cup {"none"}, left : 0..TTL] /\ new.token = cookie.token
            /\ new.left = cookie.left - 1 /\ new.left > 0 /\ cookie.left \in Nat
        BY <3>6, <2>0, CsrfNumbers
      <4>. HIDE DEF new
      <4>3. CookieLives'
        <5>. SUFFICES ASSUME cookie.token # "none"
                      PROVE  \/ passed[cookie.token] > 0
                             \/ /\ tokens'[cookie.token].here /\ ~tokens'[cookie.token].used
                                /\ tokens'[cookie.token].left >= cookie.left - 1
          BY <4>1, <4>2, <1>1, <2>0 DEF CookieLives
        <5>1. cookie.token \in Tokens
          BY <2>0
        <5>. QED
          BY <5>1, <4>2, <3>1, <3>2, <2>0, CsrfNumbers DEF CookieLives, Csrf!Minus1
      <4>. QED
        BY <3>3, <3>4, <4>1, <4>2, <4>3
    <3>. QED
      BY <3>5, <3>6, <2>0, CsrfNumbers
  <2>. QED
    BY <2>1, <2>2
<1>3. \A t \in Tokens \ met : Once(t)'
  BY <1>1, <1>2 DEF CsrfInv, Once, Validated
<1>. QED
  BY <1>1, <1>2, <1>3 DEF CsrfInv

LEMMA CsrfStep == CsrfInv /\ Csrf!Next => CsrfInv'
<1>. SUFFICES ASSUME CsrfInv, Csrf!Next PROVE CsrfInv'
  OBVIOUS
<1>1. ASSUME NEW t \in Tokens, Csrf!SafeRequest(t) \/ Csrf!FreshToken(t) PROVE CsrfInv'
  <2>1. /\ Csrf!GenerateToken(t) /\ UNCHANGED <<post, passed, met>>
        /\ cookie' = cookie \/ cookie' = [token |-> t, left |-> TTL]
    BY <1>1 DEF Csrf!SafeRequest, Csrf!FreshToken
  <2>. QED
    BY <2>1, DrawStep
<1>. QED
  BY <1>1, BeginPostStep, EndPostStep, CsrfTimeStep DEF Csrf!Next

LEMMA CsrfMeans ==
    ASSUME CsrfInv PROVE Csrf!TypeOK /\ Csrf!PassesOnce /\ Csrf!CookieIsGood
<1>1. Csrf!TypeOK
  BY DEF CsrfInv, Csrf!TypeOK, CsrfEntry, Post, Csrf!NoToken
<1>2. Csrf!PassesOnce
  BY DEF CsrfInv, Csrf!PassesOnce, Once
<1>3. Csrf!CookieIsGood
  <2>. SUFFICES ASSUME cookie.token # "none", ~(passed[cookie.token] > 0)
                PROVE  Csrf!ValidateToken(cookie.token)
    BY DEF Csrf!CookieIsGood, Csrf!NoToken
  <2>1. cookie.token \in Tokens /\ cookie.left \in Nat /\ tokens[cookie.token].left \in Nat
    BY CsrfNumbers DEF CsrfInv, CsrfEntry
  <2>. QED
    BY <2>1 DEF CsrfInv, CookieLives, Csrf!ValidateToken
<1>. QED
  BY <1>1, <1>2, <1>3
-----------------------------------------------------------------------------
(***************************************************************************)
(* The four together.                                                      *)
(***************************************************************************)
StoresInv == Inv /\ SessionInv /\ LimiterInv /\ CsrfInv

LEMMA SessionsRest == SessionInv /\ UNCHANGED sessionVars => SessionInv'
<1>. SUFFICES ASSUME SessionInv, UNCHANGED sessionVars PROVE SessionInv'
  OBVIOUS
<1>1. /\ store' = store /\ scall' = scall /\ gone' = gone /\ single' = single
      /\ intact' = intact
  BY DEF sessionVars
<1>2. Session!Active' = Session!Active
  BY <1>1 DEF Session!Active
<1>. QED
  BY <1>1, <1>2 DEF SessionInv, Session!TypeOK, Session!GoneStaysGone, OneByOne, Waits

LEMMA LimiterRests == LimiterInv /\ UNCHANGED limiterVars => LimiterInv'
<1>. SUFFICES ASSUME LimiterInv, UNCHANGED limiterVars PROVE LimiterInv'
  OBVIOUS
<1>1. entry' = entry /\ login' = login /\ apart' = apart
  BY DEF limiterVars
<1>. QED
  BY <1>1 DEF LimiterInv, Limiter!EntryType, Lasts, OneLogin, PassesUnlocked, Limiter!InForce

LEMMA CsrfRests == CsrfInv /\ UNCHANGED csrfVars => CsrfInv'
<1>. SUFFICES ASSUME CsrfInv, UNCHANGED csrfVars PROVE CsrfInv'
  OBVIOUS
<1>1. /\ tokens' = tokens /\ drawn' = drawn /\ cookie' = cookie /\ post' = post
      /\ passed' = passed /\ met' = met
  BY DEF csrfVars
<1>. QED
  BY <1>1 DEF CsrfInv, Once, Validated, CookieLives

LEMMA StoresInitInv == StoresInit => StoresInv
  BY InitInv, SessionInit, LimiterInit, CsrfInit DEF StoresInit, StoresInv

LEMMA StoresStep ==
    StoresInv /\ [StoresNext]_<<moving, storeVars, sessionVars, limiterVars, csrfVars>> => StoresInv'
<1>. SUFFICES ASSUME StoresInv, [StoresNext]_<<moving, storeVars, sessionVars, limiterVars, csrfVars>>
              PROVE  StoresInv'
  OBVIOUS
<1>1. [Next]_storeVars
  BY DEF StoresNext
<1>2. Session!Next \/ UNCHANGED sessionVars
  BY DEF StoresNext
<1>3. Limiter!Next \/ UNCHANGED limiterVars
  BY DEF StoresNext
<1>4. Csrf!Next \/ UNCHANGED csrfVars
  BY DEF StoresNext
<1>5. Inv' /\ SessionInv'
  BY <1>1, <1>2, StepInv, SessionStep, SessionsRest DEF StoresInv
<1>6. LimiterInv' /\ CsrfInv'
  BY <1>3, <1>4, LimiterStep, LimiterRests, CsrfStep, CsrfRests DEF StoresInv
<1>. QED
  BY <1>5, <1>6 DEF StoresInv

LEMMA AlwaysStoresInv == StoresSpec => []StoresInv
<1>1. StoresInit => StoresInv
  BY StoresInitInv
<1>2. StoresInv /\ [StoresNext]_<<moving, storeVars, sessionVars, limiterVars, csrfVars>> => StoresInv'
  BY StoresStep
<1>. QED
  BY <1>1, <1>2, PTL DEF StoresSpec

\* Of permission_service.go, session_cache_service.go, rate_limit.go and csrf.go:
\* every step keeps the types, and a login shares an entry only while the map has it.
THEOREM StoresTypeCorrect == StoresSpec => []AllTypesOK
<1>1. StoresInv => AllTypesOK
  BY LimiterMeans, CsrfMeans DEF StoresInv, Inv, SessionInv, AllTypesOK
<1>. QED
  BY <1>1, AlwaysStoresInv, PTL

\* CacheUserSession scans, reads, evicts and sets in commands of its own, and keys
\* expire or are deleted between any two: calls one at a time, none failing, never
\* take a user above MaxConcurrentSessionsPerUser.
THEOREM SessionLimitIsKept == StoresSpec => []WithinMaxSessions
<1>1. StoresInv => WithinMaxSessions
  BY SameCardinality DEF StoresInv, SessionInv, WithinMaxSessions, Session!WithinMaxSessions
<1>. QED
  BY <1>1, AlwaysStoresInv, PTL

\* A logout of several sessions, whatever is written between its scan and its
\* deletes, misses none that it could see; and a session that is logged out or
\* revoked comes back only by a call that had read it before.
THEOREM LogoutsReach == StoresSpec => []LogoutsLast
<1>1. StoresInv => LogoutsLast
  BY DEF StoresInv, SessionInv, Reaches, LogoutsLast, Session!LogoutReachesTheOthers
<1>. QED
  BY <1>1, AlwaysStoresInv, PTL

\* IsAllowed reads the entry without the lock while others count or drop it: still
\* no entry at the limit goes without its lock, and of logins that come one at a
\* time none ends a lock but by a success.
THEOREM LimiterLocks == StoresSpec => LocksHold
<1>1. StoresInv /\ [StoresNext]_<<moving, storeVars, sessionVars, limiterVars, csrfVars>>
        => [Limiter!LimitLocks' /\ Limiter!LockEndsByTime]_limiterVars
  <2>. SUFFICES ASSUME StoresInv, StoresNext, limiterVars' # limiterVars
                PROVE  Limiter!LimitLocks' /\ Limiter!LockEndsByTime
    BY DEF limiterVars
  <2>1. Limiter!Next
    BY DEF StoresNext
  <2>2. LimiterInv' /\ Limiter!LockEndsByTime
    BY <2>1, LimiterStep DEF StoresInv
  <2>3. entry'.left \in Nat /\ entry'.idle \in Nat /\ Lasts(entry')
    BY <2>2, LimiterNumbers DEF LimiterInv, Limiter!EntryType
  <2>4. Limiter!LimitLocks'
    BY <2>3, LimiterNumbers DEF Lasts, Limiter!LimitLocks
  <2>. QED
    BY <2>2, <2>4
<1>. QED
  BY <1>1, AlwaysStoresInv, PTL DEF StoresSpec, LocksHold

\* validateCSRFToken checks under one lock and marks under another: a token lets
\* one request through unless two held it at a time, and the token of a cookie is
\* accepted for as long as the cookie lasts or until it was used.
THEOREM CsrfTokensWorkOnce == StoresSpec => []TokensWorkOnce
<1>1. StoresInv => TokensWorkOnce
  BY CsrfMeans DEF StoresInv, TokensWorkOnce
<1>. QED
  BY <1>1, AlwaysStoresInv, PTL

\* The permissions of the composed specification are those of PermissionStore.
LEMMA ComposedPermissions == StoresSpec => Spec
<1>1. StoresInit => Init
  BY DEF StoresInit
<1>2. [StoresNext]_<<moving, storeVars, sessionVars, limiterVars, csrfVars>> => [Next]_storeVars
  BY DEF StoresNext, storeVars
<1>. QED
  BY <1>1, <1>2, PTL DEF StoresSpec, Spec

\* So the store keeps its promise beside the others as well.
THEOREM ComposedStoreKeepsPromise == StoresSpec => KeepsPromise
BY ComposedPermissions, StoreKeepsPromise, PTL
=============================================================================
