---------------------------- MODULE UserAccount -----------------------------
(***************************************************************************)
(* One e-mail address: the row of table users that has it, the tokens of   *)
(* tables email_verifications and password_resets, and the requests of     *)
(* internal/service/auth_service.go and internal/handler/user_handler.go   *)
(* that read and write them.  As everywhere, each repository call is a     *)
(* statement of its own and Update writes back every column read earlier.  *)
(*                                                                         *)
(* The columns kept are the ones a decision reads: status, role and        *)
(* password_hash; user_id, expires_at and used_at of a token.  The two     *)
(* token tables have the same columns and are told apart by `kind'.  The   *)
(* Redis copies of tokens are left out: both callers of the token cache    *)
(* ask for a token without a user id, and then it never looks in Redis.    *)
(***************************************************************************)
EXTENDS Naturals

CONSTANTS
    Requests,   \* goroutines of the HTTP server
    Passwords,  \* passwords that clients choose
    Roles,      \* roles that administrators assign, "User" among them
    Targets,    \* statuses that administrators assign
    Tokens,     \* token strings (random: never used twice)
    VerifyTTL,  \* 24 hours, in ticks
    ResetTTL,   \* 1 hour, in ticks
    MaxIds,     \* bound: rows ever inserted with a new key
    MaxTime     \* bound: how far the clock runs

Statuses == {"Unverified", "Verified", "Active", "Blocked"}

ASSUME AccountAssumption ==
    /\ Requests # {} /\ Passwords # {} /\ Tokens # {}
    /\ "User" \in Roles
    /\ Targets \subseteq Statuses
    /\ VerifyTTL \in Nat /\ ResetTTL \in Nat /\ MaxIds \in Nat /\ MaxTime \in Nat

VARIABLES
    now,     \* the clock of time.Now()
    lastId,  \* the sequence of users.id
    user,    \* the row with the address; id 0: there is none
    token,   \* the rows of the two token tables
    req,     \* what each request is doing, with the row it holds in memory
    stale,   \* history: the row was written since the request read it
    uses,    \* history: how often a token had the row written: 0, 1, or 2 for more
    shared   \* history: tokens that two requests held at a time, or whose use failed half-way

vars == <<now, lastId, user, token, req, stale, uses, shared>>
-----------------------------------------------------------------------------
AnyPassword == CHOOSE p \in Passwords : TRUE
AnyToken    == CHOOSE t \in Tokens : TRUE

User == [id : Nat, status : Statuses, role : Roles, password : Passwords]

NoUser == [id |-> 0, status |-> "Unverified", role |-> "User",
           password |-> AnyPassword]

\* The default columns of a registration.
Registered(i, p) == [NoUser EXCEPT !.id = i, !.password = p]

Token == [kind : {"none", "verify", "reset"}, user : Nat, expires : Nat,
          used : BOOLEAN]

NoToken == [kind |-> "none", user |-> 0, expires |-> 0, used |-> FALSE]

Kind(op)  == IF op \in {"RequestReset", "ConfirmReset"} THEN "reset" ELSE "verify"
TTL(kind) == IF kind = "reset" THEN ResetTTL ELSE VerifyTTL

Valid(t, kind) ==
    token[t].kind = kind /\ now <= token[t].expires /\ ~token[t].used

TokenOps == {"Verify", "ConfirmReset"}
SaveOps  == {"Login", "UpdateUser", "Role", "Status"} \cup TokenOps
Ops      == {"Register", "Resend", "RequestReset", "Delete"} \cup SaveOps

\* `copy' is the row it read, as it will write it; `password' what it was sent.
Request == [pc       : {"idle", "getUser", "create", "createToken", "saveUser",
                        "saveToken", "delete"},
            op       : Ops \cup {"none"},
            token    : Tokens,
            password : Passwords,
            copy     : User]

Idle == [pc |-> "idle", op |-> "none", token |-> AnyToken,
         password |-> AnyPassword, copy |-> NoUser]

Call(op) == [Idle EXCEPT !.op = op]
Goto(q, l) == [q EXCEPT !.pc = l]
Holds(q, l, u) == [q EXCEPT !.pc = l, !.copy = u]

Step(r, q) == req' = [req EXCEPT ![r] = q]

\* The request is answered, one way or the other.
Answer(r) == Step(r, Idle)

\* A request that works with token t, from its check to its answer.
Uses(q, t) == q.op \in TokenOps /\ q.token = t

Observe(failed) ==
    /\ stale' = [r \in Requests |-> /\ req'[r].pc = "saveUser"
                                    /\ stale[r] \/ user' # user]
    /\ shared' = shared \cup failed \cup
          {t \in Tokens : \E q, r \in Requests :
                             q # r /\ Uses(req'[q], t) /\ Uses(req'[r], t)}

Init ==
    /\ now = 0
    /\ lastId = 0
    /\ user = NoUser
    /\ token = [t \in Tokens |-> NoToken]
    /\ req = [r \in Requests |-> Idle]
    /\ stale = [r \in Requests |-> FALSE]
    /\ uses = [t \in Tokens |-> 0]
    /\ shared = {}

Tick ==
    /\ now < MaxTime
    /\ now' = now + 1
    /\ UNCHANGED <<lastId, user, token, req, uses>>
    /\ Observe({})
-----------------------------------------------------------------------------
(***************************************************************************)
(* First statement: a read, and what the request makes of it.  A request   *)
(* that is refused here has changed nothing and is left out.               *)
(***************************************************************************)
Exists == user.id # 0

Begins(r) ==
    /\ req[r].pc = "idle"
    /\ UNCHANGED <<now, lastId, user, token, uses>>

\* A failed lookup counts as "no such user".
Register(r, p) ==
    LET q == [Call("Register") EXCEPT !.password = p] IN
    /\ Begins(r)
    /\ Step(r, Goto(q, "create"))
    /\ Observe({})

MayLogin(p) == Exists /\ user.password = p /\ user.status = "Active"

Login(r, p) ==
    LET q == [Call("Login") EXCEPT !.password = p] IN
    /\ Begins(r)
    /\ MayLogin(p)
    /\ Step(r, Holds(q, "saveUser", user))
    /\ Observe({})

\* ResendVerificationEmail and RequestPasswordReset.
AskForToken(r, op) ==
    /\ Begins(r)
    /\ Exists
    /\ op = "Resend" => user.status \notin {"Active", "Verified"}
    /\ Step(r, Holds(Call(op), "createToken", user))
    /\ Observe({})

\* VerifyEmail and ConfirmPasswordReset: the token first, then its user.
UseToken(r, op, t, p) ==
    LET q == [Call(op) EXCEPT !.token = t, !.password = p] IN
    /\ Begins(r)
    /\ Valid(t, Kind(op))
    /\ Step(r, Goto(q, "getUser"))
    /\ Observe({})

\* The columns that each operation assigns in the row it read.
Mutant_Changed(q, u) ==
    CASE q.op = "Verify" -> [u EXCEPT !.status = "Active"]
      [] q.op = "ConfirmReset" ->
            [u EXCEPT !.password = q.password, !.status = "Active"]

Changed(q, u) ==
    CASE q.op = "Verify" -> [u EXCEPT !.status = "Active"]
      [] q.op = "ConfirmReset" -> [u EXCEPT !.password = q.password]

GetTokenUser(r) ==
    LET q == req[r] IN
    /\ q.pc = "getUser"
    /\ \/ /\ Exists /\ user.id = token[q.token].user
          /\ Step(r, Holds(q, "saveUser", Changed(q, user)))
       \/ Answer(r)
    /\ UNCHANGED <<now, lastId, user, token, uses>>
    /\ Observe({})

\* The administrators' and the owner's updates; `u' is the row to be written.
Update(r, op, u) ==
    /\ Begins(r)
    /\ Exists
    /\ Step(r, Holds(Call(op), "saveUser", u))
    /\ Observe({})

UpdateUser(r)          == Update(r, "UpdateUser", user)
UpdateUserRole(r, x)   == Update(r, "Role", [user EXCEPT !.role = x])
UpdateUserStatus(r, s) == Update(r, "Status", [user EXCEPT !.status = s])

DeleteUser(r) ==
    /\ Begins(r)
    /\ Exists
    /\ Step(r, Holds(Call("Delete"), "delete", user))
    /\ Observe({})
-----------------------------------------------------------------------------
(***************************************************************************)
(* The writes, which may fail.                                             *)
(***************************************************************************)
\* users.email is unique: of two registrations one is refused here.
CreateUser(r) ==
    LET q == req[r]
        u == Registered(lastId + 1, q.password)
    IN
    /\ q.pc = "create"
    /\ \/ /\ ~Exists
          /\ lastId < MaxIds
          /\ lastId' = lastId + 1
          /\ user' = u
          /\ Step(r, Holds(q, "createToken", u))
       \/ Answer(r) /\ UNCHANGED <<lastId, user>>
    /\ UNCHANGED <<now, token, uses>>
    /\ Observe({})

\* The foreign key wants the user to exist.  (Register drops an error here.)
CreateToken(r) ==
    LET q == req[r] IN
    /\ q.pc = "createToken"
    /\ \/ \E t \in Tokens :
             /\ token[t].kind = "none"
             /\ user.id = q.copy.id
             /\ token' = [token EXCEPT ![t] =
                    [kind |-> Kind(q.op), user |-> q.copy.id,
                     expires |-> now + TTL(Kind(q.op)), used |-> FALSE]]
       \/ UNCHANGED token
    /\ Answer(r)
    /\ UNCHANGED <<now, lastId, user, uses>>
    /\ Observe({})

\* Save updates the row with the key it holds; where there is none any more it
\* inserts one, unless another row has the address.
CanSave(u) == user.id \in {0, u.id}

Saved(q) == IF q.op \in TokenOps THEN Goto(q, "saveToken") ELSE Idle

Held(q) == {t \in Tokens : Uses(q, t)}
Often   == [n \in 0..2 |-> IF n = 0 THEN 1 ELSE 2]

\* An error may also hide a write that was committed, and then VerifyEmail and
\* ConfirmPasswordReset leave their token unused.
SaveUser(r) ==
    LET q == req[r] IN
    /\ q.pc = "saveUser"
    /\ \/ /\ CanSave(q.copy)
          /\ user' = q.copy
          /\ uses' = [t \in Tokens |-> IF Uses(q, t) THEN Often[uses[t]] ELSE uses[t]]
          /\ \/ Step(r, Saved(q)) /\ Observe({})
             \/ Answer(r) /\ Observe(Held(q))
       \/ Answer(r) /\ UNCHANGED <<user, uses>> /\ Observe({})
    /\ UNCHANGED <<now, lastId, token>>

Mutant_MarkAsUsed(tk) == tk
MarkAsUsed(tk) == [tk EXCEPT !.used = TRUE]

\* An error is dropped, and the token stays unused.
SaveToken(r) ==
    LET q == req[r] IN
    /\ q.pc = "saveToken"
    /\ Answer(r)
    /\ UNCHANGED <<now, lastId, user, uses>>
    /\ \/ /\ token' = [token EXCEPT ![q.token] = MarkAsUsed(@)]
          /\ Observe({})
       \/ UNCHANGED token /\ Observe({q.token})

\* A user with tokens is kept by their foreign keys.
Deletes(r) ==
    LET q == req[r] IN
    /\ q.pc = "delete"
    /\ \/ /\ \A t \in Tokens : token[t].user # q.copy.id
          /\ user' = IF user.id = q.copy.id THEN NoUser ELSE user
       \/ UNCHANGED user
    /\ Answer(r)
    /\ UNCHANGED <<now, lastId, token, uses>>
    /\ Observe({})

Handle(r) ==
    \/ \E p \in Passwords : Register(r, p)
    \/ \E p \in Passwords : Login(r, p)
    \/ \E op \in {"Resend", "RequestReset"} : AskForToken(r, op)
    \/ \E t \in Tokens : UseToken(r, "Verify", t, AnyPassword)
    \/ \E t \in Tokens, p \in Passwords : UseToken(r, "ConfirmReset", t, p)
    \/ GetTokenUser(r)
    \/ UpdateUser(r)
    \/ \E x \in Roles : UpdateUserRole(r, x)
    \/ \E s \in Targets : UpdateUserStatus(r, s)
    \/ DeleteUser(r)
    \/ CreateUser(r)
    \/ CreateToken(r)
    \/ SaveUser(r)
    \/ SaveToken(r)
    \/ Deletes(r)

Next == Tick \/ \E r \in Requests : Handle(r)

Spec == Init /\ [][Next]_vars
-----------------------------------------------------------------------------
\* Every variable has its type, keys are not above the sequence, a row to be
\* saved has a key, and a token belongs to the user (the foreign keys).
TypeOK ==
    /\ now \in Nat
    /\ lastId \in Nat
    /\ user \in User /\ user.id <= lastId
    /\ token \in [Tokens -> Token]
    /\ \A t \in Tokens : token[t].kind # "none" => token[t].user = user.id
    /\ req \in [Requests -> Request]
    /\ \A r \in Requests : req[r].pc \in {"saveUser", "delete"} => req[r].copy.id # 0
    /\ stale \in [Requests -> BOOLEAN]
    /\ uses \in [Tokens -> 0..2]
    /\ shared \subseteq Tokens

\* A verification or reset token changes an account once: VerifyEmail and
\* ConfirmPasswordReset refuse a used token, whatever other requests do.  Two
\* requests that hold the token at the same time, and a use whose write was
\* answered with an error, are the exceptions.
TokenWorksOnce == \A t \in Tokens : uses[t] <= 1 \/ t \in shared

\* The columns an operation is there to change.
Own(op) == CASE op \in {"Verify", "Status"} -> {"status"}
             [] op = "ConfirmReset" -> {"password"}
             [] op = "Role" -> {"role"}
             [] OTHER -> {}

\* A login, a profile, role or status update, a verification and a reset change
\* their own column of the account and leave the work of others alone, unless
\* the row was written between their read and their write: a block, a new
\* password, a role or a deletion is undone by nothing that began after it.
OnlyStaleCopiesUndo ==
    [][\A r \in Requests :
          req[r].pc = "saveUser" /\ req'[r].pc # "saveUser" /\ ~stale[r] =>
              \A c \in {"id", "status", "role", "password"} \ Own(req[r].op) :
                  user'[c] = user[c]]_vars
============================================================================
