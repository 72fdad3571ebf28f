-------------------------- MODULE UserAccount_proofs ------------------------
(***************************************************************************)
(* What holds of UserAccount for any number of requests, tokens, passwords *)
(* and roles and any life of the tokens: the types; a token changes the    *)
(* account once; only a row that was overtaken undoes the work of others.  *)
(***************************************************************************)
EXTENDS UserAccount, TLAPS

Columns == {"id", "status", "role", "password"}

\* What a request in flight has in memory: the row it will write has a key, and
\* unless it was overtaken it differs from the table in the request's own columns.
Carries(r) ==
    LET q == req[r] IN
    /\ q.copy.id <= lastId
    /\ q.pc = "getUser" => q.op \in TokenOps
    /\ q.pc \in {"createToken", "saveUser", "delete"} => q.copy.id # 0
    /\ q.pc = "saveUser" /\ ~stale[r] =>
          \A c \in Columns \ Own(q.op) : q.copy[c] = user[c]

\* The life of a token, as far as request q has brought it.
Spends(q, t) ==
    Uses(q, t) =>
        /\ token[t].kind # "none"
        /\ t \notin shared /\ q.pc \in {"getUser", "saveUser"} => uses[t] = 0

\* A token that had the row written is marked, or is about to be.
Marked(t) ==
    /\ uses[t] <= 1
    /\ uses[t] # 0 => \/ token[t].used
                      \/ \E r \in Requests : Uses(req[r], t) /\ req[r].pc = "saveToken"

Alone(t) == \A q, r \in Requests : Uses(req[q], t) /\ Uses(req[r], t) => q = r

TokensInv ==
    /\ \A t \in Tokens : token[t].kind # "none" => token[t].user # 0
    /\ \A t \in Tokens : token[t].kind = "none" => uses[t] = 0
    /\ \A t \in Tokens \ shared : Marked(t) /\ Alone(t)

Inv ==
    /\ TypeOK
    /\ TokensInv
    /\ \A r \in Requests : /\ Carries(r)
                           /\ \A t \in Tokens : Spends(req[r], t)

LEMMA Values ==
    /\ "User" \in Roles /\ AnyPassword \in Passwords /\ AnyToken \in Tokens
    /\ NoUser \in User /\ NoUser.id = 0
    /\ VerifyTTL \in Nat /\ ResetTTL \in Nat /\ MaxIds \in Nat
<1>1. AnyPassword \in Passwords /\ AnyToken \in Tokens
  BY AccountAssumption DEF AnyPassword, AnyToken
<1>. QED
  BY <1>1, AccountAssumption DEF NoUser, User, Statuses

LEMMA IdleFacts ==
    /\ Idle \in Request /\ Idle.pc = "idle" /\ Idle.op = "none" /\ Idle.copy = NoUser
    /\ \A t \in Tokens : ~Uses(Idle, t)
  BY Values DEF Idle, Request, Uses, TokenOps

LEMMA InitInv == Init => Inv
<1>. SUFFICES ASSUME Init PROVE Inv
  OBVIOUS
<1>. USE Values, IdleFacts DEF Init
<1>1. /\ \A t \in Tokens : token[t] = NoToken /\ uses[t] = 0
      /\ \A r \in Requests : req[r] = Idle
  OBVIOUS
<1>2. TypeOK
  <2>1. token \in [Tokens -> Token]
    BY DEF NoToken, Token
  <2>2. req \in [Requests -> Request] /\ stale \in [Requests -> BOOLEAN]
    OBVIOUS
  <2>. QED
    BY <1>1, <2>1, <2>2 DEF TypeOK, NoToken
<1>3. TokensInv
  BY <1>1 DEF TokensInv, NoToken, Marked, Alone
<1>4. ASSUME NEW r \in Requests PROVE Carries(r) /\ \A t \in Tokens : Spends(req[r], t)
  <2>1. req[r] = Idle
    BY <1>1
  <2>2. Carries(r)
    BY <2>1 DEF Carries
  <2>3. \A t \in Tokens : ~Uses(req[r], t)
    BY <2>1
  <2>. QED
    BY <2>2, <2>3 DEF Spends
<1>. QED
  BY <1>2, <1>3, <1>4 DEF Inv

LEMMA Turn ==
    ASSUME TypeOK, NEW r \in Requests, NEW new \in Request, Step(r, new)
    PROVE  /\ req' \in [Requests -> Request]
           /\ req'[r] = new
           /\ \A q \in Requests \ {r} : req'[q] = req[q]
  BY DEF TypeOK, Step

\* What Observe writes down.
LEMMA Histories ==
    ASSUME TypeOK, NEW failed \in SUBSET Tokens, Observe(failed)
    PROVE  /\ stale' \in [Requests -> BOOLEAN]
           /\ shared' \subseteq Tokens /\ shared \subseteq shared' /\ failed \subseteq shared'
           /\ \A t \in Tokens \ shared' : Alone(t)'
           /\ \A q \in Requests : req'[q].pc = "saveUser" /\ ~stale'[q] => ~stale[q] /\ user' = user
<1>1. /\ shared' \subseteq Tokens /\ shared \subseteq shared' /\ failed \subseteq shared'
      /\ \A t \in Tokens \ shared' : Alone(t)'
  BY DEF Observe, TypeOK, Alone
<1>2. stale' = [q \in Requests |-> req'[q].pc = "saveUser" /\ (stale[q] \/ user' # user)]
  BY Zenon DEF Observe
<1>3. stale' \in [Requests -> BOOLEAN]
  BY <1>2, Zenon
<1>4. ASSUME NEW q \in Requests, req'[q].pc = "saveUser", ~stale'[q] PROVE ~stale[q] /\ user' = user
  BY <1>2, <1>4, Zenon
<1>. QED
  BY <1>1, <1>3, <1>4

\* A step of request r leaves the others what they hold.
LEMMA Frame ==
    ASSUME Inv, NEW r \in Requests, NEW new \in Request, Step(r, new),
           NEW failed \in SUBSET Tokens, Observe(failed),
           now' \in Nat, lastId' \in Nat, lastId <= lastId',
           user' \in User, user'.id <= lastId',
           token' \in [Tokens -> Token], uses' \in [Tokens -> 0..2],
           \A t \in Tokens :
              /\ token[t].kind # "none" => token'[t].kind # "none"
              /\ token'[t].kind # "none" => token'[t].user # 0 /\ token'[t].user = user'.id
              /\ token'[t].kind = "none" => uses'[t] = 0
              /\ uses'[t] = uses[t] \/ Uses(req[r], t)
              /\ Uses(new, t) => /\ token'[t].kind # "none"
                                 /\ t \notin shared' /\ new.pc \in {"getUser", "saveUser"} =>
                                       uses'[t] = 0,
           \A t \in Tokens \ shared' : Marked(t)',
           new.copy.id <= lastId',
           new.pc = "getUser" => new.op \in TokenOps,
           new.pc \in {"createToken", "saveUser", "delete"} => new.copy.id # 0,
           new.pc = "saveUser" /\ ~stale'[r] =>
              \A c \in Columns \ Own(new.op) : new.copy[c] = user'[c]
    PROVE  Inv'
<1>. USE DEF Inv
<1>1. /\ req' \in [Requests -> Request]
      /\ req'[r] = new
      /\ \A q \in Requests \ {r} : req'[q] = req[q]
  BY Turn
<1>2. /\ stale' \in [Requests -> BOOLEAN]
      /\ shared' \subseteq Tokens /\ shared \subseteq shared'
      /\ \A t \in Tokens \ shared' : Alone(t)'
      /\ \A q \in Requests : req'[q].pc = "saveUser" /\ ~stale'[q] => ~stale[q] /\ user' = user
  BY Histories
<1>3. ASSUME NEW q \in Requests PROVE Carries(q)' /\ \A t \in Tokens : Spends(req[q], t)'
  <2>1. CASE q = r
    BY <2>1, <1>1 DEF Carries, Spends
  <2>2. CASE q # r
    <3>1. req'[q] = req[q] /\ Carries(q) /\ req[q] \in Request
      BY <2>2, <1>1 DEF TypeOK
    <3>2. Carries(q)'
      <4>1. req[q].copy.id \in Nat /\ lastId \in Nat
        BY <3>1 DEF Request, User, TypeOK
      <4>. QED
        BY <3>1, <4>1, <1>2 DEF Carries
    <3>3. ASSUME NEW t \in Tokens PROVE Spends(req[q], t)'
      <4>1. Spends(req[q], t) /\ (t \notin shared' => t \notin shared)
        BY <1>2
      <4>2. ASSUME t \notin shared', Uses(req[q], t) PROVE uses'[t] = uses[t]
        BY <4>1, <4>2, <2>2 DEF TokensInv, Alone
      <4>. QED
        BY <3>1, <4>1, <4>2 DEF Spends
    <3>. QED
      BY <3>2, <3>3
  <2>. QED
    BY <2>1, <2>2
<1>4. TypeOK'
  BY <1>1, <1>2, <1>3 DEF TypeOK, Carries
<1>5. TokensInv'
  BY <1>2 DEF TokensInv
<1>. QED
  BY <1>3, <1>4, <1>5

\* A request that holds no token, or only reads, disturbs no other's token.
LEMMA StillMarked ==
    ASSUME Inv, NEW r \in Requests, NEW new \in Request, Step(r, new),
           UNCHANGED uses, shared \subseteq shared', req[r].pc # "saveToken",
           \A t \in Tokens : token'[t] = token[t] \/ uses[t] = 0
    PROVE  \A t \in Tokens \ shared' : Marked(t)'
<1>1. \A q \in Requests \ {r} : req'[q] = req[q]
  BY Turn DEF Inv
<1>. QED
  BY <1>1 DEF Inv, TokensInv, Marked

\* The steps that only read, and change nothing but the request.
LEMMA ReadFrame ==
    ASSUME Inv, NEW r \in Requests, NEW new \in Request, Step(r, new),
           NEW failed \in SUBSET Tokens, Observe(failed),
           UNCHANGED <<now, lastId, user, token, uses>>,
           req[r].pc # "saveToken",
           \A t \in Tokens : Uses(new, t) =>
              /\ token[t].kind # "none"
              /\ t \notin shared' /\ new.pc \in {"getUser", "saveUser"} => uses[t] = 0,
           new.copy.id <= lastId,
           new.pc = "getUser" => new.op \in TokenOps,
           new.pc \in {"createToken", "saveUser", "delete"} => new.copy.id # 0,
           new.pc = "saveUser" => \A c \in Columns \ Own(new.op) : new.copy[c] = user[c]
    PROVE  Inv'
<1>1. shared \subseteq shared'
  BY Histories DEF Inv
<1>2. \A t \in Tokens \ shared' : Marked(t)'
  BY <1>1, StillMarked
<1>3. /\ now' \in Nat /\ lastId' \in Nat /\ lastId <= lastId'
      /\ user' \in User /\ user'.id <= lastId'
      /\ token' \in [Tokens -> Token] /\ uses' \in [Tokens -> 0..2]
      /\ \A t \in Tokens :
              /\ token[t].kind # "none" => token'[t].kind # "none"
              /\ token'[t].kind # "none" => token'[t].user # 0 /\ token'[t].user = user'.id
              /\ token'[t].kind = "none" => uses'[t] = 0
              /\ uses'[t] = uses[t]
  BY DEF Inv, TypeOK, TokensInv
<1>. QED
  BY <1>2, <1>3, Frame

LEMMA RowFacts ==
    ASSUME Inv
    PROVE  /\ user \in User /\ user.id \in Nat /\ user.id <= lastId /\ lastId \in Nat
           /\ user.status \in Statuses /\ user.role \in Roles /\ user.password \in Passwords
           /\ NoUser.id <= lastId
  BY Values DEF Inv, TypeOK, User

\* The requests that read a user and hold him.
LEMMA HoldStep ==
    ASSUME Inv, NEW r \in Requests, NEW q \in Request, NEW u \in User,
           NEW pc \in {"saveUser", "createToken", "delete"},
           Begins(r), Observe({}), Exists, q.op \notin TokenOps,
           u.id = user.id, \A c \in Columns \ Own(q.op) : u[c] = user[c],
           Step(r, Holds(q, pc, u))
    PROVE  Inv'
<1>. DEFINE new == Holds(q, pc, u)
<1>1. new \in Request /\ new.pc = pc /\ new.copy = u /\ new.op = q.op
  BY DEF Holds, Request
<1>2. \A t \in Tokens : ~Uses(new, t)
  BY <1>1 DEF Uses
<1>3. u.id <= lastId /\ u.id # 0
  BY RowFacts DEF Exists
<1>. HIDE DEF new
<1>4. Step(r, new)
  BY DEF new
<1>5. req[r].pc = "idle" /\ UNCHANGED <<now, lastId, user, token, uses>>
  BY DEF Begins
<1>. QED
  BY <1>1, <1>2, <1>3, <1>4, <1>5, ReadFrame

LEMMA CallFacts ==
    ASSUME NEW op \in Ops
    PROVE  /\ Call(op) \in Request /\ Call(op).op = op /\ Call(op).copy = NoUser
           /\ \A p \in Passwords : LET q == [Call(op) EXCEPT !.password = p]
                                   IN  q \in Request /\ q.op = op /\ q.copy = NoUser
  BY IdleFacts DEF Call, Request

LEMMA OwnFacts ==
    /\ Own("Status") = {"status"} /\ Own("Verify") = {"status"}
    /\ Own("ConfirmReset") = {"password"} /\ Own("Role") = {"role"}
  BY DEF Own

LEMMA LoginStep ==
    ASSUME Inv, NEW r \in Requests, NEW p \in Passwords, Login(r, p)
    PROVE  Inv'
<1>. DEFINE q == [Call("Login") EXCEPT !.password = p]
<1>1. q \in Request /\ q.op = "Login"
  BY CallFacts DEF Ops, SaveOps
<1>2. Begins(r) /\ Observe({}) /\ Exists /\ Step(r, Holds(q, "saveUser", user))
  BY DEF Login, MayLogin
<1>3. q.op \notin TokenOps
  BY <1>1 DEF TokenOps
<1>. HIDE DEF q
<1>. QED
  BY <1>1, <1>2, <1>3, RowFacts, HoldStep

LEMMA AskStep ==
    ASSUME Inv, NEW r \in Requests, NEW op \in {"Resend", "RequestReset"}, AskForToken(r, op)
    PROVE  Inv'
<1>1. Call(op) \in Request /\ Call(op).op = op
  BY CallFacts DEF Ops
<1>2. Begins(r) /\ Observe({}) /\ Exists /\ Step(r, Holds(Call(op), "createToken", user))
  BY DEF AskForToken
<1>3. Call(op).op \notin TokenOps
  BY <1>1 DEF TokenOps
<1>. QED
  BY <1>1, <1>2, <1>3, RowFacts, HoldStep

LEMMA DeleteStep ==
    ASSUME Inv, NEW r \in Requests, DeleteUser(r)
    PROVE  Inv'
<1>1. Call("Delete") \in Request /\ Call("Delete").op = "Delete"
  BY CallFacts DEF Ops
<1>2. Begins(r) /\ Observe({}) /\ Exists /\ Step(r, Holds(Call("Delete"), "delete", user))
  BY DEF DeleteUser
<1>3. Call("Delete").op \notin TokenOps
  BY <1>1 DEF TokenOps
<1>. QED
  BY <1>1, <1>2, <1>3, RowFacts, HoldStep

LEMMA UpdateStep ==
    ASSUME Inv, NEW r \in Requests, NEW op \in {"UpdateUser", "Role", "Status"}, NEW u \in User,
           u.id = user.id, \A c \in Columns \ Own(op) : u[c] = user[c], Update(r, op, u)
    PROVE  Inv'
<1>1. Call(op) \in Request /\ Call(op).op = op
  BY CallFacts DEF Ops, SaveOps
<1>2. Begins(r) /\ Observe({}) /\ Exists /\ Step(r, Holds(Call(op), "saveUser", u))
  BY DEF Update
<1>3. Call(op).op \notin TokenOps
  BY <1>1 DEF TokenOps
<1>. QED
  BY <1>1, <1>2, <1>3, HoldStep

LEMMA UpdateSteps ==
    ASSUME Inv, NEW r \in Requests,
           \/ UpdateUser(r)
           \/ \E x \in Roles : UpdateUserRole(r, x)
           \/ \E s \in Targets : UpdateUserStatus(r, s)
    PROVE  Inv'
<1>1. CASE UpdateUser(r)
  BY <1>1, RowFacts, UpdateStep DEF UpdateUser
<1>2. ASSUME NEW x \in Roles, UpdateUserRole(r, x) PROVE Inv'
  <2>. DEFINE u == [user EXCEPT !.role = x]
  <2>1. u \in User /\ u.id = user.id /\ \A c \in Columns \ {"role"} : u[c] = user[c]
    BY RowFacts DEF User, Columns
  <2>2. Update(r, "Role", u)
    BY <1>2 DEF UpdateUserRole
  <2>. HIDE DEF u
  <2>. QED
    BY <2>1, <2>2, OwnFacts, UpdateStep
<1>3. ASSUME NEW s \in Targets, UpdateUserStatus(r, s) PROVE Inv'
  <2>. DEFINE u == [user EXCEPT !.status = s]
  <2>1. u \in User /\ u.id = user.id /\ \A c \in Columns \ {"status"} : u[c] = user[c]
    BY RowFacts, AccountAssumption DEF User, Columns
  <2>2. Update(r, "Status", u)
    BY <1>3 DEF UpdateUserStatus
  <2>. HIDE DEF u
  <2>. QED
    BY <2>1, <2>2, OwnFacts, UpdateStep
<1>. QED
  BY <1>1, <1>2, <1>3

LEMMA RegisterStep ==
    ASSUME Inv, NEW r \in Requests, NEW p \in Passwords, Register(r, p)
    PROVE  Inv'
<1>. DEFINE q == [Call("Register") EXCEPT !.password = p]
            new == Goto(q, "create")
<1>1. q \in Request /\ q.op = "Register" /\ q.copy = NoUser
  BY CallFacts DEF Ops
<1>. HIDE DEF q
<1>2. new \in Request /\ new.pc = "create" /\ new.op = "Register" /\ new.copy = NoUser
  BY <1>1 DEF Goto, Request
<1>3. \A t \in Tokens : ~Uses(new, t)
  BY <1>2 DEF Uses, TokenOps
<1>4. Step(r, new) /\ Begins(r) /\ Observe({})
  BY DEF Register, q
<1>. HIDE DEF new
<1>5. req[r].pc = "idle" /\ UNCHANGED <<now, lastId, user, token, uses>>
  BY <1>4 DEF Begins
<1>. QED
  BY <1>2, <1>3, <1>4, <1>5, RowFacts, ReadFrame

\* The check of the token finds that nobody has used it: whoever had would hold it
\* still, and then the two of them share it.
LEMMA UseStep ==
    ASSUME Inv, NEW r \in Requests, NEW op \in TokenOps, NEW t \in Tokens, NEW p \in Passwords,
           UseToken(r, op, t, p)
    PROVE  Inv'
<1>. USE DEF Inv
<1>. DEFINE q == [Call(op) EXCEPT !.token = t, !.password = p]
            new == Goto(q, "getUser")
<1>1. Call(op) \in Request /\ Call(op).op = op /\ Call(op).copy = NoUser
  BY CallFacts DEF Ops, SaveOps
<1>2. new \in Request /\ new.pc = "getUser" /\ new.op = op /\ new.copy = NoUser /\ new.token = t
  BY <1>1 DEF Goto, Request
<1>3. Step(r, new) /\ Begins(r) /\ Observe({}) /\ Valid(t, Kind(op))
  BY DEF UseToken
<1>. HIDE DEF new
<1>4. req[r].pc = "idle" /\ UNCHANGED <<now, lastId, user, token, uses>>
  BY <1>3 DEF Begins
<1>5. token[t].kind # "none" /\ ~token[t].used
  BY <1>3 DEF Valid, Kind
<1>6. ASSUME t \notin shared' PROVE uses[t] = 0
  <2>1. /\ req'[r] = new /\ \A x \in Requests \ {r} : req'[x] = req[x]
        /\ shared \subseteq shared' /\ \A x \in Tokens \ shared' : Alone(x)'
    BY <1>2, <1>3, Turn, Histories
  <2>2. Uses(req'[r], t)
    BY <2>1, <1>2 DEF Uses
  <2>3. ASSUME NEW x \in Requests, Uses(req[x], t), req[x].pc = "saveToken" PROVE FALSE
    <3>1. x # r
      BY <2>3, <1>4
    <3>2. Uses(req'[x], t)
      BY <3>1, <2>1, <2>3
    <3>. QED
      BY <3>1, <3>2, <2>1, <2>2, <1>6 DEF Alone
  <2>. QED
    BY <2>1, <2>3, <1>5, <1>6 DEF TokensInv, Marked
<1>7. \A x \in Tokens : Uses(new, x) => x = t
  BY <1>2 DEF Uses
<1>. QED
  BY <1>2, <1>3, <1>4, <1>5, <1>6, <1>7, RowFacts, ReadFrame

LEMMA GetStep ==
    ASSUME Inv, NEW r \in Requests, GetTokenUser(r)
    PROVE  Inv'
<1>. USE DEF Inv
<1>1. /\ req[r].pc = "getUser" /\ req[r] \in Request /\ req[r].op \in TokenOps
      /\ req[r].password \in Passwords
      /\ UNCHANGED <<now, lastId, user, token, uses>> /\ Observe({})
  BY DEF GetTokenUser, TypeOK, Request, Carries
<1>2. CASE Exists /\ Step(r, Holds(req[r], "saveUser", Changed(req[r], user)))
  <2>. DEFINE u == Changed(req[r], user)
              new == Holds(req[r], "saveUser", u)
  <2>1. u \in User /\ u.id = user.id /\ \A c \in Columns \ Own(req[r].op) : u[c] = user[c]
    <3>1. CASE req[r].op = "Verify"
      <4>. DEFINE w == [user EXCEPT !.status = "Active"]
      <4>1. w \in User /\ w.id = user.id /\ \A c \in Columns \ {"status"} : w[c] = user[c]
        BY RowFacts DEF User, Columns, Statuses
      <4>2. u = w
        BY <3>1 DEF Changed
      <4>. HIDE DEF u, w
      <4>. QED
        BY <4>1, <4>2, <3>1, OwnFacts
    <3>2. CASE req[r].op = "ConfirmReset"
      <4>. DEFINE w == [user EXCEPT !.password = req[r].password]
      <4>1. w \in User /\ w.id = user.id /\ \A c \in Columns \ {"password"} : w[c] = user[c]
        BY <1>1, RowFacts DEF User, Columns
      <4>2. u = w
        BY <3>2 DEF Changed
      <4>. HIDE DEF u, w
      <4>. QED
        BY <4>1, <4>2, <3>2, OwnFacts
    <3>. QED
      BY <3>1, <3>2, <1>1 DEF TokenOps
  <2>. HIDE DEF u
  <2>2. /\ new \in Request /\ new.pc = "saveUser" /\ new.copy = u
        /\ new.op = req[r].op /\ new.token = req[r].token
    BY <1>1, <2>1 DEF Holds, Request
  <2>3. Step(r, new)
    BY <1>2 DEF u
  <2>. HIDE DEF new
  <2>4. shared \subseteq shared'
    BY <1>1, Histories
  <2>5. ASSUME NEW t \in Tokens, Uses(new, t)
        PROVE  token[t].kind # "none" /\ (t \notin shared' => uses[t] = 0)
    <3>1. Uses(req[r], t)
      BY <2>2, <2>5 DEF Uses
    <3>. QED
      BY <3>1, <2>4, <1>1 DEF Spends
  <2>6. u.id <= lastId /\ u.id # 0
    BY <1>2, <2>1, RowFacts DEF Exists
  <2>. QED
    BY <1>1, <2>1, <2>2, <2>3, <2>5, <2>6, ReadFrame
<1>3. CASE Answer(r)
  BY <1>1, <1>3, IdleFacts, RowFacts, ReadFrame DEF Answer
<1>. QED
  BY <1>2, <1>3 DEF GetTokenUser

\* The writes: who is answered holds nothing.
LEMMA AnswerFrame ==
    ASSUME Inv, NEW r \in Requests, Answer(r), NEW failed \in SUBSET Tokens, Observe(failed),
           UNCHANGED <<now, lastId, uses>>,
           user' \in User, user'.id <= lastId,
           token' \in [Tokens -> Token],
           \A t \in Tokens :
              /\ token[t].kind # "none" => token'[t].kind # "none"
              /\ token'[t].kind # "none" => token'[t].user # 0 /\ token'[t].user = user'.id,
           \A t \in Tokens \ shared' : Marked(t)'
    PROVE  Inv'
<1>1. /\ now' \in Nat /\ lastId' \in Nat /\ lastId <= lastId' /\ lastId' = lastId
      /\ uses' \in [Tokens -> 0..2]
      /\ \A t \in Tokens : uses'[t] = uses[t] /\ (token[t].kind = "none" => uses[t] = 0)
  BY DEF Inv, TypeOK, TokensInv
<1>2. Step(r, Idle)
  BY DEF Answer
<1>. QED
  BY <1>1, <1>2, IdleFacts, RowFacts, Frame

LEMMA CreateUserStep ==
    ASSUME Inv, NEW r \in Requests, CreateUser(r)
    PROVE  Inv'
<1>. USE DEF Inv
<1>1. /\ req[r].pc = "create" /\ req[r] \in Request /\ req[r].password \in Passwords
      /\ UNCHANGED <<now, token, uses>> /\ Observe({})
  BY DEF CreateUser, TypeOK, Request
<1>2. shared \subseteq shared'
  BY <1>1, Histories
<1>3. CASE Answer(r) /\ UNCHANGED <<lastId, user>>
  <2>1. \A t \in Tokens \ shared' : Marked(t)'
    BY <1>1, <1>2, <1>3, IdleFacts, StillMarked DEF Answer
  <2>. QED
    BY <1>1, <1>3, <2>1, RowFacts, AnswerFrame DEF TypeOK, TokensInv
<1>4. CASE /\ ~Exists
           /\ lastId' = lastId + 1
           /\ user' = Registered(lastId + 1, req[r].password)
           /\ Step(r, Holds(req[r], "createToken", Registered(lastId + 1, req[r].password)))
  <2>. DEFINE i == lastId + 1
              u == Registered(i, req[r].password)
              new == Holds(req[r], "createToken", u)
  <2>0. i \in Nat /\ i # 0
    BY DEF TypeOK
  <2>. HIDE DEF i
  <2>1. u \in User /\ u.id = i
    BY <1>1, <2>0, Values DEF Registered, User
  <2>. HIDE DEF u
  <2>2. new \in Request /\ new.pc = "createToken" /\ new.copy = u
        /\ new.op = req[r].op /\ new.token = req[r].token
    BY <1>1, <2>1 DEF Holds, Request
  <2>3. Step(r, new) /\ user' = u /\ lastId' = i
    BY <1>4 DEF u, i
  <2>. HIDE DEF new
  <2>4. \A t \in Tokens : token[t].kind = "none"
    BY <1>4 DEF Exists, TypeOK, TokensInv
  <2>5. \A t \in Tokens \ shared' : Marked(t)'
    BY <1>1, <1>2, <2>2, <2>3, StillMarked
  <2>6. \A t \in Tokens : ~Uses(new, t)
    <3>1. \A t \in Tokens : ~Uses(req[r], t)
      BY <2>4 DEF Spends
    <3>. QED
      BY <3>1, <2>2 DEF Uses
  <2>7. /\ now' \in Nat /\ lastId' \in Nat /\ lastId <= lastId' /\ user'.id <= lastId'
        /\ token' \in [Tokens -> Token] /\ uses' \in [Tokens -> 0..2]
        /\ u.id <= lastId' /\ u.id # 0
    BY <1>1, <2>0, <2>1, <2>3 DEF TypeOK, i
  <2>8. \A t \in Tokens : token'[t].kind = "none" /\ uses'[t] = uses[t] /\ uses[t] = 0
    BY <1>1, <2>4 DEF TokensInv
  <2>. QED
    BY <1>1, <2>1, <2>2, <2>3, <2>5, <2>6, <2>7, <2>8, Frame
<1>. QED
  BY <1>3, <1>4 DEF CreateUser

LEMMA CreateTokenStep ==
    ASSUME Inv, NEW r \in Requests, CreateToken(r)
    PROVE  Inv'
<1>. USE DEF Inv
<1>1. /\ req[r].pc = "createToken" /\ req[r] \in Request /\ Answer(r)
      /\ UNCHANGED <<now, lastId, user, uses>> /\ Observe({}) /\ req[r].copy.id # 0
  BY DEF CreateToken, TypeOK, Carries
<1>2. shared \subseteq shared'
  BY <1>1, Histories
<1>3. CASE UNCHANGED token
  <2>1. \A t \in Tokens \ shared' : Marked(t)'
    BY <1>1, <1>2, <1>3, IdleFacts, StillMarked DEF Answer
  <2>. QED
    BY <1>1, <1>3, <2>1, RowFacts, AnswerFrame DEF TypeOK, TokensInv
<1>4. ASSUME NEW t \in Tokens, token[t].kind = "none", user.id = req[r].copy.id,
             token' = [token EXCEPT ![t] =
                    [kind |-> Kind(req[r].op), user |-> req[r].copy.id,
                     expires |-> now + TTL(Kind(req[r].op)), used |-> FALSE]]
      PROVE  Inv'
  <2>. DEFINE tk == [kind |-> Kind(req[r].op), user |-> req[r].copy.id,
                     expires |-> now + TTL(Kind(req[r].op)), used |-> FALSE]
  <2>1. Kind(req[r].op) \in {"reset", "verify"} /\ now + TTL(Kind(req[r].op)) \in Nat
    BY Values DEF Kind, TTL, TypeOK
  <2>2. tk \in Token /\ tk.kind # "none" /\ tk.user = user.id /\ tk.user # 0
    BY <1>1, <1>4, <2>1, RowFacts DEF Token
  <2>. HIDE DEF tk
  <2>3. token' = [token EXCEPT ![t] = tk]
    BY <1>4 DEF tk
  <2>4. token' \in [Tokens -> Token] /\ token'[t] = tk /\ \A x \in Tokens \ {t} : token'[x] = token[x]
    BY <2>2, <2>3 DEF TypeOK
  <2>5. uses[t] = 0
    BY <1>4 DEF TokensInv
  <2>6. \A x \in Tokens \ shared' : Marked(x)'
    <3>1. \A x \in Tokens : token'[x] = token[x] \/ uses[x] = 0
      BY <2>4, <2>5
    <3>. QED
      BY <1>1, <1>2, <3>1, IdleFacts, StillMarked DEF Answer
  <2>7. \A x \in Tokens :
              /\ token[x].kind # "none" => token'[x].kind # "none"
              /\ token'[x].kind # "none" => token'[x].user # 0 /\ token'[x].user = user'.id
    BY <1>1, <2>2, <2>4 DEF TypeOK, TokensInv
  <2>. QED
    BY <1>1, <2>4, <2>6, <2>7, RowFacts, AnswerFrame
<1>. QED
  BY <1>3, <1>4 DEF CreateToken

LEMMA SaveUserStep ==
    ASSUME Inv, NEW r \in Requests, SaveUser(r)
    PROVE  Inv'
<1>. USE DEF Inv
<1>1. /\ req[r].pc = "saveUser" /\ req[r] \in Request /\ UNCHANGED <<now, lastId, token>>
      /\ req[r].copy \in User /\ req[r].copy.id # 0 /\ req[r].copy.id <= lastId
  BY DEF SaveUser, TypeOK, Request, Carries
<1>2. CASE Answer(r) /\ UNCHANGED <<user, uses>> /\ Observe({})
  <2>1. shared \subseteq shared'
    BY <1>2, Histories
  <2>2. \A t \in Tokens \ shared' : Marked(t)'
    BY <1>1, <1>2, <2>1, IdleFacts, StillMarked DEF Answer
  <2>. QED
    BY <1>1, <1>2, <2>2, RowFacts, AnswerFrame DEF TypeOK, TokensInv
<1>3. ASSUME CanSave(req[r].copy), user' = req[r].copy,
             uses' = [t \in Tokens |-> IF Uses(req[r], t) THEN Often[uses[t]] ELSE uses[t]],
             NEW failed \in SUBSET Tokens, Observe(failed),
             NEW new \in {Goto(req[r], "saveToken"), Idle}, Step(r, new),
             \A t \in Tokens : Uses(req[r], t) => t \in failed \/ new = Goto(req[r], "saveToken")
      PROVE  Inv'
  <2>1. /\ Goto(req[r], "saveToken") \in Request
        /\ Goto(req[r], "saveToken").pc = "saveToken"
        /\ Goto(req[r], "saveToken").op = req[r].op
        /\ Goto(req[r], "saveToken").token = req[r].token
        /\ Goto(req[r], "saveToken").copy = req[r].copy
    BY <1>1 DEF Goto, Request
  <2>2. new \in Request /\ new.pc \in {"saveToken", "idle"} /\ new.copy.id <= lastId
    BY <1>1, <2>1, IdleFacts, RowFacts
  <2>3. \A t \in Tokens : /\ Uses(new, t) => Uses(req[r], t)
                          /\ Uses(req[r], t) => \/ t \in failed
                                                \/ Uses(new, t) /\ new.pc = "saveToken"
    BY <1>3, <2>1, IdleFacts DEF Uses
  <2>4. /\ req'[r] = new /\ \A q \in Requests \ {r} : req'[q] = req[q]
        /\ shared \subseteq shared' /\ failed \subseteq shared'
    BY <1>3, <2>2, Turn, Histories
  <2>5. /\ uses' \in [Tokens -> 0..2]
        /\ \A t \in Tokens : /\ Uses(req[r], t) /\ uses[t] = 0 => uses'[t] = 1
                             /\ ~Uses(req[r], t) => uses'[t] = uses[t]
    BY <1>3 DEF TypeOK, Often
  <2>6. ASSUME NEW t \in Tokens \ shared' PROVE Marked(t)'
    <3>1. CASE Uses(req[r], t)
      <4>1. uses[t] = 0
        BY <1>1, <2>4, <3>1 DEF Spends
      <4>2. uses'[t] = 1
        BY <2>5, <3>1, <4>1
      <4>3. Uses(req'[r], t) /\ req'[r].pc = "saveToken"
        BY <2>3, <2>4, <3>1
      <4>. QED
        BY <4>2, <4>3 DEF Marked
    <3>2. CASE ~Uses(req[r], t)
      <4>1. Marked(t) /\ uses'[t] = uses[t] /\ token' = token
        BY <1>1, <2>4, <2>5, <3>2 DEF TokensInv
      <4>2. ASSUME NEW q \in Requests, Uses(req[q], t), req[q].pc = "saveToken"
            PROVE  Uses(req'[q], t) /\ req'[q].pc = "saveToken"
        BY <1>1, <2>4, <4>2
      <4>. QED
        BY <4>1, <4>2 DEF Marked
    <3>. QED
      BY <3>1, <3>2
  <2>7. /\ now' \in Nat /\ lastId' = lastId /\ lastId' \in Nat /\ lastId <= lastId'
        /\ user' \in User /\ user'.id <= lastId' /\ token' \in [Tokens -> Token]
    BY <1>1, <1>3 DEF TypeOK
  <2>8. \A t \in Tokens :
              /\ token[t].kind # "none" => token'[t].kind # "none"
              /\ token'[t].kind # "none" => token'[t].user # 0 /\ token'[t].user = user'.id
    BY <1>1, <1>3 DEF TypeOK, TokensInv, CanSave
  <2>9. \A t \in Tokens : /\ Uses(req[r], t) => token'[t].kind # "none"
                          /\ token'[t].kind = "none" => uses'[t] = 0
                          /\ uses'[t] = uses[t] \/ Uses(req[r], t)
                          /\ Uses(new, t) => token'[t].kind # "none"
    BY <1>1, <2>3, <2>5 DEF TokensInv, Spends
  <2>. QED
    BY <1>3, <2>2, <2>5, <2>6, <2>7, <2>8, <2>9, Frame
<1>4. CASE /\ CanSave(req[r].copy)
           /\ user' = req[r].copy
           /\ uses' = [t \in Tokens |-> IF Uses(req[r], t) THEN Often[uses[t]] ELSE uses[t]]
           /\ \/ Step(r, Saved(req[r])) /\ Observe({})
              \/ Answer(r) /\ Observe(Held(req[r]))
  <2>1. CASE Step(r, Saved(req[r])) /\ Observe({})
    <3>1. /\ Saved(req[r]) \in {Goto(req[r], "saveToken"), Idle}
          /\ \A t \in Tokens : Uses(req[r], t) => Saved(req[r]) = Goto(req[r], "saveToken")
      BY DEF Saved, Uses
    <3>. QED
      BY <1>3, <1>4, <2>1, <3>1
  <2>2. CASE Answer(r) /\ Observe(Held(req[r]))
    <3>1. Held(req[r]) \in SUBSET Tokens /\ \A t \in Tokens : Uses(req[r], t) => t \in Held(req[r])
      BY DEF Held
    <3>. QED
      BY <1>3, <1>4, <2>2, <3>1 DEF Answer
  <2>. QED
    BY <1>4, <2>1, <2>2
<1>. QED
  BY <1>2, <1>4 DEF SaveUser

LEMMA SaveTokenStep ==
    ASSUME Inv, NEW r \in Requests, SaveToken(r)
    PROVE  Inv'
<1>. USE DEF Inv
<1>1. /\ req[r].pc = "saveToken" /\ req[r] \in Request /\ req[r].token \in Tokens
      /\ Answer(r) /\ UNCHANGED <<now, lastId, user, uses>>
  BY DEF SaveToken, TypeOK, Request
<1>. DEFINE t == req[r].token
            tk == MarkAsUsed(token[t])
<1>2. tk \in Token /\ tk.kind = token[t].kind /\ tk.user = token[t].user /\ tk.used
  BY <1>1 DEF TypeOK, Token, MarkAsUsed
<1>. HIDE DEF tk
<1>3. PICK failed \in {{}, {t}} :
         /\ Observe(failed)
         /\ \/ token' = [token EXCEPT ![t] = tk]
            \/ UNCHANGED token /\ failed = {t}
  BY Zenon DEF SaveToken, tk
<1>4. /\ token' \in [Tokens -> Token] /\ token'[t] \in {tk, token[t]}
      /\ \A x \in Tokens \ {t} : token'[x] = token[x]
      /\ failed = {t} \/ token'[t] = tk
  BY <1>1, <1>2, <1>3 DEF TypeOK
<1>5. /\ shared \subseteq shared' /\ failed \subseteq shared'
      /\ req'[r] = Idle /\ \A q \in Requests \ {r} : req'[q] = req[q]
  BY <1>1, <1>3, IdleFacts, Turn, Histories DEF Answer
<1>6. ASSUME NEW x \in Tokens \ shared' PROVE Marked(x)'
  <2>1. Marked(x) /\ uses'[x] = uses[x]
    BY <1>1, <1>5 DEF TokensInv
  <2>2. CASE x = t
    BY <1>1, <1>2, <1>4, <1>5, <2>1, <2>2 DEF Marked
  <2>3. CASE x # t
    <3>1. ~Uses(req[r], x) /\ token'[x] = token[x]
      BY <2>3, <1>4 DEF Uses
    <3>2. ASSUME NEW q \in Requests, Uses(req[q], x), req[q].pc = "saveToken"
          PROVE  Uses(req'[q], x) /\ req'[q].pc = "saveToken"
      BY <1>5, <3>1, <3>2
    <3>. QED
      BY <2>1, <3>1, <3>2 DEF Marked
  <2>. QED
    BY <2>2, <2>3
<1>7. \A x \in Tokens :
              /\ token[x].kind # "none" => token'[x].kind # "none"
              /\ token'[x].kind # "none" => token'[x].user # 0 /\ token'[x].user = user'.id
  <2>1. \A x \in Tokens : token'[x].kind = token[x].kind /\ token'[x].user = token[x].user
    BY <1>2, <1>4
  <2>. QED
    BY <1>1, <2>1 DEF TypeOK, TokensInv
<1>. QED
  BY <1>1, <1>3, <1>4, <1>6, <1>7, RowFacts, AnswerFrame

LEMMA DeletesStep ==
    ASSUME Inv, NEW r \in Requests, Deletes(r)
    PROVE  Inv'
<1>. USE DEF Inv
<1>1. /\ req[r].pc = "delete" /\ Answer(r) /\ UNCHANGED <<now, lastId, token, uses>> /\ Observe({})
  BY DEF Deletes
<1>2. /\ user' \in User /\ user'.id <= lastId
      /\ user' = user \/ \A t \in Tokens : token[t].kind = "none"
  BY RowFacts, Values DEF Deletes, TypeOK
<1>3. shared \subseteq shared'
  BY <1>1, Histories
<1>4. \A t \in Tokens \ shared' : Marked(t)'
  BY <1>1, <1>3, IdleFacts, StillMarked DEF Answer
<1>. QED
  BY <1>1, <1>2, <1>4, AnswerFrame DEF TypeOK, TokensInv

LEMMA TickStep ==
    ASSUME Inv, Tick
    PROVE  Inv'
<1>. USE DEF Inv
<1>1. UNCHANGED <<lastId, user, token, req, uses>> /\ Observe({}) /\ now' \in Nat
  BY DEF Tick, TypeOK
<1>2. /\ stale' \in [Requests -> BOOLEAN]
      /\ shared' \subseteq Tokens /\ shared \subseteq shared'
      /\ \A q \in Requests : req'[q].pc = "saveUser" /\ ~stale'[q] => ~stale[q]
  BY <1>1, Histories
<1>3. TypeOK'
  BY <1>1, <1>2 DEF TypeOK
<1>4. TokensInv'
  BY <1>1, <1>2 DEF TokensInv, Marked, Alone
<1>5. ASSUME NEW q \in Requests PROVE Carries(q)' /\ \A t \in Tokens : Spends(req[q], t)'
  BY <1>1, <1>2 DEF Carries, Spends
<1>. QED
  BY <1>3, <1>4, <1>5

LEMMA StepInv == Inv /\ [Next]_vars => Inv'
<1>. SUFFICES ASSUME Inv, [Next]_vars PROVE Inv'
  OBVIOUS
<1>1. ASSUME NEW r \in Requests, Handle(r) PROVE Inv'
  <2>1. ASSUME NEW t \in Tokens, UseToken(r, "Verify", t, AnyPassword) PROVE Inv'
    BY <2>1, Values, UseStep DEF TokenOps
  <2>2. ASSUME NEW t \in Tokens, NEW p \in Passwords, UseToken(r, "ConfirmReset", t, p) PROVE Inv'
    BY <2>2, UseStep DEF TokenOps
  <2>. QED
    BY <1>1, <2>1, <2>2, RegisterStep, LoginStep, AskStep, GetStep, UpdateSteps, DeleteStep,
       CreateUserStep, CreateTokenStep, SaveUserStep, SaveTokenStep, DeletesStep DEF Handle
<1>2. CASE UNCHANGED vars
  BY <1>2 DEF Inv, TypeOK, TokensInv, Marked, Alone, Carries, Spends, vars
<1>. QED
  BY <1>1, <1>2, TickStep DEF Next

LEMMA AlwaysInv == Spec => []Inv
<1>. QED
  BY InitInv, StepInv, PTL DEF Spec

\* Of the user's row, the token rows and the requests: the types, and that a token
\* belongs to the user that its foreign key names.
THEOREM AccountTypeCorrect == Spec => []TypeOK
<1>1. Inv => TypeOK
  BY DEF Inv
<1>. QED
  BY <1>1, AlwaysInv, PTL

\* However many requests and tokens there are: VerifyEmail and ConfirmPasswordReset
\* change the account once for a token, unless two of them hold it at a time or one
\* fails after its write.
THEOREM TokenIsSpentOnce == Spec => []TokenWorksOnce
<1>1. Inv => TokenWorksOnce
  BY DEF Inv, TokensInv, Marked, TokenWorksOnce
<1>. QED
  BY <1>1, AlwaysInv, PTL

\* Save writes back every column that a request read: it undoes the work of others
\* only when the row was written between the read and the write.
THEOREM OnlyOvertakenUndo == Spec => OnlyStaleCopiesUndo
<1>. DEFINE A == \A r \in Requests :
          req[r].pc = "saveUser" /\ req'[r].pc # "saveUser" /\ ~stale[r] =>
              \A c \in {"id", "status", "role", "password"} \ Own(req[r].op) :
                  user'[c] = user[c]
<1>1. Inv /\ [Next]_vars => [A]_vars
  <2>. SUFFICES ASSUME Inv, Next, NEW r \in Requests, req[r].pc = "saveUser",
                       req'[r].pc # "saveUser", ~stale[r],
                       NEW c \in Columns \ Own(req[r].op)
                PROVE  user'[c] = user[c]
    BY DEF Columns, vars
  <2>1. req[r].copy[c] = user[c]
    BY DEF Inv, Carries
  <2>2. CASE SaveUser(r)
    BY <2>1, <2>2 DEF SaveUser
  <2>3. CASE ~SaveUser(r)
    <3>1. ASSUME NEW q \in Requests, NEW new, Step(q, new), req[q].pc # "saveUser" PROVE FALSE
      <4>1. req \in [Requests -> Request]
        BY DEF Inv, TypeOK
      <4>. QED
        BY <3>1, <4>1 DEF Step
    <3>2. PICK q \in Requests : Handle(q)
      BY DEF Next, Tick
    <3>3. CASE SaveUser(q)
      <4>1. q # r /\ \E new : Step(q, new)
        BY <2>3, <3>3, Zenon DEF SaveUser, Answer
      <4>2. req'[r] = req[r]
        BY <4>1 DEF Step, Inv, TypeOK
      <4>. QED
        BY <4>2
    <3>4. CASE ~SaveUser(q)
      <4>1. req[q].pc # "saveUser" /\ \E new : Step(q, new)
        BY <3>2, <3>4, Zenon DEF Handle, Register, Login, AskForToken, UseToken, GetTokenUser,
           UpdateUser, UpdateUserRole, UpdateUserStatus, Update, DeleteUser, Begins,
           CreateUser, CreateToken, SaveToken, Deletes, Answer
      <4>. QED
        BY <3>1, <4>1
    <3>. QED
      BY <3>3, <3>4
  <2>. QED
    BY <2>2, <2>3
<1>. QED
  BY <1>1, AlwaysInv, PTL DEF Spec, OnlyStaleCopiesUndo
=============================================================================
