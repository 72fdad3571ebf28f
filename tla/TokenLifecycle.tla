--------------------------- MODULE TokenLifecycle ---------------------------
(***************************************************************************)
(* The JWT pairs of one user: login, refresh, rotation, revocation and     *)
(* logout (internal/handler/auth_handler.go with token_service.go,         *)
(* token_rotation_service.go and token_revocation_service.go) as seen by   *)
(* the devices whose cookies hold the tokens, and the tokens that the      *)
(* middleware admits (internal/middleware/auth.go).                        *)
(*                                                                         *)
(* A token is its claims: the role and the second of issue.  There is no   *)
(* random part, so two refresh tokens of the user with the same role and   *)
(* the same second are the same string.  Times are relative: a token has   *)
(* an age in ticks, a revocation the ticks it has left.  A token that has  *)
(* expired is NoToken: nothing tells the two apart.                        *)
(***************************************************************************)
EXTENDS Naturals, FiniteSets

CONSTANTS
    Devices,     \* cookie jars
    Requests,    \* requests that can be under way at a time
    Roles,
    AccessTTL,   \* JWT_ACCESS_EXPIRY in ticks
    RefreshTTL,  \* JWT_REFRESH_EXPIRY in ticks
    RevokeTTL,   \* the seven days for which a revocation is kept
    CrossDevice, \* bound: if FALSE, two devices holding tokens send one request
                 \* at a time, and none after something unusual (see calm)
    Watched      \* the role, any of them, whose last use is remembered

ASSUME TokenAssumption ==
    /\ AccessTTL \in Nat \ {0}
    /\ RefreshTTL \in Nat \ {0}
    /\ RevokeTTL \in Nat
    /\ CrossDevice \in BOOLEAN
    /\ AccessTTL <= RefreshTTL
    /\ RefreshTTL <= RevokeTTL   \* as by default; see RevokeToken

NoRole == "none"

ASSUME RoleAssumption == Watched \in Roles /\ NoRole \notin Roles

VARIABLES
    user,      \* role and status of the row
    jar,       \* the cookies of each device
    revoked,   \* revocation list in Redis: ticks left per refresh token
    req,       \* the requests
    last,      \* history: ticks since the user had role Watched and was not blocked
    spent,     \* history: the refresh tokens put on the revocation list
    clean,     \* history: no Redis command failed
    calm,      \* history: see CalmDeviceIsNotRevoked
    out        \* history: devices logged out with nothing under way

tokenVars == <<user, jar, revoked, req, last, spent, clean, calm, out>>

Token == [role : Roles, age : 0..(RefreshTTL - 1)]

NoToken == [role |-> NoRole, age |-> 0]

NoCookies == [access |-> NoToken, refresh |-> NoToken]

NoDevice == "none"

\* pc: next step; old: the token sent; new: the refresh token signed, which
\* also stands for the access token signed with it; set: the cookies of the
\* answer; late: old was spent when it was sent.
Idle == [pc |-> "idle", dev |-> NoDevice, old |-> NoToken, new |-> NoToken,
         set |-> "none", late |-> FALSE]

Statuses == {"Active", "Verified", "Other"}

Usable(status) == status \in {"Active", "Verified"}

Watching(u) == u.role = Watched /\ Usable(u.status)

\* How long after the user lost a role a token may still carry it.
MaxLag == RefreshTTL + AccessTTL - 2

Init ==
    /\ user \in [role : Roles, status : Statuses]
    /\ jar = [d \in Devices |-> NoCookies]
    /\ revoked = [t \in Token |-> 0]
    /\ req = [r \in Requests |-> Idle]
    /\ last = IF Watching(user) THEN 0 ELSE MaxLag + 1
    /\ spent = {}
    /\ clean = TRUE
    /\ calm = TRUE
    /\ out = {}
-----------------------------------------------------------------------------
(***************************************************************************)
(* Requests leave a device with the cookies it holds at that moment.       *)
(***************************************************************************)
Alone == \A q \in Requests : req[q].pc = "idle"

OnlyOneIn(d) ==
    /\ \A e \in Devices \ {d} : jar[e] = NoCookies
    /\ \A q \in Requests : req[q].dev \in {d, NoDevice}

MaySend(r, d) ==
    /\ req[r].pc = "idle"
    /\ CrossDevice \/ OnlyOneIn(d) \/ (Alone /\ calm)

Send(r, d, pc, tok) ==
    /\ MaySend(r, d)
    /\ tok # NoToken
    /\ calm' = (calm /\ Alone)
    /\ req' = [req EXCEPT ![r] = [Idle EXCEPT !.pc = pc, !.dev = d, !.old = tok,
                                              !.late = tok \in spent]]
    /\ UNCHANGED <<user, jar, revoked, last, spent, clean, out>>

SendRotate(r, d) == Send(r, d, "check", jar[d].refresh)

SendRevoke(r, d) == Send(r, d, "revoke", jar[d].refresh)

Finish(r) == req' = [req EXCEPT ![r] = Idle]

Step(r, pc) == req' = [req EXCEPT ![r].pc = pc]

Signed(role) == [role |-> role, age |-> 0]

\* A refresh token of the same claims is held or revoked already.
Exists(t) == t \in spent \/ \E d \in Devices : jar[d].refresh = t
-----------------------------------------------------------------------------
(***************************************************************************)
(* Login, RefreshToken, Logout, RotateToken and Revoke.  Of the first      *)
(* three, the first step looks at the request and the user only, and is    *)
(* taken as the request arrives; a refusal changes nothing.  The user is   *)
(* read and the tokens are signed in one step: a change of the user        *)
(* between the two is as good as one just after them.                      *)
(***************************************************************************)
Login(r, d) ==
    LET t == Signed(user.role) IN
    /\ MaySend(r, d)
    /\ user.status = "Active"
    /\ req' = [req EXCEPT ![r].pc = "answer", ![r].dev = d, ![r].set = "pair",
                          ![r].new = t]
    /\ calm' = (calm /\ Alone /\ ~Exists(t))
    /\ out' = out \ {d}
    /\ UNCHANGED <<user, jar, revoked, last, spent, clean>>

\* RefreshToken copies the claims of the refresh token; it reads no user.
ClaimedRole(t) == t.role

RefreshToken(r, d) ==
    /\ MaySend(r, d)
    /\ jar[d].refresh # NoToken
    /\ req' = [req EXCEPT ![r].pc = "answer", ![r].dev = d, ![r].set = "access",
                          ![r].new = Signed(ClaimedRole(jar[d].refresh))]
    /\ calm' = (calm /\ Alone)
    /\ UNCHANGED <<user, jar, revoked, last, spent, clean, out>>

\* An access token that has expired is refused, and the cookies stay.
Logout(r, d) ==
    /\ MaySend(r, d)
    /\ jar[d].access # NoToken
    /\ req' = [req EXCEPT ![r].pc = "answer", ![r].dev = d, ![r].set = "clear"]
    /\ calm' = (calm /\ Alone)
    /\ UNCHANGED <<user, jar, revoked, last, spent, clean, out>>

Mutant_IsTokenRevoked(t) == FALSE

IsTokenRevoked(t) == t # NoToken /\ revoked[t] > 0

\* The error of IsTokenRevoked is dropped, and its answer is then "no".
CheckRevoked(r) ==
    /\ req[r].pc = "check"
    /\ \/ /\ IF IsTokenRevoked(req[r].old) THEN Finish(r) ELSE Step(r, "rotate")
          /\ UNCHANGED <<clean, calm>>
       \/ /\ Step(r, "rotate")
          /\ clean' = FALSE
          /\ calm' = FALSE
    /\ UNCHANGED <<user, jar, revoked, last, spent, out>>

MayRotate(t) == t # NoToken /\ Usable(user.status)

Mutant_RotatedRole(t) == t.role

\* RotateToken takes the role of the row.
RotatedRole(t) == user.role

RotateToken(r) ==
    LET t == Signed(RotatedRole(req[r].old)) IN
    /\ req[r].pc = "rotate"
    /\ IF MayRotate(req[r].old)
       THEN /\ req' = [req EXCEPT ![r].pc = "revoke", ![r].set = "pair", ![r].new = t]
            /\ calm' = (calm /\ ~Exists(t))
       ELSE Finish(r) /\ UNCHANGED calm
    /\ UNCHANGED <<user, jar, revoked, last, spent, clean, out>>

RevocationTTL == RevokeTTL

\* RevokeToken, for RotateToken and for Revoke.  A failure is ignored by the
\* first and answered with an error by the second.
RevokeToken(r) ==
    /\ req[r].pc = "revoke"
    /\ req' = [req EXCEPT ![r].pc = "answer", ![r].old = NoToken, ![r].late = FALSE]
    /\ \/ /\ IF req[r].old \in Token
             THEN /\ revoked' = [revoked EXCEPT ![req[r].old] = RevocationTTL]
                  /\ spent' = spent \cup {req[r].old}
             ELSE UNCHANGED <<revoked, spent>>
          /\ calm' = (calm /\ req[r].set = "pair")
          /\ UNCHANGED clean
       \/ /\ clean' = FALSE
          /\ calm' = FALSE
          /\ UNCHANGED <<revoked, spent>>
    /\ UNCHANGED <<user, jar, last, out>>
-----------------------------------------------------------------------------
(***************************************************************************)
(* Answers, the administrator and time.                                    *)
(***************************************************************************)
Live(t, ttl) == IF t.age < ttl THEN t ELSE NoToken

Mutant_CookiesAccessOnly(c, set, t) ==
    CASE set = "pair" /\ c.refresh # NoToken -> [c EXCEPT !.access = Live(t, AccessTTL)]
      [] set = "pair"   -> [access |-> Live(t, AccessTTL), refresh |-> t]
      [] set = "access" -> [c EXCEPT !.access = Live(t, AccessTTL)]
      [] set = "clear"  -> NoCookies
      [] OTHER          -> c

Mutant_CookiesKeepRefresh(c, set, t) ==
    CASE set = "pair"   -> [access |-> Live(t, AccessTTL), refresh |-> t]
      [] set = "access" -> [c EXCEPT !.access = Live(t, AccessTTL)]
      [] set = "clear"  -> [c EXCEPT !.access = NoToken]
      [] OTHER          -> c

\* setAuthCookies, setAccessTokenCookie, the cookies that Logout clears.
Cookies(c, set, t) ==
    CASE set = "pair"   -> [access |-> Live(t, AccessTTL), refresh |-> t]
      [] set = "access" -> [c EXCEPT !.access = Live(t, AccessTTL)]
      [] set = "clear"  -> NoCookies
      [] OTHER          -> c

Receive(r) ==
    LET d == req[r].dev IN
    /\ req[r].pc = "answer"
    /\ jar' = [jar EXCEPT ![d] = Cookies(@, req[r].set, req[r].new)]
    /\ out' = IF /\ req[r].set = "clear"
                 /\ \A q \in Requests \ {r} : req[q].pc = "idle" \/ req[q].dev # d
              THEN out \cup {d} ELSE out
    /\ Finish(r)
    /\ UNCHANGED <<user, revoked, last, spent, clean, calm>>

\* The connection is gone before the answer arrives.
Lose(r) ==
    /\ req[r].pc = "answer"
    /\ calm' = FALSE
    /\ Finish(r)
    /\ UNCHANGED <<user, jar, revoked, last, spent, clean, out>>

\* UpdateUserRole, UpdateUserStatus and the like (see UserAccount).
UserChanges(u) ==
    /\ u # user
    /\ user' = u
    /\ last' = IF Watching(u) THEN 0 ELSE last
    /\ UNCHANGED <<jar, revoked, req, spent, clean, calm, out>>

Less(n) == IF n = 0 THEN 0 ELSE n - 1

Older(t, ttl) ==
    IF t.role = NoRole \/ t.age + 1 >= ttl THEN NoToken ELSE [t EXCEPT !.age = @ + 1]

TickRequest(q) ==
    [q EXCEPT !.old = Older(@, RefreshTTL), !.new = Older(@, RefreshTTL)]

\* A pair whose refresh token expired on the way leaves nothing to set.
Tick ==
    /\ jar' = [d \in Devices |-> [access  |-> Older(jar[d].access, AccessTTL),
                                  refresh |-> Older(jar[d].refresh, RefreshTTL)]]
    /\ revoked' = [t \in Token |-> IF t.age = 0 THEN 0
                                   ELSE Less(revoked[[t EXCEPT !.age = @ - 1]])]
    /\ req' = [r \in Requests |-> TickRequest(req[r])]
    /\ last' = IF Watching(user) THEN 0 ELSE IF last > MaxLag THEN last ELSE last + 1
    /\ spent' = {t \in Token : t.age > 0 /\ [t EXCEPT !.age = @ - 1] \in spent}
    /\ UNCHANGED <<user, clean, calm, out>>

Ask(r, d) ==
    \/ Login(r, d)
    \/ RefreshToken(r, d)
    \/ Logout(r, d)
    \/ SendRotate(r, d)
    \/ SendRevoke(r, d)

Serve(r) ==
    \/ CheckRevoked(r)
    \/ RotateToken(r)
    \/ RevokeToken(r)

Next ==
    \/ \E r \in Requests, d \in Devices : Ask(r, d)
    \/ \E r \in Requests : Serve(r)
    \/ \E r \in Requests : Receive(r)
    \/ \E r \in Requests : Lose(r)
    \/ \E u \in [role : Roles, status : Statuses] : UserChanges(u)
    \/ Tick

Spec == Init /\ [][Next]_tokenVars
-----------------------------------------------------------------------------
\* AuthMiddleware: what it lets in, and with which role.
Admits(d) == jar[d].access

RequestType ==
    [pc : {"idle", "check", "rotate", "revoke", "answer"},
     dev : Devices \cup {NoDevice}, old : Token \cup {NoToken}, new : Token \cup {NoToken},
     set : {"none", "access", "pair", "clear"}, late : BOOLEAN]

\* Every variable has its type; an access cookie is younger than AccessTTL.
TypeOK ==
    /\ user \in [role : Roles, status : Statuses]
    /\ jar \in [Devices -> [access : Token \cup {NoToken}, refresh : Token \cup {NoToken}]]
    /\ \A d \in Devices : jar[d].access.age < AccessTTL
    /\ revoked \in [Token -> 0..RevokeTTL]
    /\ req \in [Requests -> RequestType]
    /\ last \in 0..(MaxLag + 1)
    /\ spent \subseteq Token
    /\ clean \in BOOLEAN
    /\ calm \in BOOLEAN
    /\ out \subseteq Devices

\* The middleware trusts the role of a token and RefreshToken copies it, so a
\* demotion or a block takes its time; but it does take effect: a role that is
\* admitted is one that the user had, while not blocked, MaxLag ticks ago or
\* later, however often the tokens were refreshed and rotated meanwhile.
RoleNotOlderThanItsTokens ==
    \A d \in Devices : Admits(d).role = Watched => last <= MaxLag

\* A refresh token that was put on the revocation list is on it for as long as
\* it would otherwise be valid.
SpentStaysRevoked == \A t \in spent : revoked[t] > 0

\* Unless a Redis command failed, a refresh token that was on the revocation
\* list when the rotation was asked for is not rotated: only requests that
\* overlap rotate one token twice.
SpentNotRotated ==
    clean => \A r \in Requests :
        req[r].late => ~(req[r].pc = "revoke" /\ req[r].set = "pair")

\* What was revoked by a rotation stays revoked and is not rotated again.
SpentIsSpent == SpentStaysRevoked /\ SpentNotRotated

\* While requests come one at a time, every answer arrives, no command fails,
\* nobody asks for a revocation and no two refresh tokens of one role are signed
\* in the same second, a device never holds a refresh token that is revoked:
\* rotating on one device leaves the others logged in.
CalmDeviceIsNotRevoked ==
    calm /\ Alone => \A d \in Devices : ~IsTokenRevoked(jar[d].refresh)

\* A device that logged out while nothing else of it was under way holds no
\* token until it logs in: nothing that comes late logs it in again.
LoggedOutStaysOut == \A d \in out : jar[d] = NoCookies

\* "The old refresh token is automatically revoked" (API_USAGE_GUIDE.md:151):
\* a token on the revocation list gets its holder no access token.
RevokedTokenGetsNothing ==
    [][\A r \in Requests, d \in Devices :
         RefreshToken(r, d) => jar[d].refresh \notin spent]_tokenVars
=============================================================================
