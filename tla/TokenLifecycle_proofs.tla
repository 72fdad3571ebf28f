------------------------ MODULE TokenLifecycle_proofs -----------------------
(***************************************************************************)
(* What holds of TokenLifecycle for any number of devices, requests and    *)
(* roles and any expiry times: the types; a refresh token that was spent   *)
(* stays on the revocation list and is not rotated again; a role that is   *)
(* admitted is not older than its tokens; a device that logged out stays   *)
(* logged out; devices that take turns do not revoke each other's tokens.  *)
(***************************************************************************)
EXTENDS TokenLifecycle, TLAPS

MaybeToken == Token \cup {NoToken}

\* A spent token is on the list for the rest of its life.
LongEnough == \A t \in spent : revoked[t] + t.age >= RefreshTTL

\* A request that sent a spent token is refused at the check, or finds that the
\* token has expired meanwhile.
Heeds(q) ==
    q.late =>
        /\ q.pc = "check" => q.old \in spent \cup {NoToken}
        /\ q.pc = "rotate" => q.old = NoToken
        /\ q.pc = "revoke" => q.set # "pair"

\* A refresh token with the watched role is at least as old as the last time that
\* the user had it; an access token made of its claims was made while it was valid.
PairFresh(t) == t.role = Watched => last <= t.age

AccessFresh(t) == t.role = Watched => last <= RefreshTTL - 1 + t.age

Fresh(q) ==
    /\ q.set = "pair" => PairFresh(q.new)
    /\ q.set = "access" => AccessFresh(q.new)

Quiet(q) == q.pc = "idle" \/ q.dev \in Devices \ out

RolesInv ==
    /\ Watching(user) => last = 0
    /\ \A d \in Devices : PairFresh(jar[d].refresh) /\ AccessFresh(jar[d].access)

Inv ==
    /\ TypeOK
    /\ LongEnough
    /\ RolesInv
    /\ LoggedOutStaysOut
    /\ \A r \in Requests : /\ clean => Heeds(req[r])
                           /\ Fresh(req[r])
                           /\ Quiet(req[r])

LEMMA Numbers ==
    /\ AccessTTL \in Nat /\ AccessTTL >= 1 /\ AccessTTL <= RefreshTTL
    /\ RefreshTTL \in Nat /\ RefreshTTL >= 1 /\ RefreshTTL <= RevokeTTL /\ RevokeTTL \in Nat
    /\ MaxLag = RefreshTTL + AccessTTL - 2 /\ MaxLag \in Nat
    /\ Watched \in Roles /\ NoRole \notin Roles /\ Watched # NoRole
  BY TokenAssumption, RoleAssumption DEF MaxLag

LEMMA Tokens ==
    /\ \A t \in Token : t.role \in Roles /\ t.role # NoRole /\ t # NoToken
                        /\ t.age \in 0..(RefreshTTL - 1) /\ t.age \in Nat
    /\ NoToken.role = NoRole /\ NoToken.age = 0
    /\ \A t \in MaybeToken : t.age \in Nat /\ (t.role # NoRole => t \in Token)
  BY Numbers DEF Token, NoToken, MaybeToken

LEMMA Aging ==
    ASSUME NEW t \in MaybeToken, NEW ttl \in Nat, ttl >= 1, ttl <= RefreshTTL
    PROVE  /\ Older(t, ttl) \in MaybeToken
           /\ Older(t, ttl).age < ttl
           /\ Older(t, ttl).role # NoRole => /\ Older(t, ttl).role = t.role
                                             /\ Older(t, ttl).age = t.age + 1
<1>1. CASE t.role = NoRole \/ t.age + 1 >= ttl
  BY <1>1, Tokens DEF Older, MaybeToken
<1>2. CASE ~(t.role = NoRole \/ t.age + 1 >= ttl)
  <2>. DEFINE new == [t EXCEPT !.age = @ + 1]
  <2>1. t \in Token
    BY <1>2, Tokens
  <2>2. new \in Token /\ new.role = t.role /\ new.age = t.age + 1
    BY <1>2, <2>1, Numbers DEF Token
  <2>. HIDE DEF new
  <2>3. Older(t, ttl) = new
    BY <1>2 DEF Older, new
  <2>. QED
    BY <1>2, <2>1, <2>2, <2>3, Tokens DEF MaybeToken
<1>. QED
  BY <1>1, <1>2

\* A token that is a tick older was itself before.
LEMMA AgingBack ==
    ASSUME NEW t \in Token, Older(t, RefreshTTL) # NoToken
    PROVE  /\ Older(t, RefreshTTL) \in Token
           /\ Older(t, RefreshTTL).age > 0
           /\ [Older(t, RefreshTTL) EXCEPT !.age = @ - 1] = t
<1>1. Older(t, RefreshTTL) = [t EXCEPT !.age = @ + 1] /\ t.age + 1 < RefreshTTL
  BY Tokens, Numbers DEF Older
<1>2. PICK x \in Roles, n \in 0..(RefreshTTL - 1) : t = [role |-> x, age |-> n]
  BY DEF Token
<1>3. Older(t, RefreshTTL) = [role |-> x, age |-> n + 1] /\ n + 1 < RefreshTTL
  BY <1>1, <1>2
<1>4. n + 1 \in 0..(RefreshTTL - 1) /\ n + 1 > 0 /\ n + 1 - 1 = n
  BY <1>3, Numbers
<1>. QED
  BY <1>2, <1>3, <1>4 DEF Token

LEMMA YoungerType ==
    ASSUME NEW t \in Token, t.age > 0
    PROVE  /\ [t EXCEPT !.age = @ - 1] \in Token
           /\ [t EXCEPT !.age = @ - 1].age = t.age - 1
  BY Numbers DEF Token

LEMMA InitInv == Init => Inv
<1>. SUFFICES ASSUME Init PROVE Inv
  OBVIOUS
<1>. USE Numbers, Tokens DEF Init
<1>1. TypeOK
  BY DEF TypeOK, Idle, NoCookies, RequestType, NoDevice
<1>2. LongEnough /\ LoggedOutStaysOut
  BY DEF LongEnough, LoggedOutStaysOut
<1>3. RolesInv
  BY DEF RolesInv, PairFresh, AccessFresh, NoCookies
<1>4. \A r \in Requests : Heeds(req[r]) /\ Fresh(req[r]) /\ Quiet(req[r])
  BY DEF Heeds, Fresh, Quiet, Idle
<1>. QED
  BY <1>1, <1>2, <1>3, <1>4 DEF Inv

LEMMA Turn ==
    ASSUME TypeOK, NEW r \in Requests, NEW new \in RequestType, req' = [req EXCEPT ![r] = new]
    PROVE  /\ req' \in [Requests -> RequestType]
           /\ req'[r] = new
           /\ \A q \in Requests \ {r} : req'[q] = req[q]
  BY DEF TypeOK

\* Steps that change nothing but a request and the histories.
LEMMA Frame ==
    ASSUME Inv, NEW r \in Requests, NEW new \in RequestType, req' = [req EXCEPT ![r] = new],
           UNCHANGED <<user, jar, revoked, last, spent>>,
           clean' \in BOOLEAN, clean' => clean, calm' \in BOOLEAN, out' \subseteq out,
           clean' => Heeds(new), Fresh(new), new.pc = "idle" \/ new.dev \in Devices \ out'
    PROVE  Inv'
<1>. USE DEF Inv
<1>1. /\ req' \in [Requests -> RequestType]
      /\ req'[r] = new
      /\ \A q \in Requests \ {r} : req'[q] = req[q]
  BY Turn
<1>2. TypeOK'
  BY <1>1 DEF TypeOK
<1>3. LongEnough' /\ LoggedOutStaysOut'
  BY DEF LongEnough, LoggedOutStaysOut
<1>4. RolesInv'
  BY DEF RolesInv, PairFresh, AccessFresh, Watching
<1>5. ASSUME NEW q \in Requests
      PROVE  (clean => Heeds(req[q]))' /\ Fresh(req[q])' /\ Quiet(req[q])'
  <2>1. CASE q = r
    BY <2>1, <1>1 DEF Heeds, Fresh, Quiet, PairFresh, AccessFresh
  <2>2. CASE q # r
    <3>1. req'[q] = req[q] /\ (clean => Heeds(req[q])) /\ Fresh(req[q]) /\ Quiet(req[q])
      BY <2>2, <1>1
    <3>. QED
      BY <3>1 DEF Heeds, Fresh, Quiet, PairFresh, AccessFresh
  <2>. QED
    BY <2>1, <2>2
<1>. QED
  BY <1>2, <1>3, <1>4, <1>5
LEMMA IdleFacts ==
    /\ Idle \in RequestType /\ Heeds(Idle) /\ Fresh(Idle)
    /\ Idle.pc = "idle" /\ Idle.set = "none"
  BY DEF Idle, RequestType, Heeds, Fresh

LEMMA SendStep ==
    ASSUME Inv, NEW r \in Requests, NEW d \in Devices, SendRotate(r, d) \/ SendRevoke(r, d)
    PROVE  Inv'
<1>. USE DEF Inv
<1>. DEFINE tok == jar[d].refresh
            pc == IF SendRotate(r, d) THEN "check" ELSE "revoke"
            late == tok \in spent
            new == [Idle EXCEPT !.pc = pc, !.dev = d, !.old = tok, !.late = late]
<1>1. pc \in {"check", "revoke"} /\ Send(r, d, pc, tok)
  BY DEF SendRotate, SendRevoke
<1>2. tok # NoToken /\ tok \in MaybeToken /\ tok.role # NoRole
  <2>1. tok # NoToken /\ tok \in MaybeToken
    BY <1>1 DEF Send, TypeOK, MaybeToken
  <2>. QED
    BY <2>1, Tokens DEF MaybeToken
<1>a. late \in BOOLEAN /\ (late => tok \in spent)
  OBVIOUS
<1>3. req' = [req EXCEPT ![r] = new]
  BY <1>1, Zenon DEF Send
<1>. HIDE DEF tok, pc, late
<1>4. /\ UNCHANGED <<user, jar, revoked, last, spent>>
      /\ clean' \in BOOLEAN /\ (clean' => clean) /\ calm' \in BOOLEAN /\ out' \subseteq out
  <2>1. clean' = clean /\ out' = out /\ calm' = (calm /\ Alone)
    BY <1>1, Zenon DEF Send
  <2>2. calm' \in BOOLEAN
    BY <2>1, Zenon
  <2>3. UNCHANGED <<user, jar, revoked, last, spent>>
    BY <1>1, Zenon DEF Send
  <2>. QED
    BY <2>1, <2>2, <2>3 DEF TypeOK
<1>5. /\ new \in RequestType /\ new.pc = pc /\ new.dev = d /\ new.old = tok
      /\ new.late = late /\ new.set = "none"
  BY <1>1, <1>2, <1>a, IdleFacts DEF RequestType, MaybeToken
<1>. HIDE DEF new
<1>6. Heeds(new)
  BY <1>1, <1>5, <1>a DEF Heeds
<1>7. Fresh(new)
  BY <1>5 DEF Fresh
<1>8. new.dev \in Devices \ out'
  <2>1. jar[d] # NoCookies
    BY <1>2 DEF NoCookies, tok
  <2>. QED
    BY <2>1, <1>4, <1>5 DEF LoggedOutStaysOut
<1>. QED
  BY <1>3, <1>4, <1>5, <1>6, <1>7, <1>8, Frame

\* A request that sends no refresh token is answered at once.
LEMMA AnswerStep ==
    ASSUME Inv, NEW r \in Requests, NEW d \in Devices,
           Login(r, d) \/ RefreshToken(r, d) \/ Logout(r, d)
    PROVE  Inv'
<1>. USE DEF Inv
<1>0. /\ user.role \in Roles /\ Signed(user.role) \in Token
      /\ Signed(user.role).role = user.role /\ Signed(user.role).age = 0
  BY Numbers DEF TypeOK, Signed, Token
<1>1. UNCHANGED <<user, jar, revoked, last, spent, clean>> /\ calm' \in BOOLEAN /\ clean \in BOOLEAN
  <2>1. UNCHANGED <<user, jar, revoked, last, spent, clean>>
    BY DEF Login, RefreshToken, Logout
  <2>2. calm' \in BOOLEAN
    BY Zenon DEF Login, RefreshToken, Logout
  <2>. QED
    BY <2>1, <2>2 DEF TypeOK
<1>2. req[r] \in RequestType
  BY DEF TypeOK
<1>3. CASE Login(r, d)
  <2>. DEFINE new == [req[r] EXCEPT !.pc = "answer", !.dev = d, !.set = "pair",
                                    !.new = Signed(user.role)]
  <2>1. req' = [req EXCEPT ![r] = new] /\ out' = out \ {d}
    BY <1>3 DEF Login
  <2>2. new \in RequestType /\ new.pc = "answer" /\ new.dev = d /\ new.set = "pair"
        /\ new.new = Signed(user.role)
    BY <1>0, <1>2 DEF RequestType
  <2>3. Heeds(new)
    BY <2>2 DEF Heeds
  <2>4. Watched = user.role => last = 0
    BY <1>3 DEF Login, RolesInv, Watching, Usable
  <2>5. Fresh(new)
    BY <1>0, <2>2, <2>4 DEF Fresh, PairFresh
  <2>. HIDE DEF new
  <2>6. out' \subseteq out /\ new.dev \in Devices \ out'
    BY <2>1, <2>2
  <2>. QED
    BY <1>1, <2>1, <2>2, <2>3, <2>5, <2>6, Frame
<1>4. CASE RefreshToken(r, d)
  <2>. DEFINE t == jar[d].refresh
              new == [req[r] EXCEPT !.pc = "answer", !.dev = d, !.set = "access",
                                    !.new = Signed(t.role)]
  <2>1. req' = [req EXCEPT ![r] = new] /\ out' = out /\ t # NoToken
    BY <1>4 DEF RefreshToken, ClaimedRole
  <2>2. t \in Token /\ Signed(t.role) \in Token /\ Signed(t.role).role = t.role
        /\ Signed(t.role).age = 0
    BY <2>1, Numbers DEF TypeOK, Signed, Token
  <2>3. new \in RequestType /\ new.pc = "answer" /\ new.dev = d /\ new.set = "access"
        /\ new.new = Signed(t.role)
    BY <2>2, <1>2 DEF RequestType
  <2>4. Heeds(new)
    BY <2>3 DEF Heeds
  <2>5. t.role = Watched => last <= t.age
    BY DEF RolesInv, PairFresh
  <2>6. Fresh(new)
    BY <2>2, <2>3, <2>5, Tokens, Numbers DEF Fresh, AccessFresh, TypeOK
  <2>7. d \in Devices \ out'
    BY <2>1 DEF LoggedOutStaysOut, NoCookies
  <2>. HIDE DEF new, t
  <2>. QED
    BY <1>1, <2>1, <2>3, <2>4, <2>6, <2>7, Frame
<1>5. CASE Logout(r, d)
  <2>. DEFINE new == [req[r] EXCEPT !.pc = "answer", !.dev = d, !.set = "clear"]
  <2>1. req' = [req EXCEPT ![r] = new] /\ out' = out /\ jar[d].access # NoToken
    BY <1>5 DEF Logout
  <2>2. new \in RequestType /\ new.pc = "answer" /\ new.dev = d /\ new.set = "clear"
    BY <1>2 DEF RequestType
  <2>3. Heeds(new) /\ Fresh(new)
    BY <2>2 DEF Heeds, Fresh
  <2>4. d \in Devices \ out'
    BY <2>1 DEF LoggedOutStaysOut, NoCookies
  <2>. HIDE DEF new
  <2>. QED
    BY <1>1, <2>1, <2>2, <2>3, <2>4, Frame
<1>. QED
  BY <1>3, <1>4, <1>5

LEMMA CheckStep ==
    ASSUME Inv, NEW r \in Requests, CheckRevoked(r)
    PROVE  Inv'
<1>. USE DEF Inv
<1>1. req[r].pc = "check" /\ req[r] \in RequestType /\ req[r].dev \in Devices \ out
  BY DEF CheckRevoked, TypeOK, Quiet
<1>2. /\ UNCHANGED <<user, jar, revoked, last, spent, out>>
      /\ clean' \in BOOLEAN /\ (clean' => clean) /\ calm' \in BOOLEAN
      /\ clean' => (Finish(r) \/ (Step(r, "rotate") /\ ~IsTokenRevoked(req[r].old)))
      /\ Finish(r) \/ Step(r, "rotate")
  <2>1. UNCHANGED <<user, jar, revoked, last, spent, out>>
    BY Zenon DEF CheckRevoked
  <2>2. clean \in BOOLEAN /\ calm \in BOOLEAN
    BY DEF TypeOK
  <2>3. CASE clean' = FALSE /\ calm' = FALSE /\ Step(r, "rotate")
    BY <2>1, <2>3, Zenon
  <2>4. CASE /\ IF IsTokenRevoked(req[r].old) THEN Finish(r) ELSE Step(r, "rotate")
             /\ UNCHANGED <<clean, calm>>
    BY <2>1, <2>2, <2>4, Zenon
  <2>. QED
    BY <2>3, <2>4, Zenon DEF CheckRevoked
<1>3. CASE Finish(r)
  BY <1>2, <1>3, IdleFacts, Frame DEF Finish
<1>4. CASE Step(r, "rotate") /\ (clean' => ~IsTokenRevoked(req[r].old))
  <2>. DEFINE new == [req[r] EXCEPT !.pc = "rotate"]
  <2>1. req' = [req EXCEPT ![r] = new]
    BY <1>4 DEF Step
  <2>2. new \in RequestType /\ new.pc = "rotate" /\ new.dev = req[r].dev /\ new.set = req[r].set
        /\ new.new = req[r].new /\ new.old = req[r].old /\ new.late = req[r].late
    BY <1>1 DEF RequestType
  <2>3. ASSUME clean' PROVE Heeds(new)
    <3>1. Heeds(req[r]) /\ ~IsTokenRevoked(req[r].old)
      BY <2>3, <1>2, <1>4
    <3>2. req[r].old \in spent => req[r].old = NoToken
      BY <3>1, Tokens, Numbers DEF IsTokenRevoked, LongEnough, TypeOK
    <3>. QED
      BY <3>1, <3>2, <2>2, <1>1 DEF Heeds
  <2>4. Fresh(new)
    BY <2>2 DEF Fresh
  <2>5. new.dev \in Devices \ out' /\ out' \subseteq out
    BY <2>2, <1>1, <1>2
  <2>. HIDE DEF new
  <2>. QED
    BY <1>2, <2>1, <2>2, <2>3, <2>4, <2>5, Frame
<1>. QED
  BY <1>2, <1>3, <1>4

LEMMA RotateStep ==
    ASSUME Inv, NEW r \in Requests, RotateToken(r)
    PROVE  Inv'
<1>. USE DEF Inv
<1>. DEFINE t == Signed(user.role)
<1>1. req[r].pc = "rotate" /\ req[r] \in RequestType /\ req[r].dev \in Devices \ out
  BY DEF RotateToken, TypeOK, Quiet
<1>2. UNCHANGED <<user, jar, revoked, last, spent, clean, out>> /\ clean \in BOOLEAN
  BY DEF RotateToken, TypeOK
<1>3. t \in Token /\ t.role = user.role /\ t.age = 0
  BY Numbers DEF TypeOK, Signed, Token
<1>4. CASE MayRotate(req[r].old)
  <2>. DEFINE new == [req[r] EXCEPT !.pc = "revoke", !.set = "pair", !.new = t]
  <2>1. req' = [req EXCEPT ![r] = new]
    BY <1>4 DEF RotateToken, RotatedRole
  <2>2. calm' \in BOOLEAN
    BY <1>4, Zenon DEF RotateToken
  <2>3. new \in RequestType /\ new.pc = "revoke" /\ new.dev = req[r].dev /\ new.set = "pair"
        /\ new.new = t /\ new.late = req[r].late
    BY <1>1, <1>3 DEF RequestType
  <2>4. ASSUME clean PROVE Heeds(new)
    BY <2>3, <2>4, <1>1, <1>4 DEF Heeds, MayRotate
  <2>5. user.role = Watched => last = 0
    BY <1>4 DEF MayRotate, RolesInv, Watching
  <2>6. Fresh(new)
    BY <1>3, <2>3, <2>5 DEF Fresh, PairFresh
  <2>7. new.dev \in Devices \ out' /\ out' \subseteq out
    BY <2>3, <1>1, <1>2
  <2>. HIDE DEF new
  <2>. QED
    BY <1>2, <2>1, <2>2, <2>3, <2>4, <2>6, <2>7, Frame
<1>5. CASE ~MayRotate(req[r].old)
  <2>1. Finish(r) /\ calm' = calm
    BY <1>5 DEF RotateToken
  <2>. QED
    BY <1>2, <2>1, IdleFacts, Frame DEF Finish, TypeOK
<1>. QED
  BY <1>4, <1>5

LEMMA LoseStep ==
    ASSUME Inv, NEW r \in Requests, Lose(r)
    PROVE  Inv'
<1>1. UNCHANGED <<user, jar, revoked, last, spent, clean, out>> /\ calm' = FALSE /\ Finish(r)
  BY Zenon DEF Lose
<1>2. clean \in BOOLEAN
  BY DEF Inv, TypeOK
<1>. QED
  BY <1>1, <1>2, IdleFacts, Frame DEF Finish
LEMMA RevokeStep ==
    ASSUME Inv, NEW r \in Requests, RevokeToken(r)
    PROVE  Inv'
<1>. USE DEF Inv
<1>. DEFINE t == req[r].old
            new == [req[r] EXCEPT !.pc = "answer", !.old = NoToken, !.late = FALSE]
<1>1. req[r].pc = "revoke" /\ req[r] \in RequestType /\ req[r].dev \in Devices \ out
  BY DEF RevokeToken, TypeOK, Quiet
<1>2. req' = [req EXCEPT ![r] = new] /\ UNCHANGED <<user, jar, last, out>>
  BY DEF RevokeToken
<1>3. new \in RequestType /\ new.pc = "answer" /\ new.dev = req[r].dev /\ new.set = req[r].set
      /\ new.new = req[r].new
  BY <1>1 DEF RequestType
<1>4. Heeds(new) /\ Fresh(new)
  BY <1>3 DEF Heeds, Fresh
<1>. HIDE DEF new
<1>5. CASE clean' = FALSE /\ calm' = FALSE /\ UNCHANGED <<revoked, spent>>
  <2>1. clean' \in BOOLEAN /\ (clean' => clean) /\ calm' \in BOOLEAN
    BY <1>5, Zenon
  <2>. QED
    BY <2>1, <1>1, <1>2, <1>3, <1>4, <1>5, Frame
<1>6. CASE /\ IF t \in Token
              THEN revoked' = [revoked EXCEPT ![t] = RevokeTTL] /\ spent' = spent \cup {t}
              ELSE UNCHANGED <<revoked, spent>>
           /\ calm' = (calm /\ req[r].set = "pair")
           /\ UNCHANGED clean
  <2>1. calm' \in BOOLEAN /\ clean' = clean
    BY <1>6, Zenon
  <2>2. /\ req' \in [Requests -> RequestType]
        /\ req'[r] = new
        /\ \A q \in Requests \ {r} : req'[q] = req[q]
    BY <1>2, <1>3, Turn
  <2>3. /\ revoked' \in [Token -> 0..RevokeTTL]
        /\ spent' \subseteq Token /\ spent \subseteq spent'
        /\ \A x \in spent' : revoked'[x] + x.age >= RefreshTTL
    <3>1. CASE t \in Token
      BY <3>1, <1>6, Numbers, Tokens DEF TypeOK, LongEnough
    <3>2. CASE t \notin Token
      BY <3>2, <1>6 DEF TypeOK, LongEnough
    <3>. QED
      BY <3>1, <3>2
  <2>4. TypeOK'
    BY <1>2, <2>1, <2>2, <2>3 DEF TypeOK
  <2>5. LongEnough' /\ LoggedOutStaysOut'
    BY <1>2, <2>3 DEF LongEnough, LoggedOutStaysOut
  <2>6. RolesInv'
    BY <1>2 DEF RolesInv, PairFresh, AccessFresh, Watching
  <2>7. ASSUME NEW q \in Requests
        PROVE  (clean => Heeds(req[q]))' /\ Fresh(req[q])' /\ Quiet(req[q])'
    <3>1. CASE q = r
      <4>1. /\ new.pc = "answer" /\ Fresh(new) /\ new.dev \in Devices \ out
        BY <1>1, <1>3, <1>4
      <4>. QED
        BY <3>1, <4>1, <1>2, <2>2 DEF Heeds, Fresh, Quiet, PairFresh, AccessFresh
    <3>2. CASE q # r
      <4>1. req'[q] = req[q] /\ (clean => Heeds(req[q])) /\ Fresh(req[q]) /\ Quiet(req[q])
        BY <3>2, <2>2
      <4>. QED
        BY <4>1, <1>2, <2>1, <2>3 DEF Heeds, Fresh, Quiet, PairFresh, AccessFresh
    <3>. QED
      BY <3>1, <3>2
  <2>. QED
    BY <2>4, <2>5, <2>6, <2>7
<1>. QED
  BY <1>5, <1>6, Zenon DEF RevokeToken, RevocationTTL

LEMMA ReceiveStep ==
    ASSUME Inv, NEW r \in Requests, Receive(r)
    PROVE  Inv'
<1>. USE DEF Inv
<1>. DEFINE d == req[r].dev
            q0 == req[r]
            set == Cookies(jar[d], q0.set, q0.new)
<1>1. /\ q0.pc = "answer" /\ q0 \in RequestType /\ d \in Devices \ out
      /\ jar' = [jar EXCEPT ![d] = set]
      /\ req' = [req EXCEPT ![r] = Idle]
      /\ UNCHANGED <<user, revoked, last, spent, clean, calm>>
      /\ out' = out \/ (/\ out' = out \cup {d} /\ q0.set = "clear"
                        /\ \A q \in Requests \ {r} : req[q].pc = "idle" \/ req[q].dev # d)
  BY DEF Receive, Finish, TypeOK, Quiet
<1>2. /\ req' \in [Requests -> RequestType]
      /\ req'[r] = Idle
      /\ \A q \in Requests \ {r} : req'[q] = req[q]
  BY <1>1, IdleFacts, Turn
<1>3. Live(q0.new, AccessTTL) \in MaybeToken /\ Live(q0.new, AccessTTL).age < AccessTTL
      /\ (Live(q0.new, AccessTTL).role # NoRole => Live(q0.new, AccessTTL) = q0.new)
  BY <1>1, Numbers, Tokens DEF Live, RequestType, MaybeToken
<1>4. d \in Devices => jar[d] \in [access : MaybeToken, refresh : MaybeToken]
  BY DEF TypeOK, MaybeToken
<1>5. d \in Devices => /\ set \in [access : MaybeToken, refresh : MaybeToken]
                       /\ set.access.age < AccessTTL
                       /\ PairFresh(set.refresh) /\ AccessFresh(set.access)
                       /\ q0.set = "clear" => set = NoCookies
  <2>. SUFFICES ASSUME d \in Devices
                PROVE  /\ set \in [access : MaybeToken, refresh : MaybeToken]
                       /\ set.access.age < AccessTTL
                       /\ PairFresh(set.refresh) /\ AccessFresh(set.access)
                       /\ q0.set = "clear" => set = NoCookies
    OBVIOUS
  <2>0. /\ PairFresh(jar[d].refresh) /\ AccessFresh(jar[d].access) /\ Fresh(q0)
        /\ jar[d].access.age < AccessTTL
        /\ q0.set \in {"none", "access", "pair", "clear"} /\ q0.new \in MaybeToken
    BY <1>1 DEF RolesInv, TypeOK, RequestType, MaybeToken
  <2>1. CASE q0.set = "pair"
    <3>. DEFINE live == Live(q0.new, AccessTTL)
                both == [access |-> live, refresh |-> q0.new]
    <3>1. set = both
      BY <2>1 DEF Cookies
    <3>2. PairFresh(q0.new) /\ AccessFresh(live)
      BY <2>0, <2>1, <1>3, Numbers, Tokens DEF Fresh, PairFresh, AccessFresh, TypeOK
    <3>3. both \in [access : MaybeToken, refresh : MaybeToken] /\ both.access = live
          /\ both.refresh = q0.new
      BY <2>0, <1>3
    <3>. HIDE DEF both, live, set
    <3>. QED
      BY <2>1, <3>1, <3>2, <3>3, <1>3 DEF live
  <2>2. CASE q0.set = "access"
    <3>. DEFINE live == Live(q0.new, AccessTTL)
                one == [jar[d] EXCEPT !.access = live]
    <3>1. set = one
      BY <2>2 DEF Cookies
    <3>2. AccessFresh(live)
      BY <2>0, <2>2, <1>3, Numbers DEF Fresh, AccessFresh
    <3>3. one \in [access : MaybeToken, refresh : MaybeToken] /\ one.access = live
          /\ one.refresh = jar[d].refresh
      BY <1>3, <1>4
    <3>. HIDE DEF one, live, set
    <3>. QED
      BY <2>0, <2>2, <3>1, <3>2, <3>3, <1>3 DEF live
  <2>3. CASE q0.set = "clear"
    <3>1. set = NoCookies
      BY <2>3 DEF Cookies
    <3>. HIDE DEF set
    <3>. QED
      BY <3>1, Tokens, Numbers DEF NoCookies, MaybeToken, PairFresh, AccessFresh
  <2>4. CASE q0.set = "none"
    <3>1. set = jar[d]
      BY <2>4 DEF Cookies
    <3>. HIDE DEF set
    <3>. QED
      BY <2>0, <2>4, <3>1, <1>4
  <2>. QED
    BY <2>0, <2>1, <2>2, <2>3, <2>4
<1>. HIDE DEF set
<1>6. /\ jar' \in [Devices -> [access : MaybeToken, refresh : MaybeToken]]
      /\ \A e \in Devices : jar'[e] = IF e = d THEN set ELSE jar[e]
  BY <1>1, <1>5 DEF TypeOK, MaybeToken
<1>7. out' \subseteq Devices /\ LoggedOutStaysOut'
  BY <1>1, <1>5, <1>6 DEF TypeOK, LoggedOutStaysOut
<1>8. TypeOK'
  BY <1>1, <1>2, <1>5, <1>6, <1>7 DEF TypeOK, MaybeToken
<1>9. LongEnough'
  BY <1>1 DEF LongEnough
<1>10. RolesInv'
  BY <1>1, <1>5, <1>6 DEF RolesInv, PairFresh, AccessFresh, Watching
<1>11. ASSUME NEW q \in Requests
       PROVE  (clean => Heeds(req[q]))' /\ Fresh(req[q])' /\ Quiet(req[q])'
  <2>1. CASE q = r
    BY <2>1, <1>2, IdleFacts DEF Heeds, Fresh, Quiet
  <2>2. CASE q # r
    <3>1. req'[q] = req[q] /\ (clean => Heeds(req[q])) /\ Fresh(req[q]) /\ Quiet(req[q])
      BY <2>2, <1>2
    <3>. QED
      BY <2>2, <3>1, <1>1 DEF Heeds, Fresh, Quiet, PairFresh, AccessFresh
  <2>. QED
    BY <2>1, <2>2
<1>. QED
  BY <1>7, <1>8, <1>9, <1>10, <1>11

LEMMA UserChangesStep ==
    ASSUME Inv, NEW u \in [role : Roles, status : Statuses], UserChanges(u)
    PROVE  Inv'
<1>. USE DEF Inv
<1>1. /\ user' = u /\ last' = (IF Watching(u) THEN 0 ELSE last)
      /\ UNCHANGED <<jar, revoked, req, spent, clean, calm, out>>
  BY DEF UserChanges
<1>2. last' \in 0..(MaxLag + 1) /\ last' <= last
  BY <1>1, Numbers DEF TypeOK
<1>3. TypeOK'
  BY <1>1, <1>2 DEF TypeOK
<1>4. LongEnough' /\ LoggedOutStaysOut'
  BY <1>1 DEF LongEnough, LoggedOutStaysOut
<1>5. \A t \in MaybeToken : /\ PairFresh(t) => PairFresh(t)'
                            /\ AccessFresh(t) => AccessFresh(t)'
  BY <1>2, Tokens, Numbers DEF PairFresh, AccessFresh, TypeOK
<1>6. RolesInv'
  <2>1. Watching(user)' => last' = 0
    BY <1>1 DEF Watching
  <2>2. \A d \in Devices : jar'[d] = jar[d] /\ jar[d].refresh \in MaybeToken /\ jar[d].access \in MaybeToken
    BY <1>1 DEF TypeOK, MaybeToken
  <2>. QED
    BY <2>1, <2>2, <1>1, <1>5 DEF RolesInv, PairFresh, AccessFresh
<1>7. ASSUME NEW q \in Requests
      PROVE  (clean => Heeds(req[q]))' /\ Fresh(req[q])' /\ Quiet(req[q])'
  <2>1. req'[q] = req[q] /\ req[q].new \in MaybeToken
    BY <1>1 DEF TypeOK, RequestType, MaybeToken
  <2>. QED
    BY <2>1, <1>1, <1>5 DEF Heeds, Fresh, Quiet, PairFresh, AccessFresh
<1>. QED
  BY <1>3, <1>4, <1>6, <1>7

LEMMA TickStep ==
    ASSUME Inv, Tick
    PROVE  Inv'
<1>. USE DEF Inv
<1>. DEFINE cookies(d) == [access  |-> Older(jar[d].access, AccessTTL),
                           refresh |-> Older(jar[d].refresh, RefreshTTL)]
            older(r) == [req[r] EXCEPT !.old = Older(@, RefreshTTL), !.new = Older(@, RefreshTTL)]
            younger(t) == [t EXCEPT !.age = @ - 1]
<1>1. /\ jar' = [d \in Devices |-> cookies(d)]
      /\ revoked' = [t \in Token |-> IF t.age = 0 THEN 0 ELSE Less(revoked[younger(t)])]
      /\ req' = [r \in Requests |-> older(r)]
      /\ last' = (IF Watching(user) THEN 0 ELSE IF last > MaxLag THEN last ELSE last + 1)
      /\ spent' = {t \in Token : t.age > 0 /\ younger(t) \in spent}
      /\ UNCHANGED <<user, clean, calm, out>>
  BY DEF Tick, TickRequest
<1>2. ASSUME NEW d \in Devices
      PROVE  /\ cookies(d) \in [access : MaybeToken, refresh : MaybeToken]
             /\ cookies(d).access.age < AccessTTL
             /\ cookies(d).access = Older(jar[d].access, AccessTTL)
             /\ cookies(d).refresh = Older(jar[d].refresh, RefreshTTL)
  <2>1. jar[d].access \in MaybeToken /\ jar[d].refresh \in MaybeToken
    BY DEF TypeOK, MaybeToken
  <2>2. /\ Older(jar[d].access, AccessTTL) \in MaybeToken
        /\ Older(jar[d].access, AccessTTL).age < AccessTTL
        /\ Older(jar[d].refresh, RefreshTTL) \in MaybeToken
    BY <2>1, Aging, Numbers
  <2>. QED
    BY <2>2
<1>3. ASSUME NEW r \in Requests
      PROVE  /\ older(r) \in RequestType
             /\ older(r).old = Older(req[r].old, RefreshTTL)
             /\ older(r).new = Older(req[r].new, RefreshTTL)
             /\ older(r).pc = req[r].pc /\ older(r).dev = req[r].dev
             /\ older(r).set = req[r].set /\ older(r).late = req[r].late
  <2>1. req[r] \in RequestType /\ req[r].old \in MaybeToken /\ req[r].new \in MaybeToken
    BY DEF TypeOK, RequestType, MaybeToken
  <2>2. Older(req[r].old, RefreshTTL) \in MaybeToken /\ Older(req[r].new, RefreshTTL) \in MaybeToken
    BY <2>1, Aging, Numbers
  <2>. QED
    BY <2>1, <2>2 DEF RequestType, MaybeToken
<1>. HIDE DEF cookies, older
<1>4. \A t \in Token : t.age > 0 => younger(t) \in Token /\ younger(t).age = t.age - 1
  BY YoungerType
<1>5. revoked' \in [Token -> 0..RevokeTTL]
  <2>1. ASSUME NEW t \in Token, t.age # 0 PROVE Less(revoked[younger(t)]) \in 0..RevokeTTL
    BY <2>1, <1>4, Tokens, Numbers DEF TypeOK, Less
  <2>. HIDE DEF younger
  <2>. QED
    BY <1>1, <2>1, Numbers
<1>6. LongEnough'
  <2>. SUFFICES ASSUME NEW t \in spent' PROVE revoked'[t] + t.age >= RefreshTTL
    BY DEF LongEnough
  <2>1. t \in Token /\ t.age > 0 /\ younger(t) \in spent
    BY <1>1
  <2>2. revoked[younger(t)] + younger(t).age >= RefreshTTL /\ revoked[younger(t)] \in Nat
        /\ younger(t).age = t.age - 1 /\ t.age \in 0..(RefreshTTL - 1)
    <3>1. younger(t) \in Token /\ younger(t).age = t.age - 1 /\ t.age \in 0..(RefreshTTL - 1)
      BY <2>1, <1>4, Tokens
    <3>. HIDE DEF younger
    <3>2. revoked[younger(t)] \in Nat
      BY <3>1, Numbers DEF TypeOK
    <3>3. revoked[younger(t)] + younger(t).age >= RefreshTTL
      BY <2>1 DEF LongEnough
    <3>. QED
      BY <3>1, <3>2, <3>3
  <2>3. revoked'[t] = Less(revoked[younger(t)])
    BY <2>1, <1>1
  <2>. HIDE DEF younger
  <2>. QED
    BY <2>2, <2>3, Numbers DEF Less
<1>7. last' \in 0..(MaxLag + 1) /\ last' <= last + 1 /\ (Watching(user) => last' = 0)
  BY <1>1, Numbers DEF TypeOK
<1>8. TypeOK'
  <2>1. spent' \subseteq Token
    BY <1>1
  <2>2. jar' \in [Devices -> [access : MaybeToken, refresh : MaybeToken]]
        /\ \A d \in Devices : jar'[d].access.age < AccessTTL
    BY <1>1, <1>2
  <2>3. req' \in [Requests -> RequestType]
    BY <1>1, <1>3
  <2>. QED
    BY <1>1, <1>5, <1>7, <2>1, <2>2, <2>3 DEF TypeOK, MaybeToken
<1>9. LoggedOutStaysOut'
  <2>. SUFFICES ASSUME NEW d \in out PROVE jar'[d] = NoCookies
    BY <1>1 DEF LoggedOutStaysOut
  <2>1. d \in Devices /\ jar[d].access = NoToken /\ jar[d].refresh = NoToken
    BY DEF LoggedOutStaysOut, NoCookies, TypeOK
  <2>2. Older(NoToken, AccessTTL) = NoToken /\ Older(NoToken, RefreshTTL) = NoToken
    BY Tokens DEF Older
  <2>3. jar'[d] = [access |-> NoToken, refresh |-> NoToken]
    BY <2>1, <2>2, <1>1 DEF cookies
  <2>. QED
    BY <2>3 DEF NoCookies
<1>10. \A t \in MaybeToken, ttl \in {AccessTTL, RefreshTTL} :
          /\ PairFresh(t) => PairFresh(Older(t, ttl))'
          /\ AccessFresh(t) => AccessFresh(Older(t, ttl))'
  <2>. SUFFICES ASSUME NEW t \in MaybeToken, NEW ttl \in {AccessTTL, RefreshTTL}
                PROVE  /\ PairFresh(t) => PairFresh(Older(t, ttl))'
                       /\ AccessFresh(t) => AccessFresh(Older(t, ttl))'
    OBVIOUS
  <2>1. Older(t, ttl).role # NoRole => /\ Older(t, ttl).role = t.role
                                       /\ Older(t, ttl).age = t.age + 1
    BY Aging, Numbers
  <2>2. t.age \in Nat /\ last \in Nat /\ last' \in Nat
    BY <1>7, Tokens, Numbers DEF TypeOK
  <2>. QED
    BY <2>1, <2>2, <1>7, Numbers DEF PairFresh, AccessFresh
<1>11. RolesInv'
  <2>1. ASSUME NEW d \in Devices PROVE PairFresh(jar[d].refresh)' /\ AccessFresh(jar[d].access)'
    <3>1. jar[d].refresh \in MaybeToken /\ jar[d].access \in MaybeToken
          /\ PairFresh(jar[d].refresh) /\ AccessFresh(jar[d].access)
      BY DEF TypeOK, MaybeToken, RolesInv
    <3>2. /\ jar'[d].refresh = Older(jar[d].refresh, RefreshTTL)
          /\ jar'[d].access = Older(jar[d].access, AccessTTL)
      BY <1>1, <1>2
    <3>. QED
      BY <3>1, <3>2, <1>10 DEF PairFresh, AccessFresh
  <2>2. Watching(user)' => last' = 0
    BY <1>1, <1>7 DEF Watching
  <2>. QED
    BY <2>1, <2>2 DEF RolesInv
<1>12. ASSUME NEW r \in Requests
       PROVE  (clean => Heeds(req[r]))' /\ Fresh(req[r])' /\ Quiet(req[r])'
  <2>1. /\ (clean => Heeds(req[r])) /\ Fresh(req[r]) /\ Quiet(req[r])
        /\ req[r].old \in MaybeToken /\ req[r].new \in MaybeToken
    BY DEF TypeOK, RequestType, MaybeToken
  <2>2. /\ req'[r].old = Older(req[r].old, RefreshTTL)
        /\ req'[r].new = Older(req[r].new, RefreshTTL)
        /\ req'[r].pc = req[r].pc /\ req'[r].dev = req[r].dev
        /\ req'[r].set = req[r].set /\ req'[r].late = req[r].late
    BY <1>1, <1>3
  <2>3. Older(NoToken, RefreshTTL) = NoToken
    BY Tokens DEF Older
  <2>4. req[r].old \in spent => Older(req[r].old, RefreshTTL) \in spent' \cup {NoToken}
    <3>. SUFFICES ASSUME req[r].old \in spent, Older(req[r].old, RefreshTTL) # NoToken
                  PROVE  Older(req[r].old, RefreshTTL) \in spent'
      OBVIOUS
    <3>1. req[r].old \in Token
      BY DEF TypeOK
    <3>. QED
      BY <3>1, AgingBack, <1>1
  <2>5. (clean => Heeds(req[r]))'
    BY <2>1, <2>2, <2>3, <2>4, <1>1 DEF Heeds
  <2>6. Fresh(req[r])'
    BY <2>1, <2>2, <1>10 DEF Fresh, PairFresh, AccessFresh
  <2>7. Quiet(req[r])'
    BY <2>1, <2>2, <1>1 DEF Quiet
  <2>. QED
    BY <2>5, <2>6, <2>7
<1>. QED
  BY <1>6, <1>8, <1>9, <1>11, <1>12
LEMMA StepInv == Inv /\ [Next]_tokenVars => Inv'
<1>. SUFFICES ASSUME Inv, [Next]_tokenVars PROVE Inv'
  OBVIOUS
<1>1. ASSUME NEW r \in Requests, NEW d \in Devices, Ask(r, d) PROVE Inv'
  BY <1>1, AnswerStep, SendStep DEF Ask
<1>2. ASSUME NEW r \in Requests, Serve(r) PROVE Inv'
  BY <1>2, CheckStep, RotateStep, RevokeStep DEF Serve
<1>3. ASSUME NEW r \in Requests, Receive(r) PROVE Inv'
  BY <1>3, ReceiveStep
<1>4. ASSUME NEW r \in Requests, Lose(r) PROVE Inv'
  BY <1>4, LoseStep
<1>5. CASE \E u \in [role : Roles, status : Statuses] : UserChanges(u)
  BY <1>5, UserChangesStep
<1>6. CASE Tick
  BY <1>6, TickStep
<1>7. CASE UNCHANGED tokenVars
  <2>1. /\ user' = user /\ jar' = jar /\ revoked' = revoked /\ req' = req /\ last' = last
        /\ spent' = spent /\ clean' = clean /\ calm' = calm /\ out' = out
    BY <1>7 DEF tokenVars
  <2>2. TypeOK' /\ LongEnough' /\ LoggedOutStaysOut'
    BY <2>1 DEF Inv, TypeOK, LongEnough, LoggedOutStaysOut
  <2>3. RolesInv'
    BY <2>1 DEF Inv, RolesInv, PairFresh, AccessFresh, Watching
  <2>4. \A r \in Requests : (clean => Heeds(req[r]))' /\ Fresh(req[r])' /\ Quiet(req[r])'
    BY <2>1 DEF Inv, Heeds, Fresh, Quiet, PairFresh, AccessFresh
  <2>. QED
    BY <2>2, <2>3, <2>4 DEF Inv
<1>. QED
  BY <1>1, <1>2, <1>3, <1>4, <1>5, <1>6, <1>7 DEF Next

LEMMA AlwaysInv == Spec => []Inv
<1>1. Init => Inv
  BY InitInv
<1>2. Inv /\ [Next]_tokenVars => Inv'
  BY StepInv
<1>. QED
  BY <1>1, <1>2, PTL DEF Spec

\* Of the cookies, the revocation list and the requests: the types.
THEOREM TokenTypeCorrect == Spec => []TypeOK
<1>1. Inv => TypeOK
  BY DEF Inv
<1>. QED
  BY <1>1, AlwaysInv, PTL

\* token_rotation_service.go checks the list, signs and revokes in three steps: a
\* token that was revoked stays on the list for the rest of its life, and unless a
\* command failed no rotation that was asked for after that succeeds.
THEOREM RevocationHolds == Spec => []SpentIsSpent
<1>1. Inv => SpentStaysRevoked
  <2>. SUFFICES ASSUME Inv, NEW t \in spent PROVE revoked[t] > 0
    BY DEF SpentStaysRevoked
  <2>1. t \in Token /\ revoked[t] \in Nat /\ revoked[t] + t.age >= RefreshTTL
    BY Numbers DEF Inv, TypeOK, LongEnough
  <2>. QED
    BY <2>1, Tokens, Numbers
<1>2. Inv => SpentNotRotated
  BY DEF Inv, SpentNotRotated, Heeds
<1>. QED
  BY <1>1, <1>2, AlwaysInv, PTL DEF SpentIsSpent

\* RefreshToken copies the role of the claims and the middleware trusts it, yet
\* however long the chain of refreshes and rotations, a role that is admitted is
\* one the user had MaxLag ticks ago or later.
THEOREM RolesExpire == Spec => []RoleNotOlderThanItsTokens
<1>1. Inv => RoleNotOlderThanItsTokens
  <2>. SUFFICES ASSUME Inv, NEW d \in Devices, jar[d].access.role = Watched
                PROVE  last <= MaxLag
    BY DEF RoleNotOlderThanItsTokens, Admits
  <2>1. /\ last <= RefreshTTL - 1 + jar[d].access.age /\ jar[d].access.age < AccessTTL
        /\ jar[d].access \in MaybeToken /\ last \in Nat
    BY Numbers DEF Inv, RolesInv, AccessFresh, TypeOK, MaybeToken
  <2>. QED
    BY <2>1, Tokens, Numbers
<1>. QED
  BY <1>1, AlwaysInv, PTL

\* No answer that was under way gives a device that logged out its cookies back.
THEOREM LogoutHolds == Spec => []LoggedOutStaysOut
<1>1. Inv => LoggedOutStaysOut
  BY DEF Inv
<1>. QED
  BY <1>1, AlwaysInv, PTL
-----------------------------------------------------------------------------
(***************************************************************************)
(* Devices that take turns.                                                *)
(***************************************************************************)
Busy(r) == req[r].pc # "idle"

\* What is on the revocation list was put there.
Listed == \A t \in Token : revoked[t] > 0 => t \in spent

OneAtATime == \A r, q \in Requests : Busy(r) /\ Busy(q) => r = q

\* No two devices hold the same refresh token.
NotShared ==
    \A d, e \in Devices : jar[d].refresh = jar[e].refresh => d = e \/ jar[d].refresh = NoToken

Replacing(r, d) == req[r].pc = "answer" /\ req[r].set = "pair" /\ req[r].dev = d

\* A device that holds a spent token is about to receive the next one.
SpentIsReplaced ==
    \A d \in Devices : jar[d].refresh \in spent => \E r \in Requests : Replacing(r, d)

\* The token that a request will spend is the one its device holds.
SentIsHeld(q) == q.pc \in {"check", "rotate", "revoke"} => q.old = jar[q.dev].refresh

\* The token that a device is about to receive is neither held nor spent.
SignedIsNew(q) ==
    q.pc \in {"revoke", "answer"} /\ q.set = "pair" /\ q.new # NoToken => ~Exists(q.new)

InTurn ==
    /\ OneAtATime
    /\ NotShared
    /\ SpentIsReplaced
    /\ \A r \in Requests : SentIsHeld(req[r]) /\ SignedIsNew(req[r])

CalmInv == Listed /\ (calm => InTurn)

LEMMA CalmInit == Init => CalmInv
<1>. SUFFICES ASSUME Init PROVE CalmInv
  OBVIOUS
<1>1. Listed
  BY Numbers DEF Init, Listed
<1>2. \A r \in Requests : ~Busy(r) /\ SentIsHeld(req[r]) /\ SignedIsNew(req[r])
  BY DEF Init, Busy, SentIsHeld, SignedIsNew, Idle
<1>3. NotShared /\ SpentIsReplaced
  BY DEF Init, NotShared, SpentIsReplaced, NoCookies
<1>. QED
  BY <1>1, <1>2, <1>3 DEF CalmInv, InTurn, OneAtATime

\* Only an answer with a pair comes to a device whose token is spent.
LEMMA NoneSpent ==
    ASSUME InTurn, NEW d \in Devices,
           Alone \/ \E r \in Requests : Busy(r) /\ ~(req[r].pc = "answer" /\ req[r].set = "pair")
    PROVE  jar[d].refresh \notin spent
  BY DEF InTurn, OneAtATime, SpentIsReplaced, Replacing, Busy, Alone

\* Steps that change nothing but a request and the histories.
LEMMA CalmFrame ==
    ASSUME Inv, CalmInv, NEW r \in Requests, NEW new \in RequestType, req' = [req EXCEPT ![r] = new],
           UNCHANGED <<jar, revoked, spent>>,
           calm' => /\ calm
                    /\ Alone \/ Busy(r)
                    /\ \A d \in Devices : jar[d].refresh \notin spent
                    /\ SentIsHeld(new)
                    /\ SignedIsNew(new)
    PROVE  CalmInv'
<1>1. /\ req'[r] = new
      /\ \A q \in Requests \ {r} : req'[q] = req[q]
  BY Turn DEF Inv
<1>2. Listed'
  BY DEF CalmInv, Listed
<1>3. ASSUME calm' PROVE InTurn'
  <2>0. InTurn
    BY <1>3 DEF CalmInv
  <2>1. OneAtATime'
    <3>1. \A q \in Requests \ {r} : ~Busy(q)
      BY <1>3, <2>0 DEF InTurn, OneAtATime, Alone, Busy
    <3>. QED
      BY <3>1, <1>1 DEF OneAtATime, Busy
  <2>2. NotShared' /\ SpentIsReplaced'
    BY <1>3, <2>0 DEF InTurn, NotShared, SpentIsReplaced
  <2>3. ASSUME NEW q \in Requests PROVE SentIsHeld(req[q])' /\ SignedIsNew(req[q])'
    <3>1. CASE q = r
      BY <3>1, <1>1, <1>3 DEF SentIsHeld, SignedIsNew, Exists
    <3>2. CASE q # r
      <4>1. req'[q] = req[q] /\ SentIsHeld(req[q]) /\ SignedIsNew(req[q])
        BY <3>2, <1>1, <2>0 DEF InTurn
      <4>. QED
        BY <4>1 DEF SentIsHeld, SignedIsNew, Exists
    <3>. QED
      BY <3>1, <3>2
  <2>. QED
    BY <2>1, <2>2, <2>3 DEF InTurn
<1>. QED
  BY <1>2, <1>3 DEF CalmInv

LEMMA CalmAsk ==
    ASSUME Inv, CalmInv, NEW r \in Requests, NEW d \in Devices, Ask(r, d)
    PROVE  CalmInv'
<1>. DEFINE tok == jar[d].refresh
            late == tok \in spent
            sent(pc) == [Idle EXCEPT !.pc = pc, !.dev = d, !.old = tok, !.late = late]
<1>0. /\ req[r] \in RequestType /\ tok \in MaybeToken /\ user.role \in Roles
      /\ late \in BOOLEAN
  BY DEF Inv, TypeOK, MaybeToken
<1>1. UNCHANGED <<jar, revoked, spent>>
  BY DEF Ask, Login, RefreshToken, Logout, SendRotate, SendRevoke, Send
<1>2. calm' => calm /\ Alone
  BY Zenon DEF Ask, Login, RefreshToken, Logout, SendRotate, SendRevoke, Send
<1>3. calm' => \A e \in Devices : jar[e].refresh \notin spent
  BY <1>2, NoneSpent DEF CalmInv
<1>4. ASSUME NEW pc \in {"check", "revoke"}, Send(r, d, pc, tok) PROVE CalmInv'
  <2>1. req' = [req EXCEPT ![r] = sent(pc)]
    BY <1>4, Zenon DEF Send
  <2>2. sent(pc) \in RequestType /\ sent(pc).old = tok /\ sent(pc).dev = d /\ sent(pc).set = "none"
    BY <1>0, IdleFacts DEF RequestType, MaybeToken
  <2>. HIDE DEF sent
  <2>3. SentIsHeld(sent(pc)) /\ SignedIsNew(sent(pc))
    BY <2>2 DEF SentIsHeld, SignedIsNew
  <2>. QED
    BY <1>1, <1>2, <1>3, <2>1, <2>2, <2>3, CalmFrame
<1>5. CASE Login(r, d)
  <2>. DEFINE t == Signed(user.role)
              new == [req[r] EXCEPT !.pc = "answer", !.dev = d, !.set = "pair", !.new = t]
  <2>1. req' = [req EXCEPT ![r] = new] /\ (calm' => ~Exists(t))
    BY <1>5 DEF Login
  <2>2. t \in Token
    BY <1>0, Numbers DEF Signed, Token
  <2>3. new \in RequestType /\ new.pc = "answer" /\ new.new = t
    BY <1>0, <2>2 DEF RequestType
  <2>. HIDE DEF new, t
  <2>4. SentIsHeld(new) /\ (calm' => SignedIsNew(new))
    BY <2>1, <2>3 DEF SentIsHeld, SignedIsNew
  <2>. QED
    BY <1>1, <1>2, <1>3, <2>1, <2>3, <2>4, CalmFrame
<1>6. CASE RefreshToken(r, d)
  <2>. DEFINE t == Signed(tok.role)
              new == [req[r] EXCEPT !.pc = "answer", !.dev = d, !.set = "access", !.new = t]
  <2>1. req' = [req EXCEPT ![r] = new] /\ tok # NoToken
    BY <1>6 DEF RefreshToken, ClaimedRole
  <2>2. t \in Token
    BY <1>0, <2>1, Numbers DEF Signed, Token, MaybeToken
  <2>3. new \in RequestType /\ new.pc = "answer" /\ new.set = "access"
    BY <1>0, <2>2 DEF RequestType
  <2>. HIDE DEF new, t
  <2>4. SentIsHeld(new) /\ SignedIsNew(new)
    BY <2>3 DEF SentIsHeld, SignedIsNew
  <2>. QED
    BY <1>1, <1>2, <1>3, <2>1, <2>3, <2>4, CalmFrame
<1>7. CASE Logout(r, d)
  <2>. DEFINE new == [req[r] EXCEPT !.pc = "answer", !.dev = d, !.set = "clear"]
  <2>1. req' = [req EXCEPT ![r] = new]
    BY <1>7 DEF Logout
  <2>2. new \in RequestType /\ new.pc = "answer" /\ new.set = "clear"
    BY <1>0 DEF RequestType
  <2>. HIDE DEF new
  <2>3. SentIsHeld(new) /\ SignedIsNew(new)
    BY <2>2 DEF SentIsHeld, SignedIsNew
  <2>. QED
    BY <1>1, <1>2, <1>3, <2>1, <2>2, <2>3, CalmFrame
<1>. HIDE DEF sent
<1>. QED
  BY <1>4, <1>5, <1>6, <1>7 DEF Ask, SendRotate, SendRevoke

LEMMA CalmCheck ==
    ASSUME Inv, CalmInv, NEW r \in Requests, CheckRevoked(r)
    PROVE  CalmInv'
<1>1. req[r] \in RequestType /\ req[r].pc = "check" /\ Busy(r)
  BY DEF CheckRevoked, Inv, TypeOK, Busy
<1>2. /\ UNCHANGED <<jar, revoked, spent>>
      /\ calm' => calm
      /\ Finish(r) \/ Step(r, "rotate")
  <2>1. UNCHANGED <<jar, revoked, spent>>
    BY Zenon DEF CheckRevoked
  <2>2. CASE /\ IF IsTokenRevoked(req[r].old) THEN Finish(r) ELSE Step(r, "rotate")
             /\ UNCHANGED <<clean, calm>>
    BY <2>1, <2>2, Zenon
  <2>3. CASE Step(r, "rotate") /\ calm' = FALSE
    BY <2>1, <2>3, Zenon
  <2>. QED
    BY <2>2, <2>3, Zenon DEF CheckRevoked
<1>3. calm' => InTurn /\ \A d \in Devices : jar[d].refresh \notin spent
  <2>1. calm' => InTurn
    BY <1>2 DEF CalmInv
  <2>. QED
    BY <1>1, <2>1, NoneSpent
<1>4. CASE Finish(r)
  <2>1. SentIsHeld(Idle) /\ SignedIsNew(Idle)
    BY DEF Idle, SentIsHeld, SignedIsNew
  <2>. QED
    BY <1>1, <1>2, <1>3, <1>4, <2>1, IdleFacts, CalmFrame DEF Finish
<1>5. CASE Step(r, "rotate")
  <2>. DEFINE new == [req[r] EXCEPT !.pc = "rotate"]
  <2>1. req' = [req EXCEPT ![r] = new]
    BY <1>5 DEF Step
  <2>2. new \in RequestType /\ new.pc = "rotate" /\ new.old = req[r].old /\ new.dev = req[r].dev
    BY <1>1 DEF RequestType
  <2>3. calm' => req[r].old = jar[req[r].dev].refresh
    BY <1>1, <1>3 DEF InTurn, SentIsHeld
  <2>. HIDE DEF new
  <2>4. calm' => SentIsHeld(new) /\ SignedIsNew(new)
    BY <2>2, <2>3 DEF SentIsHeld, SignedIsNew
  <2>. QED
    BY <1>1, <1>2, <1>3, <2>1, <2>2, <2>4, CalmFrame
<1>. QED
  BY <1>2, <1>4, <1>5

LEMMA CalmRotate ==
    ASSUME Inv, CalmInv, NEW r \in Requests, RotateToken(r)
    PROVE  CalmInv'
<1>. DEFINE t == Signed(user.role)
            new == [req[r] EXCEPT !.pc = "revoke", !.set = "pair", !.new = t]
<1>1. req[r] \in RequestType /\ req[r].pc = "rotate" /\ Busy(r)
  BY DEF RotateToken, Inv, TypeOK, Busy
<1>2. /\ UNCHANGED <<jar, revoked, spent>>
      /\ \/ req' = [req EXCEPT ![r] = new] /\ calm' = (calm /\ ~Exists(t))
         \/ Finish(r) /\ calm' = calm
  BY Zenon DEF RotateToken, RotatedRole
<1>3. (calm' => calm) /\ (calm' => InTurn /\ \A d \in Devices : jar[d].refresh \notin spent)
  <2>1. calm' => calm
    BY <1>2
  <2>2. calm' => InTurn
    BY <2>1 DEF CalmInv
  <2>. QED
    BY <1>1, <2>1, <2>2, NoneSpent
<1>4. CASE Finish(r) /\ calm' = calm
  <2>1. SentIsHeld(Idle) /\ SignedIsNew(Idle)
    BY DEF Idle, SentIsHeld, SignedIsNew
  <2>. QED
    BY <1>1, <1>2, <1>3, <1>4, <2>1, IdleFacts, CalmFrame DEF Finish
<1>5. CASE req' = [req EXCEPT ![r] = new] /\ calm' = (calm /\ ~Exists(t))
  <2>1. t \in Token
    BY Numbers DEF Inv, TypeOK, Signed, Token
  <2>2. new \in RequestType /\ new.pc = "revoke" /\ new.old = req[r].old /\ new.dev = req[r].dev
        /\ new.new = t
    BY <1>1, <2>1 DEF RequestType
  <2>3. calm' => req[r].old = jar[req[r].dev].refresh
    BY <1>1, <1>3 DEF InTurn, SentIsHeld
  <2>. HIDE DEF new, t
  <2>4. calm' => SentIsHeld(new) /\ SignedIsNew(new)
    BY <1>5, <2>2, <2>3 DEF SentIsHeld, SignedIsNew
  <2>. QED
    BY <1>1, <1>2, <1>3, <1>5, <2>2, <2>4, CalmFrame
<1>. HIDE DEF new, t
<1>. QED
  BY <1>2, <1>4, <1>5

LEMMA CalmRevoke ==
    ASSUME Inv, CalmInv, NEW r \in Requests, RevokeToken(r)
    PROVE  CalmInv'
<1>. DEFINE old == req[r].old
            new == [req[r] EXCEPT !.pc = "answer", !.old = NoToken, !.late = FALSE]
<1>1. req[r] \in RequestType /\ req[r].pc = "revoke" /\ Busy(r) /\ req[r].dev \in Devices
      /\ revoked \in [Token -> 0..RevokeTTL] /\ old \in MaybeToken
  BY DEF RevokeToken, Inv, TypeOK, Busy, Quiet, RequestType, MaybeToken
<1>2. req' = [req EXCEPT ![r] = new] /\ jar' = jar
  BY DEF RevokeToken
<1>3. /\ new \in RequestType /\ new.pc = "answer" /\ new.set = req[r].set /\ new.dev = req[r].dev
      /\ new.new = req[r].new
  BY <1>1 DEF RequestType
<1>. HIDE DEF new
<1>4. /\ req'[r] = new
      /\ \A q \in Requests \ {r} : req'[q] = req[q]
  BY <1>2, <1>3, Turn DEF Inv
<1>5. \/ UNCHANGED <<revoked, spent>>
      \/ /\ old \in Token
         /\ revoked' = [revoked EXCEPT ![old] = RevocationTTL] /\ spent' = spent \cup {old}
  BY Zenon DEF RevokeToken
<1>6. Listed'
  BY <1>1, <1>5 DEF CalmInv, Listed
<1>7. ASSUME calm' PROVE InTurn'
  <2>1. /\ calm /\ req[r].set = "pair"
        /\ old \in Token => spent' = spent \cup {old}
        /\ old \notin Token => spent' = spent
    BY <1>7, Zenon DEF RevokeToken
  <2>2. InTurn /\ old = jar[req[r].dev].refresh /\ SignedIsNew(req[r])
    BY <2>1, <1>1 DEF CalmInv, InTurn, SentIsHeld
  <2>3. \A d \in Devices : jar[d].refresh \notin spent
    BY <1>1, <2>2, NoneSpent
  <2>4. spent' \subseteq spent \cup {old} /\ (old = NoToken => spent' = spent)
    BY <1>1, <2>1, Tokens
  <2>5. OneAtATime' /\ NotShared'
    <3>1. \A q \in Requests \ {r} : ~Busy(q)
      BY <1>1, <2>2 DEF InTurn, OneAtATime
    <3>. QED
      BY <3>1, <2>2, <1>2, <1>4 DEF OneAtATime, Busy, InTurn, NotShared
  <2>6. SpentIsReplaced'
    <3>. SUFFICES ASSUME NEW d \in Devices, jar[d].refresh \in spent' PROVE Replacing(r, d)'
      BY <1>2 DEF SpentIsReplaced
    <3>1. jar[d].refresh = old /\ old # NoToken
      BY <2>3, <2>4
    <3>2. d = req[r].dev
      BY <3>1, <2>2, <1>1 DEF InTurn, NotShared
    <3>. QED
      BY <3>2, <2>1, <1>3, <1>4 DEF Replacing
  <2>7. ASSUME NEW q \in Requests PROVE SentIsHeld(req[q])' /\ SignedIsNew(req[q])'
    <3>1. CASE q = r
      <4>1. SentIsHeld(req[r])'
        BY <1>3, <1>4 DEF SentIsHeld
      <4>2. new.new # NoToken => new.new \notin spent' /\ \A d \in Devices : jar[d].refresh # new.new
        BY <1>1, <1>3, <2>1, <2>2, <2>4 DEF SignedIsNew, Exists
      <4>. QED
        BY <3>1, <4>1, <4>2, <1>2, <1>3, <1>4 DEF SentIsHeld, SignedIsNew, Exists
    <3>2. CASE q # r
      BY <3>2, <1>1, <1>4, <2>2 DEF InTurn, OneAtATime, Busy, SentIsHeld, SignedIsNew
    <3>. QED
      BY <3>1, <3>2
  <2>. QED
    BY <2>5, <2>6, <2>7 DEF InTurn
<1>. QED
  BY <1>6, <1>7 DEF CalmInv

LEMMA CalmReceive ==
    ASSUME Inv, CalmInv, NEW r \in Requests, Receive(r)
    PROVE  CalmInv'
<1>. DEFINE d == req[r].dev
            q0 == req[r]
            cookies == Cookies(jar[d], q0.set, q0.new)
<1>1. /\ q0 \in RequestType /\ q0.pc = "answer" /\ Busy(r) /\ d \in Devices
      /\ jar' = [jar EXCEPT ![d] = cookies]
      /\ req' = [req EXCEPT ![r] = Idle]
      /\ UNCHANGED <<revoked, spent, calm>>
  BY DEF Receive, Finish, Inv, TypeOK, Busy, Quiet
<1>2. /\ req'[r] = Idle
      /\ \A q \in Requests \ {r} : req'[q] = req[q]
  BY <1>1, IdleFacts, Turn DEF Inv
<1>3. Listed'
  BY <1>1 DEF CalmInv, Listed
<1>4. /\ jar[d] \in [access : MaybeToken, refresh : MaybeToken] /\ spent \subseteq Token
      /\ NoToken \notin spent
  BY <1>1, Tokens DEF Inv, TypeOK, MaybeToken
<1>5. cookies.refresh = IF q0.set = "pair" THEN q0.new
                        ELSE IF q0.set = "clear" THEN NoToken
                        ELSE jar[d].refresh
  <2>1. CASE q0.set = "pair"
    <3>1. cookies = [access |-> Live(q0.new, AccessTTL), refresh |-> q0.new]
      BY <2>1 DEF Cookies
    <3>. QED
      BY <2>1, <3>1
  <2>2. CASE q0.set = "access"
    <3>1. cookies = [jar[d] EXCEPT !.access = Live(q0.new, AccessTTL)]
      BY <2>2 DEF Cookies
    <3>. QED
      BY <2>2, <3>1, <1>4
  <2>3. CASE q0.set = "clear"
    BY <2>3 DEF Cookies, NoCookies
  <2>4. CASE q0.set = "none"
    BY <2>4 DEF Cookies
  <2>. QED
    BY <1>1, <2>1, <2>2, <2>3, <2>4 DEF RequestType
<1>. HIDE DEF cookies
<1>6. \A e \in Devices : jar'[e] = IF e = d THEN cookies ELSE jar[e]
  BY <1>1 DEF Inv, TypeOK
<1>7. ASSUME calm' PROVE InTurn'
  <2>1. InTurn /\ SignedIsNew(q0)
    BY <1>1, <1>7 DEF CalmInv, InTurn
  <2>2. \A q \in Requests : req'[q].pc = "idle"
    BY <1>1, <1>2, <2>1, IdleFacts DEF InTurn, OneAtATime, Busy
  <2>3. OneAtATime' /\ \A q \in Requests : SentIsHeld(req[q])' /\ SignedIsNew(req[q])'
    BY <2>2 DEF OneAtATime, Busy, SentIsHeld, SignedIsNew
  <2>4. \A e \in Devices \ {d} : jar[e].refresh \notin spent
    BY <1>1, <2>1 DEF InTurn, OneAtATime, SpentIsReplaced, Replacing, Busy
  <2>5. \/ cookies.refresh = NoToken
        \/ /\ cookies.refresh \notin spent
           /\ \A e \in Devices \ {d} : jar[e].refresh # cookies.refresh
    <3>1. CASE q0.set = "pair"
      BY <3>1, <1>1, <1>5, <2>1 DEF SignedIsNew, Exists
    <3>2. CASE q0.set # "pair"
      <4>1. jar[d].refresh \notin spent
        BY <3>2, <1>1, <2>1, NoneSpent
      <4>. QED
        BY <3>2, <4>1, <1>1, <1>5, <2>1 DEF InTurn, NotShared
    <3>. QED
      BY <3>1, <3>2
  <2>6. SpentIsReplaced'
    BY <1>1, <1>4, <1>6, <2>4, <2>5 DEF SpentIsReplaced
  <2>7. NotShared'
    BY <1>6, <2>1, <2>5 DEF InTurn, NotShared
  <2>. QED
    BY <2>3, <2>6, <2>7 DEF InTurn
<1>. QED
  BY <1>3, <1>7 DEF CalmInv

\* Two tokens that are a tick older and the same were the same.
LEMMA AgingDistinct ==
    ASSUME NEW t \in MaybeToken, NEW u \in MaybeToken,
           Older(t, RefreshTTL) = Older(u, RefreshTTL), Older(t, RefreshTTL) # NoToken
    PROVE  t = u /\ t \in Token
<1>1. Older(NoToken, RefreshTTL) = NoToken
  BY Tokens DEF Older
<1>2. t \in Token /\ u \in Token
  BY <1>1 DEF MaybeToken
<1>. QED
  BY <1>2, AgingBack

LEMMA CalmTick ==
    ASSUME Inv, CalmInv, Tick
    PROVE  CalmInv'
<1>. DEFINE younger(t) == [t EXCEPT !.age = @ - 1]
            old(t) == Older(t, RefreshTTL)
<1>1. /\ \A d \in Devices : jar[d].refresh \in MaybeToken /\ jar'[d].refresh = old(jar[d].refresh)
      /\ \A t \in Token : revoked'[t] = IF t.age = 0 THEN 0 ELSE Less(revoked[younger(t)])
      /\ spent' = {t \in Token : t.age > 0 /\ younger(t) \in spent}
      /\ calm' = calm
  BY DEF Tick, Inv, TypeOK, MaybeToken
<1>2. ASSUME NEW r \in Requests
      PROVE  /\ req[r] \in RequestType /\ req[r].old \in MaybeToken /\ req[r].new \in MaybeToken
             /\ req'[r].pc = req[r].pc /\ req'[r].dev = req[r].dev /\ req'[r].set = req[r].set
             /\ req'[r].old = old(req[r].old) /\ req'[r].new = old(req[r].new)
  <2>1. req[r] \in RequestType /\ req[r].old \in MaybeToken /\ req[r].new \in MaybeToken
    BY DEF Inv, TypeOK, RequestType, MaybeToken
  <2>2. req'[r] = [req[r] EXCEPT !.old = old(@), !.new = old(@)]
    BY DEF Tick, TickRequest
  <2>. HIDE DEF old
  <2>. QED
    BY <2>1, <2>2 DEF RequestType
<1>a. \A t \in Token : t.age # 0 => t.age > 0 /\ younger(t) \in Token
  BY YoungerType, Tokens
<1>3. Listed'
  <2>. HIDE DEF younger, old
  <2>. SUFFICES ASSUME NEW t \in Token, revoked'[t] > 0 PROVE t \in spent'
    BY DEF Listed
  <2>1. t.age \in Nat /\ t.age # 0
    BY <1>1, Tokens
  <2>2. t.age > 0 /\ younger(t) \in Token
    BY <2>1, <1>a
  <2>3. revoked'[t] = Less(revoked[younger(t)])
    BY <1>1, <2>1
  <2>4. revoked[younger(t)] \in Nat /\ revoked[younger(t)] > 0
    BY <2>2, <2>3, Numbers DEF Less, Inv, TypeOK
  <2>. QED
    BY <2>1, <2>2, <2>4, <1>1 DEF CalmInv, Listed
<1>4. old(NoToken) = NoToken /\ NoToken \notin spent'
  BY <1>1, Tokens DEF Older
<1>5. ASSUME NEW t \in MaybeToken, old(t) \in spent' PROVE t \in spent
  <2>1. old(t) # NoToken /\ t \in Token
    BY <1>4, <1>5 DEF MaybeToken
  <2>2. younger(old(t)) = t
    BY <2>1, AgingBack
  <2>. QED
    BY <1>1, <1>5, <2>2
<1>6. \A t, u \in MaybeToken : old(t) = old(u) /\ old(t) # NoToken => t = u /\ t # NoToken
  BY AgingDistinct, Tokens
<1>. HIDE DEF old, younger
<1>7. ASSUME calm' PROVE InTurn'
  <2>0. InTurn
    BY <1>1, <1>7 DEF CalmInv
  <2>1. OneAtATime'
    BY <1>2, <2>0 DEF InTurn, OneAtATime, Busy
  <2>2. NotShared'
    BY <1>1, <1>4, <1>6, <2>0 DEF InTurn, NotShared
  <2>3. SpentIsReplaced'
    <3>. SUFFICES ASSUME NEW d \in Devices, jar'[d].refresh \in spent'
                  PROVE  \E r \in Requests : Replacing(r, d)'
      BY DEF SpentIsReplaced
    <3>1. jar[d].refresh \in spent
      BY <1>1, <1>5
    <3>2. PICK r \in Requests : Replacing(r, d)
      BY <3>1, <2>0 DEF InTurn, SpentIsReplaced
    <3>. QED
      BY <3>2, <1>2 DEF Replacing
  <2>4. ASSUME NEW r \in Requests PROVE SentIsHeld(req[r])' /\ SignedIsNew(req[r])'
    <3>1. SentIsHeld(req[r]) /\ SignedIsNew(req[r])
      BY <2>0 DEF InTurn
    <3>2. SentIsHeld(req[r])'
      <4>. SUFFICES ASSUME req[r].pc \in {"check", "rotate", "revoke"}
                    PROVE  req'[r].old = jar'[req[r].dev].refresh
        BY <1>2 DEF SentIsHeld
      <4>1. req[r].dev \in Devices
        BY DEF Inv, Quiet
      <4>. QED
        BY <3>1, <4>1, <1>1, <1>2 DEF SentIsHeld
    <3>3. SignedIsNew(req[r])'
      <4>. SUFFICES ASSUME req[r].pc \in {"revoke", "answer"}, req[r].set = "pair",
                           old(req[r].new) # NoToken
                    PROVE  /\ old(req[r].new) \notin spent'
                           /\ \A d \in Devices : old(jar[d].refresh) # old(req[r].new)
        BY <1>1, <1>2 DEF SignedIsNew, Exists
      <4>1. req[r].new # NoToken /\ ~Exists(req[r].new) /\ req[r].new \in MaybeToken
        BY <3>1, <1>2, <1>4 DEF SignedIsNew
      <4>. QED
        BY <4>1, <1>1, <1>5, <1>6 DEF Exists
    <3>. QED
      BY <3>2, <3>3
  <2>. QED
    BY <2>1, <2>2, <2>3, <2>4 DEF InTurn
<1>. QED
  BY <1>3, <1>7 DEF CalmInv

LEMMA CalmStep == Inv /\ CalmInv /\ [Next]_tokenVars => CalmInv'
<1>. SUFFICES ASSUME Inv, CalmInv, [Next]_tokenVars PROVE CalmInv'
  OBVIOUS
<1>1. ASSUME NEW r \in Requests, NEW d \in Devices, Ask(r, d) PROVE CalmInv'
  BY <1>1, CalmAsk
<1>2. ASSUME NEW r \in Requests, Serve(r) PROVE CalmInv'
  BY <1>2, CalmCheck, CalmRotate, CalmRevoke DEF Serve
<1>3. ASSUME NEW r \in Requests, Receive(r) PROVE CalmInv'
  BY <1>3, CalmReceive
<1>4. ASSUME NEW r \in Requests, Lose(r) PROVE CalmInv'
  <2>1. UNCHANGED <<revoked, spent>> /\ calm' = FALSE
    BY <1>4, Zenon DEF Lose
  <2>. QED
    BY <2>1 DEF CalmInv, Listed
<1>5. CASE \/ \E u \in [role : Roles, status : Statuses] : UserChanges(u)
           \/ UNCHANGED tokenVars
  <2>1. jar' = jar /\ revoked' = revoked /\ req' = req /\ spent' = spent /\ calm' = calm
    BY <1>5 DEF UserChanges, tokenVars
  <2>. QED
    BY <2>1 DEF CalmInv, Listed, InTurn, OneAtATime, Busy, NotShared, SpentIsReplaced, Replacing,
                SentIsHeld, SignedIsNew, Exists
<1>6. CASE Tick
  BY <1>6, CalmTick
<1>. QED
  BY <1>1, <1>2, <1>3, <1>4, <1>5, <1>6 DEF Next

\* A rotation revokes a token while a device still holds it and every other
\* device has its own: as long as requests come one at a time, no token is
\* signed twice and no answer is lost, nobody is left with a revoked one.
THEOREM RotationSparesTheOthers == Spec => []CalmDeviceIsNotRevoked
<1>1. Init => CalmInv
  BY CalmInit
<1>2. Inv /\ CalmInv /\ [Next]_tokenVars => CalmInv'
  BY CalmStep
<1>3. Inv /\ CalmInv => CalmDeviceIsNotRevoked
  <2>. SUFFICES ASSUME Inv, CalmInv, calm, Alone, NEW d \in Devices,
                       IsTokenRevoked(jar[d].refresh)
                PROVE  FALSE
    BY DEF CalmDeviceIsNotRevoked
  <2>1. jar[d].refresh \in Token /\ revoked[jar[d].refresh] > 0
    BY DEF IsTokenRevoked, Inv, TypeOK
  <2>2. jar[d].refresh \in spent
    BY <2>1 DEF CalmInv, Listed
  <2>. QED
    BY <2>2, NoneSpent DEF CalmInv
<1>. QED
  BY <1>1, <1>2, <1>3, AlwaysInv, PTL DEF Spec
=============================================================================
