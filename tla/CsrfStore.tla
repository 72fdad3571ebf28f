----------------------------- MODULE CsrfStore ------------------------------
(***************************************************************************)
(* The one-time tokens of internal/middleware/csrf.go and one browser that *)
(* is given them.  CSRFMiddleware checks a token under the read lock and   *)
(* marks it used under the write lock; the two are steps of their own.     *)
(* Times are relative, in ticks.  No route has the middleware yet.         *)
(***************************************************************************)
EXTENDS Naturals

CONSTANTS
    Tokens,   \* the random strings that GenerateToken draws, each once
    Posts,    \* state-changing requests that can be under way at a time
    TTL       \* of a token and of the cookie: DefaultCSRFConfig and MaxAge

NoToken == "none"

VARIABLES
    tokens,   \* the store
    drawn,    \* the tokens handed out so far
    cookie,   \* the csrf_token cookie of the browser
    post,     \* the requests being validated
    passed,   \* history: requests each token has let through
    met       \* history: tokens that two requests were validating at a time

csrfVars == <<tokens, drawn, cookie, post, passed, met>>

Absent == [here |-> FALSE, left |-> 0, used |-> FALSE]

NoCookie == [token |-> NoToken, left |-> 0]

Idle == [pc |-> "idle", token |-> NoToken]

Init ==
    /\ tokens = [t \in Tokens |-> Absent]
    /\ drawn = {}
    /\ cookie = NoCookie
    /\ post = [p \in Posts |-> Idle]
    /\ passed = [t \in Tokens |-> 0]
    /\ met = {}
-----------------------------------------------------------------------------
GenerateToken(t) ==
    /\ t \notin drawn
    /\ drawn' = drawn \cup {t}
    /\ tokens' = [tokens EXCEPT ![t] = [here |-> TRUE, left |-> TTL, used |-> FALSE]]

\* A safe request of a browser that sends no cookie.  One that has a cookie is
\* given nothing, whatever has become of its token.
SafeRequest(t) ==
    /\ cookie.token = NoToken
    /\ GenerateToken(t)
    /\ cookie' = [token |-> t, left |-> TTL]
    /\ UNCHANGED <<post, passed, met>>

\* GetCSRFTokenHandlerFunc: a token for a header or a form, and no cookie.
FreshToken(t) == GenerateToken(t) /\ UNCHANGED <<cookie, post, passed, met>>

ValidateToken(t) == tokens[t].here /\ tokens[t].left > 0 /\ ~tokens[t].used

\* validateCSRFToken: the token comes from the header, the form or the cookie.
BeginPost(p, t) ==
    /\ post[p].pc = "idle"
    /\ t \in drawn
    /\ ValidateToken(t)
    /\ post' = [post EXCEPT ![p] = [pc |-> "valid", token |-> t]]
    /\ met' = IF \E q \in Posts : post[q].token = t THEN met \cup {t} ELSE met
    /\ UNCHANGED <<tokens, drawn, cookie, passed>>

InvalidateToken(t) == [tokens EXCEPT ![t].used = TRUE]

\* A token that the clean-up took in the meantime is refused after all.
EndPost(p) ==
    LET t == post[p].token IN
    /\ post[p].pc = "valid"
    /\ IF tokens[t].here
       THEN /\ tokens' = InvalidateToken(t)
            /\ passed' = [passed EXCEPT ![t] = @ + 1]
       ELSE UNCHANGED <<tokens, passed>>
    /\ post' = [post EXCEPT ![p] = Idle]
    /\ UNCHANGED <<drawn, cookie, met>>

Mutant_Spent(e) == e.here /\ (e.left < TTL \/ e.used)

Spent(e) == e.here /\ (e.left = 0 \/ e.used)

Cleanup ==
    /\ \E t \in Tokens : Spent(tokens[t])
    /\ tokens' = [t \in Tokens |-> IF Spent(tokens[t]) THEN Absent ELSE tokens[t]]
    /\ UNCHANGED <<drawn, cookie, post, passed, met>>

Minus1(n) == IF n = 0 THEN 0 ELSE n - 1

Tick ==
    /\ tokens' = [t \in Tokens |-> [tokens[t] EXCEPT !.left = Minus1(@)]]
    /\ cookie' = IF cookie.left <= 1 THEN NoCookie ELSE [cookie EXCEPT !.left = @ - 1]
    /\ UNCHANGED <<drawn, post, passed, met>>

Next ==
    \/ \E t \in Tokens : SafeRequest(t)
    \/ \E t \in Tokens : FreshToken(t)
    \/ \E p \in Posts, t \in Tokens : BeginPost(p, t)
    \/ \E p \in Posts : EndPost(p)
    \/ Cleanup
    \/ Tick

Spec == Init /\ [][Next]_csrfVars
-----------------------------------------------------------------------------
\* Every variable has its type.
TypeOK ==
    /\ tokens \in [Tokens -> [here : BOOLEAN, left : 0..TTL, used : BOOLEAN]]
    /\ drawn \subseteq Tokens
    /\ cookie \in [token : Tokens \cup {NoToken}, left : 0..TTL]
    /\ post \in [Posts -> [pc : {"idle", "valid"}, token : Tokens \cup {NoToken}]]
    /\ passed \in [Tokens -> Nat]
    /\ met \subseteq Tokens

\* A token lets one request through, and a second only if the two were validated
\* at a time: the check and the marking are two sections under the lock.
PassesOnce == \A t \in Tokens \ met : passed[t] <= 1

\* The token in a browser's cookie is accepted for as long as the cookie lasts,
\* unless a request has used it up: neither the clock nor the clean-up ends a
\* token before its cookie, which the middleware would not replace.
CookieIsGood ==
    cookie.token # NoToken =>
        ValidateToken(cookie.token) \/ passed[cookie.token] > 0
=============================================================================
