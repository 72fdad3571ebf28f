------------------------------ MODULE MCStores ------------------------------
(***************************************************************************)
(* The stores beside the tables that no other module has: the permissions, *)
(* the sessions in Redis, the in-memory limiter and the one-time tokens.   *)
(* They share no state, so that steps of one between steps of another show *)
(* nothing: `moving' says which of them acts in a behaviour.               *)
(***************************************************************************)
EXTENDS PermissionStore, Naturals, FiniteSets, TLC

CONSTANTS
    p1, p2,
    Sessions, MaxSessions,
    MaxAttempts, LockoutDuration, ResetWindow,
    Tokens, TTL

\* MaxConcurrentSessionsPerUser and the tokens' lifetime are constants of the
\* code, the other three numbers arguments of NewRateLimiter.
ASSUME StoresAssumption ==
    /\ IsFiniteSet(Sessions) /\ "none" \notin Sessions
    /\ MaxSessions \in Nat \ {0}
    /\ MaxAttempts \in Nat /\ LockoutDuration \in Nat /\ ResetWindow \in Nat
    /\ "none" \notin Tokens
    /\ TTL \in Nat \ {0}

VARIABLES
    moving,
    store, scall, gone, single, intact,
    entry, login, apart,
    tokens, drawn, cookie, post, passed, met

sessionVars == <<store, scall, gone, single, intact>>

limiterVars == <<entry, login, apart>>

csrfVars == <<tokens, drawn, cookie, post, passed, met>>

\* The callers that the session service is written for use the token as its id.
MCSidOf == [s \in Sessions |-> s]

Session == INSTANCE SessionStore WITH SidOf <- MCSidOf, Max <- MaxSessions
Limiter == INSTANCE MemoryLimiter WITH Attempts <- Calls
Csrf    == INSTANCE CsrfStore WITH Posts <- Calls

MCDefaults == [x \in Roles |-> IF x = DefaultRole THEN {p1} ELSE {p2}]

MCPermissionSets == {{p1}, {p2}}

StoresInit ==
    /\ moving \in {"permissions", "sessions", "limiter", "csrf"}
    /\ Init
    /\ Session!Init
    /\ Limiter!Init
    /\ Csrf!Init

StoresNext ==
    \/ /\ moving = "permissions" /\ Next
       /\ UNCHANGED <<moving, sessionVars, limiterVars, csrfVars>>
    \/ /\ moving = "sessions" /\ Session!Next
       /\ UNCHANGED <<moving, storeVars, limiterVars, csrfVars>>
    \/ /\ moving = "limiter" /\ Limiter!Next
       /\ UNCHANGED <<moving, storeVars, sessionVars, csrfVars>>
    \/ /\ moving = "csrf" /\ Csrf!Next
       /\ UNCHANGED <<moving, storeVars, sessionVars, limiterVars>>

StoresSpec ==
    StoresInit /\ [][StoresNext]_<<moving, storeVars, sessionVars, limiterVars, csrfVars>>

Symmetric == Permutations(Calls) \cup Permutations(Sessions)
-----------------------------------------------------------------------------
\* Every variable of the four stores has its type.
AllTypesOK == TypeOK /\ Session!TypeOK /\ Limiter!TypeOK /\ Csrf!TypeOK

\* Of SessionStore: calls one at a time, none failing, keep the limit of sessions.
WithinMaxSessions == Session!WithinMaxSessions

\* Of SessionStore: a logout of several sessions misses none it could see, and a
\* session logged out or revoked comes back only by a call that had read it before.
LogoutsLast == Session!LogoutReachesTheOthers /\ Session!GoneStaysGone

\* Of MemoryLimiter: no order of checks and failures leaves an address at the
\* limit that was never locked, and of logins one at a time none ends a lock but
\* by a success.
LocksHold == [][Limiter!LimitLocks' /\ Limiter!LockEndsByTime]_limiterVars

\* Of CsrfStore: a token lets one request through, unless two were validated at
\* a time, and the token in a browser's cookie is good until it is used.
TokensWorkOnce == Csrf!PassesOnce /\ Csrf!CookieIsGood
=============================================================================
