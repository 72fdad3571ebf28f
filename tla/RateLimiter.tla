---------------------------- MODULE RateLimiter -----------------------------
(***************************************************************************)
(* The limiter that guards login, registration, password reset, e-mail     *)
(* verification and licence activation                                     *)
(* (internal/middleware/rate_limit_enhanced.go), for one endpoint and one  *)
(* IP address: IsAllowed and RecordAttempt, one Redis command after the    *)
(* other, as RateLimitMiddleware calls them before the handler.            *)
(*                                                                         *)
(* Times are relative: a key holds the ticks it has left, the value of the *)
(* lock the ticks until lockedUntil (0 once it is past).  The counter      *)
(* stays at Cap when it gets there: only "1" and ">= MaxAttempts" are ever *)
(* tested.                                                                 *)
(***************************************************************************)
EXTENDS Naturals, FiniteSets

CONSTANTS
    Requests,         \* requests from the address that can be under way at a time
    MaxAttempts,
    LockoutDuration,  \* in ticks
    ResetWindow       \* in ticks

ASSUME LimiterAssumption ==
    /\ IsFiniteSet(Requests)
    /\ MaxAttempts \in Nat \ {0}
    /\ LockoutDuration \in Nat \ {0}
    /\ ResetWindow \in Nat \ {0}

Cap == MaxAttempts + 2 * Cardinality(Requests)

NoTTL == ResetWindow + 1   \* a counter that was never given an expiry

VARIABLES
    attempts,  \* key "attempts": count (0: not set) and ticks left
    locked,    \* key "locked": ticks left (0: not set), ticks to lockedUntil
    req,       \* each request: its next command and the lockedUntil it holds
    clean,     \* history: no command failed, no server restarted
    alone      \* history: no two requests were under way at a time

vars == <<attempts, locked, req, clean, alone>>

NoAttempts == [count |-> 0, ttl |-> 0]
NoLock     == [ttl |-> 0, left |-> 0]
Idle       == [pc |-> "idle", left |-> 0]

Init ==
    /\ attempts = NoAttempts
    /\ locked = NoLock
    /\ req = [r \in Requests |-> Idle]
    /\ clean = TRUE
    /\ alone = TRUE

InForce == locked.ttl > 0 /\ locked.left > 0

Goto(r, l) == req' = [req EXCEPT ![r].pc = l]
-----------------------------------------------------------------------------
(***************************************************************************)
(* IsAllowed.                                                              *)
(***************************************************************************)
Mutant_Blocked(l) == [l EXCEPT !.ttl = LockoutDuration, !.left = LockoutDuration]

\* What a blocked attempt leaves of the lock: it is not extended.
Blocked(l) == l

Mutant_NextAfterGet == IF locked.ttl > 0 THEN "delete" ELSE "incr"

NextAfterGet ==
    IF InForce THEN "idle" ELSE IF locked.ttl > 0 THEN "delete" ELSE "incr"

Arrives(r) ==
    /\ req[r].pc = "idle"
    /\ alone' = (alone /\ \A q \in Requests : req[q].pc = "idle")

GetLock(r) ==
    /\ Arrives(r)
    /\ Goto(r, NextAfterGet)
    /\ locked' = IF InForce THEN Blocked(locked) ELSE locked
    /\ UNCHANGED <<attempts, clean>>

\* An error of Get lets the request in.
GetFails(r) ==
    /\ Arrives(r)
    /\ Goto(r, "incr")
    /\ clean' = FALSE
    /\ UNCHANGED <<attempts, locked>>

\* The lock it read had run out: delete the key, whatever it holds by now.
DeleteLock(r) ==
    /\ req[r].pc = "delete"
    /\ \/ locked' = NoLock /\ UNCHANGED clean
       \/ clean' = FALSE /\ UNCHANGED locked
    /\ Goto(r, "incr")
    /\ UNCHANGED <<attempts, alone>>
-----------------------------------------------------------------------------
(***************************************************************************)
(* RecordAttempt, then the handler.                                        *)
(***************************************************************************)
Incremented ==
    [count |-> IF attempts.count < Cap THEN attempts.count + 1 ELSE Cap,
     ttl   |-> IF attempts.count = 0 THEN NoTTL ELSE attempts.ttl]

Mutant_Decide(n) == IF n > MaxAttempts THEN [pc |-> "lock", left |-> LockoutDuration]
                                       ELSE Idle

\* At the threshold the request computes lockedUntil; below it it is served.
Decide(n) == IF n >= MaxAttempts THEN [pc |-> "lock", left |-> LockoutDuration]
                                 ELSE Idle

AfterIncr(n) == IF n = 1 THEN [pc |-> "expire", left |-> 0] ELSE Decide(n)

\* Incr may fail with or without effect: the count is then set to 1.
Incr(r) ==
    /\ req[r].pc = "incr"
    /\ \/ /\ attempts' = Incremented
          /\ req' = [req EXCEPT ![r] = AfterIncr(Incremented.count)]
          /\ UNCHANGED <<clean, alone>>
       \/ /\ attempts' \in {attempts, Incremented}
          /\ Goto(r, "reset")
          /\ clean' = FALSE
    /\ UNCHANGED <<locked, alone>>

ResetCounter(r) ==
    /\ req[r].pc = "reset"
    /\ \/ attempts' = [count |-> 1, ttl |-> ResetWindow]
       \/ UNCHANGED attempts
    /\ req' = [req EXCEPT ![r] = Decide(1)]
    /\ UNCHANGED <<locked, clean, alone>>

ExpireCounter(r) ==
    /\ req[r].pc = "expire"
    /\ \/ /\ attempts' = IF attempts.count = 0 THEN attempts
                         ELSE [attempts EXCEPT !.ttl = ResetWindow]
          /\ UNCHANGED <<clean, alone>>
       \/ clean' = FALSE /\ UNCHANGED attempts
    /\ req' = [req EXCEPT ![r] = Decide(1)]
    /\ UNCHANGED <<locked, alone>>

NewLock(left) == [ttl |-> LockoutDuration, left |-> left]

\* The counter is left as it is: only its own expiry resets it.
SetLock(r) ==
    /\ req[r].pc = "lock"
    /\ \/ /\ locked' = NewLock(req[r].left)
          /\ UNCHANGED <<clean, alone>>
       \/ clean' = FALSE /\ UNCHANGED locked
    /\ req' = [req EXCEPT ![r] = Idle]
    /\ UNCHANGED <<attempts, alone>>
-----------------------------------------------------------------------------
Less(n) == IF n = 0 THEN 0 ELSE n - 1

\* Time passes for the keys and for the times that requests hold.
Tick ==
    /\ attempts' = IF attempts.count = 0 \/ attempts.ttl = NoTTL THEN attempts
                   ELSE IF attempts.ttl = 1 THEN NoAttempts
                   ELSE [attempts EXCEPT !.ttl = @ - 1]
    /\ locked' = IF locked.ttl <= 1 THEN NoLock
                 ELSE [ttl |-> locked.ttl - 1, left |-> Less(locked.left)]
    /\ req' = [r \in Requests |-> [req[r] EXCEPT !.left = Less(@)]]
    /\ UNCHANGED <<clean, alone>>

\* A restart of the server between two commands; Redis goes on.
Restart ==
    /\ \E r \in Requests : req[r].pc # "idle"
    /\ req' = [r \in Requests |-> Idle]
    /\ clean' = FALSE
    /\ UNCHANGED <<attempts, locked, alone>>

Proceed(r) ==
    \/ DeleteLock(r)
    \/ Incr(r)
    \/ ResetCounter(r)
    \/ ExpireCounter(r)
    \/ SetLock(r)

Next ==
    \/ \E r \in Requests : GetLock(r)
    \/ \E r \in Requests : GetFails(r)
    \/ \E r \in Requests : Proceed(r)
    \/ Tick
    \/ Restart

\* Time passes and commands return.  Nothing obliges a client to come.
Fairness == WF_vars(Tick) /\ \A r \in Requests : WF_vars(Proceed(r))

Spec == Init /\ [][Next]_vars /\ Fairness
-----------------------------------------------------------------------------
\* Every variable has its type, and a lock outlives the lockedUntil it holds.
TypeOK ==
    /\ attempts \in [count : 0..Cap, ttl : 0..NoTTL]
    /\ attempts.count = 0 <=> attempts.ttl = 0
    /\ locked \in [ttl : 0..LockoutDuration, left : 0..LockoutDuration]
    /\ locked.left <= locked.ttl
    /\ req \in [Requests -> [pc : {"idle", "delete", "incr", "reset", "expire", "lock"},
                             left : 0..LockoutDuration]]
    /\ clean \in BOOLEAN
    /\ alone \in BOOLEAN

\* Unless a command failed or the server was restarted, a counter without an
\* expiry is one whose first request is about to set it: no interleaving of
\* Incr and Expire leaves a counter that is never reset.
CounterHasWindow ==
    clean /\ attempts.ttl = NoTTL => \E r \in Requests : req[r].pc = "expire"

\* Nobody is locked out for good: unless Redis goes on failing to answer Get,
\* the lock is again and again not in force, whoever keeps trying, whatever
\* else fails and even if the counter is never reset.
NeverLockedOutForGood ==
    <>[][\A r \in Requests : ~GetFails(r)]_vars => []<>~InForce

\* Requests that come one at a time, while no command fails: a window of the
\* counter admits no more than MaxAttempts of them.
WithinLimit == alone /\ clean => attempts.count <= MaxAttempts

\* With such requests a lock in force is ended by its time alone.  (One that
\* lags behind another deletes the other's lock, or puts a lockedUntil that is
\* past in its place.)
LockHolds == [][alone /\ InForce => InForce' \/ Tick]_vars
=============================================================================
