----------------------------- MODULE HealthProbes ---------------------------
(***************************************************************************)
(* The database breaker behind the health endpoints.  Only /health pings   *)
(* the database through it; /readyz pings beside it and refuses while it   *)
(* is open.  The breaker is the library's: it counts the calls of a        *)
(* generation, opens when its owner's ReadyToTrip says so, and after a     *)
(* timeout is half-open for a few calls.  A call in flight when a          *)
(* generation ends is not counted in the next.                             *)
(***************************************************************************)
EXTENDS Integers, FiniteSets

CONSTANTS
    Calls,          \* requests of /health in flight at once
    MaxRequests,    \* calls let through half-open: 5
    MinRequests,    \* calls before the breaker may trip: 5
    MaxFailures,    \* failures that trip it: 10
    FailurePercent, \* ... or this part of the calls: 80
    Interval,       \* ticks of a closed generation: 15 seconds
    Timeout,        \* ticks the breaker stays open: 60 seconds
    MaxCounted      \* bound: the calls of one generation

VARIABLES
    up,        \* the database answers a ping
    breaker,   \* state, counts and ticks left of the generation
    call       \* what each request of /health is at

healthVars == <<up, breaker, call>>

Phases == {"idle", "pinging", "succeeded", "failed", "stale"}

TypeOK ==
    /\ up \in BOOLEAN
    /\ breaker \in [state : {"closed", "half-open", "open"},
                    requests : Nat, failures : Nat, successes : Nat,
                    left : 0..Timeout]
    /\ call \in [Calls -> Phases]
    /\ Cardinality({c \in Calls : call[c] \notin {"idle", "stale"}}) <= breaker.requests
-----------------------------------------------------------------------------
\* A generation: no counts, and as long as its state lasts; half-open lasts
\* until its calls decide.
Generation(state) ==
    [state |-> state, requests |-> 0, failures |-> 0, successes |-> 0,
     left |-> CASE state = "closed" -> Interval
                [] state = "open"   -> Timeout
                [] OTHER            -> 0]

\* The state is brought up to date when somebody asks.
Due == breaker.left = 0 /\ breaker.state # "half-open"

Mutant_CurrentBreaker ==
    IF ~Due THEN breaker ELSE Generation("closed")

CurrentBreaker ==
    IF ~Due THEN breaker
    ELSE Generation(IF breaker.state = "open" THEN "half-open" ELSE "closed")

\* The calls of an ended generation.
Staled == [c \in Calls |-> IF call[c] = "idle" THEN "idle" ELSE "stale"]

CurrentCalls == IF Due THEN Staled ELSE call

ReadyToTrip(counts) ==
    /\ counts.requests >= MinRequests
    /\ \/ counts.failures >= MaxFailures
       \/ 100 * counts.failures >= FailurePercent * counts.requests

Init ==
    /\ up \in BOOLEAN
    /\ breaker = Generation("closed")
    /\ call = [c \in Calls |-> "idle"]

\* A request of /health: refused by the breaker, or counted and let through.
Health(c) ==
    /\ call[c] = "idle"
    /\ LET b == CurrentBreaker
           refused == b.state = "open" \/ (b.state = "half-open" /\ b.requests >= MaxRequests)
       IN  IF refused THEN breaker' = b /\ call' = CurrentCalls
           ELSE /\ b.requests < MaxCounted
                /\ breaker' = [b EXCEPT !.requests = @ + 1]
                /\ call' = [CurrentCalls EXCEPT ![c] = "pinging"]
    /\ UNCHANGED up

\* The ping has no deadline: it ends when the database or the network ends it.
Ping(c) ==
    /\ call[c] = "pinging"
    /\ call' = [call EXCEPT ![c] = IF up THEN "succeeded" ELSE "failed"]
    /\ UNCHANGED <<up, breaker>>

\* The result is counted if the generation is still the one the call began in.
Report(c) ==
    /\ call[c] \in {"succeeded", "failed"}
    /\ LET ok == call[c] = "succeeded"
           b  == IF ok THEN [breaker EXCEPT !.successes = IF @ < MaxRequests THEN @ + 1 ELSE @]
                 ELSE [breaker EXCEPT !.failures = @ + 1, !.successes = 0]
           to == IF ok /\ b.state = "half-open" /\ b.successes >= MaxRequests THEN "closed"
                 ELSE IF ~ok /\ (b.state = "half-open" \/ ReadyToTrip(b)) THEN "open"
                 ELSE b.state
       IN  /\ breaker' = IF Due THEN CurrentBreaker
                         ELSE IF to = breaker.state THEN b ELSE Generation(to)
           /\ call' = [(IF Due \/ to # breaker.state THEN Staled ELSE call)
                          EXCEPT ![c] = "idle"]
    /\ UNCHANGED up

\* A call of an ended generation goes uncounted.
Forget(c) ==
    /\ call[c] = "stale"
    /\ breaker' = CurrentBreaker
    /\ call' = [CurrentCalls EXCEPT ![c] = "idle"]
    /\ UNCHANGED up

\* /readyz asks the breaker for its state.
Readiness == breaker' = CurrentBreaker /\ call' = CurrentCalls /\ UNCHANGED up

Mutant_Ready == up /\ CurrentBreaker.state = "closed"

Ready == up /\ CurrentBreaker.state # "open"

Tick ==
    /\ breaker.left > 0
    /\ breaker' = [breaker EXCEPT !.left = @ - 1]
    /\ UNCHANGED <<up, call>>

\* The database goes down and comes back.
Flip == up' = ~up /\ UNCHANGED <<breaker, call>>

Next ==
    \/ \E c \in Calls : Health(c) \/ Ping(c) \/ Report(c) \/ Forget(c)
    \/ Readiness \/ Tick \/ Flip

\* Time passes.  Nothing is assumed of the database, of the requests or of the
\* probes.
Spec == Init /\ [][Next]_healthVars /\ WF_healthVars(Tick)
-----------------------------------------------------------------------------
\* No more calls are let through a half-open breaker than it has tries.
HalfOpenIsLimited == breaker.state = "half-open" => breaker.requests <= MaxRequests

\* While the breaker is open nothing but time changes it: late answers of pings
\* that began before it opened neither close it nor prolong it.
OpenWaits ==
    breaker.state = "open" /\ breaker'.state # "open"
        => breaker.left = 0 /\ breaker'.state = "half-open"

\* A database that comes back for good makes the server ready for good, whether
\* or not anybody asks /health: the breaker does not stay open.
ReadyAgain == <>[]up => <>[]Ready
=============================================================================
