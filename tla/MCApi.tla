-------------------------------- MODULE MCApi -------------------------------
(***************************************************************************)
(* What a request meets on its way: the limiter of its address, the        *)
(* breaker in front of the database, the middleware and the steps of its   *)
(* handler.  They share no state here: `guard' says which of them acts in  *)
(* a behaviour.                                                            *)
(***************************************************************************)
EXTENDS RateLimiter, Integers, TLC

CONSTANTS
    Calls, MaxRequests, MinRequests, MaxFailures, FailurePercent, Interval, Timeout,
    MaxCounted

\* Numbers of the code and of the library.
ASSUME BreakerAssumption ==
    /\ IsFiniteSet(Calls)
    /\ {MaxRequests, MinRequests, MaxFailures, FailurePercent} \subseteq Nat
    /\ Interval \in Nat /\ Timeout \in Nat /\ Interval <= Timeout

VARIABLES
    guard,
    up, breaker, call,
    redis, dev, route, who, own, pc, wrote, logged, lost, shown, status

healthVars == <<up, breaker, call>>

apiVars == <<redis, dev, route, who, own, pc, wrote, logged, lost, shown, status>>

Probes == INSTANCE HealthProbes

Api == INSTANCE ApiServer

MCInit ==
    /\ guard \in {"limiter", "breaker", "handler"}
    /\ Init
    /\ Probes!Init /\ (guard # "breaker" => up)
    /\ Api!Init /\ (guard # "handler" => redis /\ dev)

MCNext ==
    \/ guard = "limiter" /\ Next /\ UNCHANGED <<guard, healthVars, apiVars>>
    \/ guard = "breaker" /\ Probes!Next /\ UNCHANGED <<guard, vars, apiVars>>
    \/ guard = "handler" /\ Api!Next /\ UNCHANGED <<guard, vars, healthVars>>

MCSpec ==
    /\ MCInit
    /\ [][MCNext]_<<guard, vars, healthVars, apiVars>>
    /\ Fairness
    /\ WF_healthVars(guard = "breaker" /\ Probes!Tick)
-----------------------------------------------------------------------------
\* Of HealthProbes: every variable has its type; a half-open breaker lets no more
\* calls through than its tries, and nothing but time ends the open state.
BreakerHolds ==
    [][Probes!TypeOK' /\ Probes!HalfOpenIsLimited' /\ Probes!OpenWaits]_healthVars

\* Of HealthProbes: a database back for good makes the server ready for good.
ReadyAgain == Probes!ReadyAgain

\* Of ApiServer: every variable has its type, and a request is at a step of its
\* handler.
RequestsTypeOK == Api!TypeOK

\* Of ApiServer: a request that is answered with an error has changed nothing, but
\* for what the code is known to leave behind.
ErrorsChangeNothing == Api!ErrorsChangeNothing

\* Of ApiServer: an answer of success means that the change was made.
SuccessMeansDone == Api!SuccessMeansDone

\* Of ApiServer: every route lets change and see only those who are entitled to.
OnlyEntitledPass == Api!OnlyEntitledPass

\* Of ApiServer: the session routes refuse everybody.
SessionRoutesRefuseAll == Api!SessionRoutesRefuseAll

\* Of ApiServer: the audit log and the tables agree, as far as it is written.
AuditAgrees == Api!AuditAgrees
=============================================================================
