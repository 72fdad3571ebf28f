--------------------------- MODULE MemoryLimiter ----------------------------
(***************************************************************************)
(* The in-memory limiter that Login falls back to when there is no Redis   *)
(* (RateLimiter of internal/middleware/rate_limit.go), for one address.    *)
(* The map holds a pointer to an entry.  IsAllowed fetches it under the    *)
(* read lock and then reads its fields with no lock, while RecordFailure   *)
(* writes them; the two reads are steps of their own.  The entry stays     *)
(* shared with who fetched it until the map drops it, and is then left as  *)
(* it was.                                                                 *)
(*                                                                         *)
(* Login calls IsAllowed only; the callers of RecordFailure and            *)
(* RecordSuccess are those that the limiter is written for.  Times are     *)
(* relative, in ticks.                                                     *)
(***************************************************************************)
EXTENDS Naturals

CONSTANTS
    Attempts,         \* logins that can be under way at a time
    MaxAttempts,
    LockoutDuration,
    ResetWindow

VARIABLES
    entry,    \* what the map holds for the address
    login,    \* the logins
    apart     \* history: no check of a login overlapped another login

limiterVars == <<entry, login, apart>>

\* The age of an entry is counted as far as anything tells ages apart.
Oldest == IF ResetWindow + 1 > LockoutDuration THEN ResetWindow + 1 ELSE LockoutDuration

\* failed is counted up to MaxAttempts + 1: only ">= MaxAttempts" is tested.
NoEntry == [here |-> FALSE, failed |-> 0, left |-> 0, idle |-> 0]

\* own: the entry as it was when the map dropped it; shared: it has not yet.
Idle == [pc |-> "idle", shared |-> FALSE, own |-> NoEntry]

Init ==
    /\ entry = NoEntry
    /\ login = [l \in Attempts |-> Idle]
    /\ apart = TRUE

InForce == entry.here /\ entry.left > 0

\* What the pointer that a login holds points to.
At(l) == IF login[l].shared THEN entry ELSE login[l].own

Goto(l, pc) == login' = [login EXCEPT ![l].pc = pc]

\* The map drops its entry; who holds a pointer to it keeps it.
Orphaned(f) ==
    [l \in Attempts |-> IF f[l].shared
                        THEN [f[l] EXCEPT !.shared = FALSE, !.own = entry] ELSE f[l]]
-----------------------------------------------------------------------------
(***************************************************************************)
(* IsAllowed.                                                              *)
(***************************************************************************)
Fetch(l) ==
    /\ login[l].pc = "idle"
    /\ login' = [login EXCEPT ![l] = [Idle EXCEPT !.shared = entry.here,
                                  !.pc = IF entry.here THEN "locked" ELSE "allowed"]]
    /\ apart' = (apart /\ \A k \in Attempts : login[k].pc = "idle")
    /\ UNCHANGED entry

\* LockedUntil.After(now)
After(left) == left > 0

ReadLockedUntil(l) ==
    /\ login[l].pc = "locked"
    /\ IF After(At(l).left) THEN login' = [login EXCEPT ![l] = Idle] ELSE Goto(l, "count")
    /\ UNCHANGED <<entry, apart>>

Reached(n) == n >= MaxAttempts

ReadFailedAttempts(l) ==
    /\ login[l].pc = "count"
    /\ Goto(l, IF Reached(At(l).failed) THEN "drop" ELSE "allowed")
    /\ UNCHANGED <<entry, apart>>

\* The entry in the map by now, whichever it is.
Drop(l) ==
    /\ login[l].pc = "drop"
    /\ login' = Orphaned([login EXCEPT ![l].pc = "allowed"])
    /\ entry' = NoEntry
    /\ UNCHANGED apart
-----------------------------------------------------------------------------
(***************************************************************************)
(* The outcome of the login, each under the lock.                          *)
(***************************************************************************)
Counted ==
    IF entry.idle > ResetWindow THEN 1
    ELSE IF entry.failed > MaxAttempts THEN entry.failed ELSE entry.failed + 1

\* From now on, whatever is left of a lock in force.
Lock == LockoutDuration

Failed ==
    IF ~entry.here THEN [here |-> TRUE, failed |-> 1, left |-> 0, idle |-> 0]
    ELSE [entry EXCEPT !.failed = Counted, !.idle = 0,
                       !.left = IF Counted >= MaxAttempts THEN Lock ELSE @]

RecordFailure(l) ==
    /\ login[l].pc = "allowed"
    /\ entry' = Failed
    /\ login' = [login EXCEPT ![l] = Idle]
    /\ UNCHANGED apart

RecordSuccess(l) ==
    /\ login[l].pc = "allowed"
    /\ login' = Orphaned([login EXCEPT ![l] = Idle])
    /\ entry' = NoEntry
    /\ UNCHANGED apart

Mutant_Old(e) == e.idle > ResetWindow \/ e.left = 0

Old(e) == e.idle > ResetWindow /\ e.left = 0

\* The cleanup goroutine, until Close.
Cleanup ==
    /\ entry.here /\ Old(entry)
    /\ entry' = NoEntry
    /\ login' = Orphaned(login)
    /\ UNCHANGED apart

Aged(e) ==
    [e EXCEPT !.left = IF @ = 0 THEN 0 ELSE @ - 1,
              !.idle = IF e.here /\ @ < Oldest THEN @ + 1 ELSE @]

Tick ==
    /\ entry' = Aged(entry)
    /\ login' = [l \in Attempts |-> [login[l] EXCEPT !.own = Aged(@)]]
    /\ UNCHANGED apart

Next ==
    \/ \E l \in Attempts : Fetch(l)
    \/ \E l \in Attempts : ReadLockedUntil(l)
    \/ \E l \in Attempts : ReadFailedAttempts(l)
    \/ \E l \in Attempts : Drop(l)
    \/ \E l \in Attempts : RecordFailure(l)
    \/ \E l \in Attempts : RecordSuccess(l)
    \/ Cleanup
    \/ Tick

Spec == Init /\ [][Next]_limiterVars
-----------------------------------------------------------------------------
EntryType == [here : BOOLEAN, failed : 0..(MaxAttempts + 1),
              left : 0..LockoutDuration, idle : 0..Oldest]

\* Every variable has its type.
TypeOK ==
    /\ entry \in EntryType
    /\ login \in [Attempts -> [pc : {"idle", "locked", "count", "drop", "allowed"},
                               shared : BOOLEAN, own : EntryType]]
    /\ \A l \in Attempts : login[l].shared => entry.here
    /\ apart \in BOOLEAN

\* Of logins that come one at a time, none ends a lock in force but by succeeding,
\* and the clean-up never does: a lock that is set runs for its time.  (A check
\* that overlaps a failure may find the lock not set yet and the count reached,
\* and then drops the entry with its lock.)
LockEndsByTime ==
    apart /\ InForce => InForce' \/ Tick \/ \E l \in Attempts : RecordSuccess(l)

\* With MaxAttempts above one, even when checks and failures overlap, an entry at
\* the limit has its lock, or has lasted for LockoutDuration since: no order of
\* the steps leaves an address that has failed MaxAttempts times and was never
\* locked.  (The first failure only makes the entry: with MaxAttempts = 1 it would
\* lock nobody out.)
LimitLocks ==
    MaxAttempts > 1 /\ entry.here /\ entry.failed >= MaxAttempts =>
        entry.left > 0 \/ entry.idle >= LockoutDuration
=============================================================================
