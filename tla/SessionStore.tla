---------------------------- MODULE SessionStore ----------------------------
(***************************************************************************)
(* The sessions of one user in Redis                                       *)
(* (internal/service/session_cache_service.go over cache_service.go): one  *)
(* key per session, and operations that scan, read, delete and set in      *)
(* separate commands.  Keys expire at any time.  LastActivityAt is left    *)
(* out: any session found may be the oldest.                               *)
(*                                                                         *)
(* No handler caches a session yet; the calls of CacheUserSession and of   *)
(* the other writers stand for whoever will.                               *)
(***************************************************************************)
EXTENDS Naturals, FiniteSets

CONSTANTS
    Sessions,  \* tokens: a session is the key session:user:ip:token
    SidOf,     \* the SessionID in the record of each, which eviction uses as a token
    Calls,     \* calls that can be under way at a time
    Max        \* MaxConcurrentSessionsPerUser

VARIABLES
    store,   \* session -> "none", "active" or "revoked"
    scall,   \* the calls
    gone,    \* history: logged out or revoked with no copy of them held
    single,  \* history: no two calls overlapped
    intact   \* history: no command failed

sessionVars == <<store, scall, gone, single, intact>>

NoSession == "none"

\* left: keys still to visit; seen: active ones found; copy: the record read;
\* newer: written by others since the scan.
Idle == [pc |-> "idle", op |-> "none", tok |-> NoSession, left |-> {}, seen |-> {},
         copy |-> "none", newer |-> {}]

Init ==
    /\ store = [s \in Sessions |-> "none"]
    /\ scall = [c \in Calls |-> Idle]
    /\ gone = {}
    /\ single = TRUE
    /\ intact = TRUE

Keys == {s \in Sessions : store[s] # "none"}

Active == {s \in Sessions : store[s] = "active"}

Quiet == \A c \in Calls : scall[c].pc = "idle"

Goto(c, pc) == scall' = [scall EXCEPT ![c].pc = pc]

Done(c) == scall' = [scall EXCEPT ![c] = Idle]

\* A call sets key s; the others that have scanned may not have seen it.
Wrote(c, s) ==
    scall' = [d \in Calls |-> IF d = c THEN Idle
                              ELSE [scall[d] EXCEPT !.newer = @ \cup {s}]]

\* A call that is about to write the session back, or to create it.
Held(s) == \E c \in Calls : scall[c].tok = s /\ scall[c].pc \in {"put", "set"}

Begin(c, op, s, pc) ==
    /\ scall[c].pc = "idle"
    /\ scall' = [scall EXCEPT ![c] = [Idle EXCEPT !.pc = pc, !.op = op, !.tok = s]]
    /\ single' = (single /\ Quiet)
    /\ UNCHANGED <<store, gone, intact>>
-----------------------------------------------------------------------------
(***************************************************************************)
(* CacheUserSession: scan, read each, evict one, set.                      *)
(***************************************************************************)
CacheUserSession(c, s) == store[s] = "none" /\ Begin(c, "add", s, "scan")

\* GetUserActiveSessions, and InvalidateUserSessionsExcept, which skips the
\* key that ends in the token to keep.
ToVisit(c) == IF scall[c].op = "others" THEN Keys \ {scall[c].tok} ELSE Keys

Scan(c) ==
    /\ scall[c].pc = "scan"
    /\ scall' = [scall EXCEPT
           ![c].left = ToVisit(c),
           ![c].pc = IF scall[c].op = "add" THEN "read" ELSE "delete",
           ![c].newer = {}]
    /\ UNCHANGED <<store, gone, single, intact>>

\* A scan that fails admits the new session unchecked and ends a logout.
ScanFails(c) ==
    /\ scall[c].pc = "scan"
    /\ IF scall[c].op = "add" THEN Goto(c, "set") ELSE Done(c)
    /\ intact' = FALSE
    /\ UNCHANGED <<store, gone, single>>

ReadOne(c) ==
    /\ scall[c].pc = "read"
    /\ \E s \in scall[c].left :
         scall' = [scall EXCEPT ![c].left = @ \ {s},
                                ![c].seen = IF store[s] = "active" THEN @ \cup {s} ELSE @]
    /\ UNCHANGED <<store, gone, single, intact>>

Mutant_Full(n) == n > Max

Full(n) == n >= Max

AllRead(c) ==
    /\ scall[c].pc = "read"
    /\ scall[c].left = {}
    /\ Goto(c, IF Full(Cardinality(scall[c].seen)) THEN "evict" ELSE "set")
    /\ UNCHANGED <<store, gone, single, intact>>

Deleted(s) == [store EXCEPT ![s] = "none"]

Evict(c) ==
    /\ scall[c].pc = "evict"
    /\ \/ /\ \E s \in scall[c].seen :
               store' = IF SidOf[s] \in Sessions THEN Deleted(SidOf[s]) ELSE store
          /\ UNCHANGED intact
       \/ intact' = FALSE /\ UNCHANGED store
    /\ Goto(c, "set")
    /\ UNCHANGED <<gone, single>>

Set(c) ==
    LET s == scall[c].tok IN
    /\ scall[c].pc = "set"
    /\ store' = [store EXCEPT ![s] = "active"]
    /\ gone' = gone \ {s}
    /\ Wrote(c, s)
    /\ UNCHANGED <<single, intact>>
-----------------------------------------------------------------------------
(***************************************************************************)
(* UpdateSessionActivity and RevokeUserSession: get, then set.             *)
(***************************************************************************)
Mutant_Found(s) == TRUE

Found(s) == store[s] # "none"

Modify(c, op, s) ==
    /\ scall[c].pc = "idle"
    /\ Found(s)
    /\ scall' = [scall EXCEPT ![c] = [Idle EXCEPT !.pc = "put", !.op = op, !.tok = s,
                     !.copy = IF op = "revoke" \/ store[s] = "revoked"
                              THEN "revoked" ELSE "active"]]
    /\ single' = (single /\ Quiet)
    /\ UNCHANGED <<store, gone, intact>>

Put(c) ==
    LET s == scall[c].tok IN
    /\ scall[c].pc = "put"
    /\ store' = [store EXCEPT ![s] = scall[c].copy]
    /\ gone' = IF scall[c].op = "revoke" /\ \A d \in Calls \ {c} :
                    ~(scall[d].tok = s /\ scall[d].pc \in {"put", "set"})
               THEN gone \cup {s} ELSE gone
    /\ Wrote(c, s)
    /\ UNCHANGED <<single, intact>>
-----------------------------------------------------------------------------
(***************************************************************************)
(* InvalidateUserSession, InvalidateUserSessions (by pattern, key by key)  *)
(* and InvalidateUserSessionsExcept.                                       *)
(***************************************************************************)
Lost(s) == IF Held(s) THEN gone ELSE gone \cup {s}

InvalidateUserSession(s) ==
    /\ store[s] # "none"
    /\ store' = Deleted(s)
    /\ gone' = Lost(s)
    /\ UNCHANGED <<scall, single, intact>>

InvalidateUserSessions(c) == Begin(c, "all", NoSession, "scan")

InvalidateUserSessionsExcept(c, s) ==
    store[s] = "active" /\ Begin(c, "others", s, "scan")

DeleteOne(c) ==
    /\ scall[c].pc = "delete"
    /\ \E s \in scall[c].left :
         /\ scall' = [scall EXCEPT ![c].left = @ \ {s}]
         /\ \/ store' = Deleted(s) /\ gone' = Lost(s) /\ UNCHANGED intact
            \/ intact' = FALSE /\ UNCHANGED <<store, gone>>
    /\ UNCHANGED single

AllDeleted(c) ==
    /\ scall[c].pc = "delete"
    /\ scall[c].left = {}
    /\ Done(c)
    /\ UNCHANGED <<store, gone, single, intact>>

Expire(s) ==
    /\ store[s] # "none"
    /\ store' = Deleted(s)
    /\ UNCHANGED <<scall, gone, single, intact>>

Proceed(c) ==
    \/ Scan(c)
    \/ ScanFails(c)
    \/ ReadOne(c)
    \/ AllRead(c)
    \/ Evict(c)
    \/ Set(c)
    \/ Put(c)
    \/ DeleteOne(c)
    \/ AllDeleted(c)

Start(c, s) ==
    \/ CacheUserSession(c, s)
    \/ Modify(c, "activity", s)
    \/ Modify(c, "revoke", s)
    \/ InvalidateUserSessionsExcept(c, s)

Next ==
    \/ \E c \in Calls, s \in Sessions : Start(c, s)
    \/ \E c \in Calls : InvalidateUserSessions(c)
    \/ \E c \in Calls : Proceed(c)
    \/ \E s \in Sessions : InvalidateUserSession(s)
    \/ \E s \in Sessions : Expire(s)

Spec == Init /\ [][Next]_sessionVars
-----------------------------------------------------------------------------
\* Every variable has its type.
TypeOK ==
    /\ store \in [Sessions -> {"none", "active", "revoked"}]
    /\ scall \in [Calls -> [pc : {"idle", "scan", "read", "evict", "set", "put", "delete"},
                            op : {"none", "add", "activity", "revoke", "all", "others"},
                            tok : Sessions \cup {NoSession}, left : SUBSET Sessions,
                            seen : SUBSET Sessions, copy : {"none", "active", "revoked"},
                            newer : SUBSET Sessions]]
    /\ gone \subseteq Sessions
    /\ single \in BOOLEAN
    /\ intact \in BOOLEAN

\* While calls come one at a time and no command fails, a user has no more than
\* MaxConcurrentSessionsPerUser active sessions.  (Two overlapping logins evict
\* the same session and add two, and nothing brings the number down again.)
WithinMaxSessions == single /\ intact => Cardinality(Active) <= Max

\* A session that was logged out or revoked while no call held a copy of it is
\* not active again unless it is cached anew: of the writers, only one that read
\* it before brings it back.
GoneStaysGone == \A s \in gone : store[s] # "active"

\* "Log out all others" and "log out everywhere" leave behind only the session
\* to keep and those written by others since the scan, unless a command fails.
LogoutReachesTheOthers ==
    intact => \A c \in Calls : scall[c].pc = "delete" =>
        Active \subseteq scall[c].left \cup scall[c].newer \cup {scall[c].tok}
=============================================================================
