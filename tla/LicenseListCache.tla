-------------------------- MODULE LicenseListCache --------------------------
(***************************************************************************)
(* The licence list of internal/handler/license_handler.go (GetLicenses)   *)
(* and the Redis cache it is served from, internal/cache/license_cache.go. *)
(* An administrator reads the key "admin:all", any other user a key of his *)
(* own; each of them holds the WHOLE table, and a user's answer is filtered *)
(* after it is read.  A handler that writes a licence deletes the owner's  *)
(* key and then the administrators', after its database write; the bulk    *)
(* revocations of internal/service/bulk_operation_service.go delete none.  *)
(* Errors of Redis are dropped.                                            *)
(*                                                                         *)
(* A licence is reduced to its version, the number of writes committed to  *)
(* it: 0 is a licence not created yet.                                     *)
(***************************************************************************)
EXTENDS Naturals, FiniteSets

CONSTANTS
    Users,      \* users with a key of their own
    Admin,      \* the key of the administrators
    Licenses,
    Owner,      \* the user of each licence
    Requests,   \* goroutines of the HTTP server
    Missing,    \* what Redis holds under a key that is not set
    MaxWrites   \* bound: writes to each licence

Snapshot == [Licenses -> 0..MaxWrites]

ASSUME CacheAssumption ==
    /\ Licenses # {} /\ Admin \notin Users
    /\ Owner \in [Licenses -> Users]
    /\ MaxWrites \in Nat
    /\ Missing \notin Snapshot

VARIABLES
    db,       \* the version of each licence in the database
    cache,    \* what Redis holds under each key
    req,      \* what each request is doing
    excused   \* history: a write whose deletes did not all reach Redis, or a list
              \* stored when a write had made it out of date

vars == <<db, cache, req, excused>>

\* getCacheKey: a viewer is named by the key he reads.
Keys == Users \cup {Admin}

Visible(k, list) == {l \in Licenses : list[l] > 0 /\ (k = Admin \/ Owner[l] = k)}

Request == [pc   : {"idle", "fetch", "set", "deleteUser", "deleteAdmin"},
            key  : Keys,
            list : Snapshot \cup {Missing},
            id   : Licenses]

Idle == [pc |-> "idle", key |-> Admin, list |-> Missing,
         id |-> CHOOSE l \in Licenses : TRUE]

Init ==
    /\ db = [l \in Licenses |-> 0]
    /\ cache = [k \in Keys |-> Missing]
    /\ req = [r \in Requests |-> Idle]
    /\ excused = FALSE

Step(r, q) == req' = [req EXCEPT ![r] = q]
-----------------------------------------------------------------------------
(***************************************************************************)
(* GetLicenses.                                                            *)
(***************************************************************************)
OnMiss(k) == [Idle EXCEPT !.pc = "fetch", !.key = k]

\* Get: a hit answers at once; an error of Redis is a miss.
GetLicenses(r, k) ==
    /\ req[r].pc = "idle"
    /\ \/ cache[k] # Missing /\ UNCHANGED req
       \/ Step(r, OnMiss(k))
    /\ UNCHANGED <<db, cache, excused>>

\* GetAll, in one statement; an error answers 500.
FetchLicenses(r) ==
    /\ req[r].pc = "fetch"
    /\ \/ Step(r, [req[r] EXCEPT !.pc = "set", !.list = db])
       \/ Step(r, Idle)
    /\ UNCHANGED <<db, cache, excused>>

\* Set, with the time to live; then the answer.
SetCache(r) ==
    /\ req[r].pc = "set"
    /\ \/ /\ cache' = [cache EXCEPT ![req[r].key] = req[r].list]
          /\ excused' = (excused \/ req[r].list # db)
       \/ UNCHANGED <<cache, excused>>
    /\ Step(r, Idle)
    /\ UNCHANGED db
-----------------------------------------------------------------------------
(***************************************************************************)
(* CreateLicense, RenewLicense, RevokeLicense, UpdateLicenseStatus: the    *)
(* database write, then InvalidateLicense, which deletes two keys.         *)
(***************************************************************************)
\* (A write whose answer is lost is committed and answered 500.)
WriteLicense(r, l) ==
    /\ req[r].pc = "idle"
    /\ db[l] < MaxWrites
    /\ db' = [db EXCEPT ![l] = @ + 1]
    /\ \/ Step(r, [Idle EXCEPT !.pc = "deleteUser", !.id = l]) /\ UNCHANGED excused
       \/ excused' = TRUE /\ UNCHANGED req
    /\ UNCHANGED cache

Deletes(k) ==
    \/ cache' = [cache EXCEPT ![k] = Missing] /\ UNCHANGED excused
    \/ excused' = TRUE /\ UNCHANGED cache

Mutant_InvalidateUser(r) ==
    /\ req[r].pc = "deleteUser"
    /\ Deletes(Admin)
    /\ Step(r, [req[r] EXCEPT !.pc = "deleteAdmin"])
    /\ UNCHANGED db

InvalidateUser(r) ==
    /\ req[r].pc = "deleteUser"
    /\ Deletes(Owner[req[r].id])
    /\ Step(r, [req[r] EXCEPT !.pc = "deleteAdmin"])
    /\ UNCHANGED db

InvalidateAdmin(r) ==
    /\ req[r].pc = "deleteAdmin"
    /\ Deletes(Admin)
    /\ Step(r, Idle)
    /\ UNCHANGED db

BulkRevokeLicense(r, l) ==
    /\ req[r].pc = "idle"
    /\ db[l] \in 1..(MaxWrites - 1)
    /\ db' = [db EXCEPT ![l] = @ + 1]
    /\ excused' = TRUE
    /\ UNCHANGED <<cache, req>>
-----------------------------------------------------------------------------
Mutant_Expire(k) == FALSE /\ UNCHANGED vars

\* The time to live of a key runs out.
Expire(k) ==
    /\ cache[k] # Missing
    /\ cache' = [cache EXCEPT ![k] = Missing]
    /\ UNCHANGED <<db, req, excused>>

Proceed(r) ==
    \/ FetchLicenses(r)
    \/ SetCache(r)
    \/ InvalidateUser(r)
    \/ InvalidateAdmin(r)

Next ==
    \/ \E r \in Requests, k \in Keys : GetLicenses(r, k)
    \/ \E r \in Requests, l \in Licenses : WriteLicense(r, l)
    \/ \E r \in Requests, l \in Licenses : BulkRevokeLicense(r, l)
    \/ \E r \in Requests : Proceed(r)
    \/ \E k \in Keys : Expire(k)

\* A request under way is not abandoned, and Redis expires its keys.  Nothing
\* obliges a client to send a request.
Fairness ==
    /\ \A r \in Requests : WF_vars(Proceed(r))
    /\ \A k \in Keys : WF_vars(Expire(k))

Spec == Init /\ [][Next]_vars /\ Fairness
-----------------------------------------------------------------------------
\* Every variable has its type, and what a request is about to put in the cache
\* is a list that it read from the database.
TypeOK ==
    /\ db \in Snapshot
    /\ cache \in [Keys -> Snapshot \cup {Missing}]
    /\ req \in [Requests -> Request]
    /\ excused \in BOOLEAN
    /\ \A r \in Requests : req[r].pc = "set" => req[r].list \in Snapshot

Fresh(k) ==
    cache[k] # Missing =>
        /\ Visible(k, cache[k]) = Visible(k, db)
        /\ \A l \in Visible(k, db) : cache[k][l] = db[l]

\* Between requests, what any viewer would be shown from the cache is what the
\* database holds: the two keys that InvalidateLicense deletes, in whatever order
\* the steps of two requests fall, are all that a write can make stale.  There are
\* two exceptions: a delete that is never made or is lost, and a list that is
\* stored when a write has come since it was read.
FreshBetweenRequests ==
    ~excused /\ (\A r \in Requests : req[r].pc = "idle") => \A k \in Keys : Fresh(k)

\* What the race and the missing deletes do is not for ever: once no more is
\* written, every stale list is gone in the end, whoever goes on reading.
StalenessEnds == <>[](\A k \in Keys : Fresh(k))
=============================================================================
