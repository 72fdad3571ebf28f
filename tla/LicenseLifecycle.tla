-------------------------- MODULE LicenseLifecycle --------------------------
(***************************************************************************)
(* One licence, its activation rows, and the HTTP requests that work on    *)
(* them.  Every repository call of internal/service/license_service.go,    *)
(* machine_fingerprint_service.go, bulk_operation_service.go and           *)
(* internal/handler/license_handler.go is a database statement of its own, *)
(* outside any transaction, and Update is gorm's Save, which writes back   *)
(* every column of the row the request read earlier.  A request is         *)
(* therefore a small program: read, (read,) write, with the steps of other *)
(* requests in between.                                                    *)
(*                                                                         *)
(* The columns kept are the ones these programs decide on: status,         *)
(* revoked_at (set or NULL), expires_at, max_activations; and, for an      *)
(* activation, machine_fingerprint and deactivated_at (set or NULL).       *)
(* Activations are kept in the order of their primary keys.                *)
(***************************************************************************)
EXTENDS Naturals, Sequences, FiniteSets

CONSTANTS
    Machines,   \* machine fingerprints the clients send
    Requests,   \* goroutines of the HTTP server; each serves request after request
    Dates,      \* expiry dates that creations and renewals ask for
    Limits,     \* maxActivations values that creations ask for
    MaxRows,    \* bound: activation rows ever created
    MaxTime     \* bound: how far the clock runs

ASSUME LifecycleAssumption ==
    /\ Machines # {}
    /\ Dates \subseteq Nat
    /\ Limits \subseteq Nat
    /\ MaxRows \in Nat
    /\ MaxTime \in Nat

VARIABLES
    now,          \* the clock of time.Now()
    license,      \* the row of table licenses
    activations,  \* the rows of table license_activations, in primary key order
    req,          \* what each request is doing, with the rows it holds in memory
    wasUsable,    \* history: the licence was usable at some point of the request
    wasActive     \* history: its machine's activation was active at some point

vars == <<now, license, activations, req, wasUsable, wasActive>>
-----------------------------------------------------------------------------
(***************************************************************************)
(* Rows and what the code computes from them.                              *)
(***************************************************************************)
Statuses == {"Active", "Revoked", "Suspended"}

License == [status : Statuses \cup {"none"}, revoked : BOOLEAN,
            expires : Nat, max : Nat]

NoLicense == [status |-> "none", revoked |-> FALSE, expires |-> 0, max |-> 0]

Activation == [machine : Machines, active : BOOLEAN]

Exists(l) == l.status # "none"

IsExpired(l, t) == t > l.expires

IsRevoked(l) == l.revoked

Usable(l, t) == Exists(l) /\ ~IsExpired(l, t) /\ ~IsRevoked(l)

ActiveRows(rows) == {i \in DOMAIN rows : rows[i].active}

\* GetByLicenseKey issues no Preload: the Activations slice of a licence read
\* from the database is empty whatever rows there are.
Preloaded(rows) == {}

CanActivate(l, t, loaded) ==
    Usable(l, t) /\ (l.max = 0 \/ Cardinality(loaded) < l.max)

\* max_activations has the column default 1, which gorm's Create stores in the
\* place of a zero value.
StoredLimit(max) == IF max = 0 THEN 1 ELSE max

Mutant_Governing(rows, m) == {i \in DOMAIN rows : rows[i].machine = m}

\* The row First() returns for a machine: the one with the least primary key,
\* deactivated or not.  Empty or a singleton.
Governing(rows, m) ==
    {i \in DOMAIN rows : /\ rows[i].machine = m
                         /\ \A j \in 1..(i - 1) : rows[j].machine # m}

MachineActive(rows, m) == \E i \in Governing(rows, m) : rows[i].active

\* The columns UpdateLicenseStatus assigns.
WithStatus(l, s) == [l EXCEPT !.status = s, !.revoked = (s = "Revoked")]

\* The column RenewLicense assigns.
Mutant_Renewed(l, date) ==
    [l EXCEPT !.expires = date, !.revoked = FALSE, !.status = "Active"]
Renewed(l, date) == [l EXCEPT !.expires = date]

\* The one column the bulk revocation assigns: status keeps its value.
BulkRevoked(l) == [l EXCEPT !.revoked = TRUE]
-----------------------------------------------------------------------------
(***************************************************************************)
(* Requests.  `op' is the operation, `pc' its next database statement;     *)
(* `id', `active' are the activation row it holds, with deactivated_at as  *)
(* it will write it; `copy' is the licence row it will write.              *)
(***************************************************************************)
MachineOps == {"Activate", "Validate", "Heartbeat", "Deactivate", "Track"}
AdminOps   == {"Create", "Renew", "Revoke", "Status", "BulkRevoke"}

AnyMachine == CHOOSE m \in Machines : TRUE

Request == [pc      : {"idle", "find", "create", "saveActivation",
                       "saveLicense", "done"},
            op      : MachineOps \cup AdminOps \cup {"none"},
            machine : Machines,
            id      : Nat,
            active  : BOOLEAN,
            copy    : License,
            result  : {"none", "ok", "refused"}]

Idle == [pc |-> "idle", op |-> "none", machine |-> AnyMachine, id |-> 0,
         active |-> FALSE, copy |-> NoLicense, result |-> "none"]

Call(o, m)     == [Idle EXCEPT !.op = o, !.machine = m]
Reaches(q, l)  == [q EXCEPT !.pc = l]
Holds(q, i, a) == [q EXCEPT !.pc = "saveActivation", !.id = i, !.active = a]
Writes(q, l)   == [q EXCEPT !.pc = "saveLicense", !.copy = l]
Answers(q, a)  == [Idle EXCEPT !.pc = "done", !.op = q.op,
                               !.machine = q.machine, !.result = a]

Step(r, q) == req' = [req EXCEPT ![r] = q]

\* History of what was true while a request was under way.
Observe ==
    /\ wasUsable' = [r \in Requests |->
                       /\ req'[r].pc # "idle"
                       /\ wasUsable[r] \/ Usable(license', now')]
    /\ wasActive' = [r \in Requests |->
                       /\ req'[r].pc # "idle"
                       /\ \/ wasActive[r]
                          \/ MachineActive(activations', req'[r].machine)]

Init ==
    /\ now = 0
    /\ license = NoLicense
    /\ activations = <<>>
    /\ req = [r \in Requests |-> Idle]
    /\ wasUsable = [r \in Requests |-> FALSE]
    /\ wasActive = [r \in Requests |-> FALSE]

Tick ==
    /\ now < MaxTime
    /\ now' = now + 1
    /\ UNCHANGED <<license, activations, req>>
    /\ Observe
-----------------------------------------------------------------------------
(***************************************************************************)
(* First statement of each handler: read the licence, check the copy.  The *)
(* second disjunct is the answer when a check fails or the read does.      *)
(***************************************************************************)
Begins(r) == req[r].pc = "idle" /\ UNCHANGED <<now, license, activations>>

CreateLicense(r, date, max) ==
    /\ req[r].pc = "idle"
    /\ \/ /\ ~Exists(license)
          /\ license' = [status |-> "Active", revoked |-> FALSE,
                         expires |-> date, max |-> StoredLimit(max)]
          /\ Step(r, Answers(Call("Create", AnyMachine), "ok"))
       \/ /\ UNCHANGED license
          /\ Step(r, Answers(Call("Create", AnyMachine), "refused"))
    /\ UNCHANGED <<now, activations>>
    /\ Observe

ActivateLicense(r, m) ==
    /\ Begins(r)
    /\ \/ /\ CanActivate(license, now, Preloaded(activations))
          /\ Step(r, Reaches(Call("Activate", m), "create"))
       \/ Step(r, Answers(Call("Activate", m), "refused"))
    /\ Observe

\* ValidateLicense and Heartbeat make the same two checks of the licence.
CheckIn(r, o, m) ==
    /\ Begins(r)
    /\ \/ /\ Usable(license, now)
          /\ Step(r, Reaches(Call(o, m), "find"))
       \/ Step(r, Answers(Call(o, m), "refused"))
    /\ Observe

\* DeactivateLicense and TrackMachine ask only that the licence exists.  (No
\* caller ever blacklists a machine, so TrackMachine's other check passes.)
TouchMachine(r, o, m) ==
    /\ Begins(r)
    /\ \/ /\ Exists(license)
          /\ Step(r, Reaches(Call(o, m), "find"))
       \/ Step(r, Answers(Call(o, m), "refused"))
    /\ Observe

RenewLicense(r, date) ==
    LET q == Call("Renew", AnyMachine) IN
    /\ Begins(r)
    /\ \/ /\ Exists(license)
          /\ Step(r, Writes(q, Renewed(license, date)))
       \/ Step(r, Answers(q, "refused"))
    /\ Observe

RevokeLicense(r) ==
    LET q == Call("Revoke", AnyMachine) IN
    /\ Begins(r)
    /\ \/ /\ Exists(license) /\ ~IsRevoked(license)
          /\ Step(r, Writes(q, WithStatus(license, "Revoked")))
       \/ Step(r, Answers(q, "refused"))
    /\ Observe

UpdateLicenseStatus(r, s) ==
    LET q == Call("Status", AnyMachine) IN
    /\ Begins(r)
    /\ \/ /\ Exists(license)
          /\ Step(r, Writes(q, WithStatus(license, s)))
       \/ Step(r, Answers(q, "refused"))
    /\ Observe

BulkRevokeLicense(r) ==
    LET q == Call("BulkRevoke", AnyMachine) IN
    /\ Begins(r)
    /\ \/ /\ Exists(license) /\ ~IsRevoked(license)
          /\ Step(r, Writes(q, BulkRevoked(license)))
       \/ Step(r, Answers(q, "refused"))
    /\ Observe
-----------------------------------------------------------------------------
(***************************************************************************)
(* Second statement: look the machine's activation up.                     *)
(***************************************************************************)
Mutant_Found(q, i) ==
    CASE q.op \in {"Validate", "Heartbeat"} -> Holds(q, i, TRUE)
      [] q.op = "Deactivate" -> Holds(q, i, FALSE)
      [] OTHER -> Holds(q, i, activations[i].active)

\* What the handler does with the row found.
Found(q, i) ==
    CASE q.op = "Deactivate" -> Holds(q, i, FALSE)
      [] q.op = "Track" -> Holds(q, i, activations[i].active)
      [] OTHER -> IF activations[i].active THEN Holds(q, i, TRUE)
                                           ELSE Answers(q, "refused")

Mutant_NotFound(q) ==
    IF q.op = "Track" THEN Holds(q, 0, TRUE) ELSE Answers(q, "refused")

\* No row, or the read failed: TrackMachine drops the error and takes the
\* machine for a new one.
NotFound(q) ==
    IF q.op = "Track" THEN Reaches(q, "create") ELSE Answers(q, "refused")

FindActivation(r) ==
    /\ req[r].pc = "find"
    /\ \/ \E i \in Governing(activations, req[r].machine) :
             Step(r, Found(req[r], i))
       \/ Step(r, NotFound(req[r]))
    /\ UNCHANGED <<now, license, activations>>
    /\ Observe

(***************************************************************************)
(* Last statement: the write, which may fail.                              *)
(***************************************************************************)
CreateActivation(r) ==
    /\ req[r].pc = "create"
    /\ \/ /\ Len(activations) < MaxRows
          /\ activations' = Append(activations,
                                   [machine |-> req[r].machine, active |-> TRUE])
          /\ Step(r, Answers(req[r], "ok"))
       \/ /\ UNCHANGED activations
          /\ Step(r, Answers(req[r], "refused"))
    /\ UNCHANGED <<now, license>>
    /\ Observe

\* ValidateLicense discards the error of its write; the others report it.
SaveActivation(r) ==
    LET q == req[r] IN
    /\ q.pc = "saveActivation"
    /\ \/ /\ activations' = [activations EXCEPT
                ![q.id] = [machine |-> q.machine, active |-> q.active]]
          /\ Step(r, Answers(q, "ok"))
       \/ /\ UNCHANGED activations
          /\ Step(r, Answers(q, IF q.op = "Validate" THEN "ok" ELSE "refused"))
    /\ UNCHANGED <<now, license>>
    /\ Observe

SaveLicense(r) ==
    /\ req[r].pc = "saveLicense"
    /\ \/ /\ license' = req[r].copy
          /\ Step(r, Answers(req[r], "ok"))
       \/ /\ UNCHANGED license
          /\ Step(r, Answers(req[r], "refused"))
    /\ UNCHANGED <<now, activations>>
    /\ Observe

\* The response is on the wire and the goroutine is free for another request.
Finish(r) ==
    /\ req[r].pc = "done"
    /\ Step(r, Idle)
    /\ UNCHANGED <<now, license, activations>>
    /\ Observe

Handle(r) ==
    \/ \E date \in Dates, max \in Limits : CreateLicense(r, date, max)
    \/ \E m \in Machines : ActivateLicense(r, m)
    \/ \E m \in Machines, o \in {"Validate", "Heartbeat"} : CheckIn(r, o, m)
    \/ \E m \in Machines, o \in {"Deactivate", "Track"} : TouchMachine(r, o, m)
    \/ \E date \in Dates : RenewLicense(r, date)
    \/ RevokeLicense(r)
    \/ \E s \in Statuses : UpdateLicenseStatus(r, s)
    \/ BulkRevokeLicense(r)
    \/ FindActivation(r)
    \/ CreateActivation(r)
    \/ SaveActivation(r)
    \/ SaveLicense(r)
    \/ Finish(r)

Next == Tick \/ \E r \in Requests : Handle(r)

Spec == Init /\ [][Next]_vars
-----------------------------------------------------------------------------
(***************************************************************************)
(* What holds whatever the interleaving.                                   *)
(***************************************************************************)

\* Every variable has its type, and a request about to save an activation holds
\* the key of a row that exists.
TypeOK ==
    /\ now \in Nat
    /\ license \in License
    /\ activations \in Seq(Activation)
    /\ req \in [Requests -> Request]
    /\ wasUsable \in [Requests -> BOOLEAN]
    /\ wasActive \in [Requests -> BOOLEAN]
    /\ \A r \in Requests :
          req[r].pc = "saveActivation" => req[r].id \in DOMAIN activations

Succeeded(r, ops) == req[r].result = "ok" /\ req[r].op \in ops

\* An activation, a validation or a heartbeat that succeeds was served while
\* the licence existed, unexpired and unrevoked, at some moment between its
\* request and its answer: no later write to either table can make
\* ActivateLicense, ValidateLicense or Heartbeat answer for a licence that was
\* unusable all along.
UnusableLicenseNeverServed ==
    \A r \in Requests :
        Succeeded(r, {"Activate", "Validate", "Heartbeat"}) => wasUsable[r]

\* A validation or heartbeat that succeeds found the machine's activation
\* active at some moment between its request and its answer.
InactiveMachineNeverServed ==
    \A r \in Requests :
        Succeeded(r, {"Validate", "Heartbeat"}) => wasActive[r]

\* No interleaving of reads and writes makes a request succeed for a licence or
\* an activation that was unusable all along.
OnlyUsableServed == UnusableLicenseNeverServed /\ InactiveMachineNeverServed

\* Every lookup of an activation takes the machine's oldest row, so a second
\* row of the same machine (a repeated activation, or two requests that both
\* found none) can never be deactivated: it counts as active for ever.
LaterRowsStayActive ==
    \A i \in DOMAIN activations :
        ~activations[i].active =>
            \A j \in 1..(i - 1) : activations[j].machine # activations[i].machine

(***************************************************************************)
(* Two steps that a run asks for where requests do not overlap: when they  *)
(* do, a request writes back columns that it read before another's write.  *)
(***************************************************************************)

\* The step makes no deactivated activation active.
KeepsDeactivations ==
    \A i \in DOMAIN activations :
        ~activations[i].active => ~activations'[i].active

\* The step makes no revoked licence unrevoked, unless it is the write of an
\* administrator's status update.
KeepsRevocations ==
    IsRevoked(license) /\ ~IsRevoked(license') =>
        \E r \in Requests : req[r].pc = "saveLicense" /\ req[r].op = "Status"

(***************************************************************************)
(* What the code says and does not do, even when requests do not overlap.  *)
(***************************************************************************)

\* A licence has no more active activations than max_activations.
WithinMaxActivations ==
    Exists(license) /\ license.max # 0 =>
        Cardinality(ActiveRows(activations)) <= license.max
=============================================================================
