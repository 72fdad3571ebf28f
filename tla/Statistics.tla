------------------------------ MODULE Statistics ----------------------------
(***************************************************************************)
(* DashboardStatsService: the enhanced dashboard is put together from      *)
(* services that each read the tables for themselves, one after the other, *)
(* while the licenses change.                                              *)
(***************************************************************************)
EXTENDS Integers, FiniteSetsExt

CONSTANTS
    Licenses,
    Expiries,               \* days from now on which a license can expire
    Week, Month, Quarter,   \* the days of the forecast: 7, 30 and 90
    MaxChanges              \* bound: the licenses changed during a report

VARIABLES
    license,    \* the table: the status, the revocation and the expiry of each
    step,       \* the part of the report to compute next
    basic,      \* the counts of GetDashboardStats
    forecast,   \* those of GetLicenseExpirationForecast
    usage,      \* those of GetUsageAnalytics
    failed,     \* a read failed: its error is dropped and it counts no row
    changes     \* how often the table has changed during the report

statsVars == <<license, step, basic, forecast, usage, failed, changes>>

\* A bulk revocation sets the time of the revocation and leaves the status; the
\* status Revoked is never written without that time.
LicenseRows ==
    {row \in [status : {"Active", "Suspended", "Revoked"}, revoked : BOOLEAN,
              expires : Expiries] : row.status = "Revoked" => row.revoked}

Counts == [active : Nat, expired : Nat, revoked : Nat]

TypeOK ==
    /\ license \in [Licenses -> LicenseRows]
    /\ step \in {"basic", "forecast", "usage", "done"}
    /\ basic \in [total : Nat, active : Nat, expired : Nat, revoked : Nat]
    /\ forecast \in [in7 : Nat, in30 : Nat, in90 : Nat]
    /\ usage \in Counts
    /\ failed \in BOOLEAN
    /\ changes \in 0..MaxChanges
-----------------------------------------------------------------------------
\* Both switches ask for the time of the revocation.
IsRevoked(l) == license[l].revoked

ExpiresBefore(l, day) == license[l].expires < day

Mutant_Basic(rows) ==
    [total   |-> Cardinality(rows),
     expired |-> Quantify(rows, LAMBDA l : ExpiresBefore(l, 0)),
     revoked |-> Quantify(rows, LAMBDA l : IsRevoked(l) /\ ~ExpiresBefore(l, 0)),
     active  |-> Quantify(rows, LAMBDA l : /\ ~ExpiresBefore(l, 0)
                                           /\ license[l].status = "Active")]

\* The first switch counts by status, and a suspended license nowhere.
Basic(rows) ==
    [total   |-> Cardinality(rows),
     revoked |-> Quantify(rows, IsRevoked),
     expired |-> Quantify(rows, LAMBDA l : ~IsRevoked(l) /\ ExpiresBefore(l, 0)),
     active  |-> Quantify(rows, LAMBDA l : /\ ~IsRevoked(l) /\ ~ExpiresBefore(l, 0)
                                           /\ license[l].status = "Active")]

Forecast(rows) ==
    LET upcoming(day) ==
            Quantify(rows, LAMBDA l : /\ ~ExpiresBefore(l, 0) /\ ~IsRevoked(l)
                                      /\ ExpiresBefore(l, day))
    IN  [in7 |-> upcoming(Week), in30 |-> upcoming(Month), in90 |-> upcoming(Quarter)]

\* The second switch counts what is neither revoked nor expired as active.
Usage(rows) ==
    [revoked |-> Quantify(rows, IsRevoked),
     expired |-> Quantify(rows, LAMBDA l : ~IsRevoked(l) /\ ExpiresBefore(l, 0)),
     active  |-> Quantify(rows, LAMBDA l : ~IsRevoked(l) /\ ~ExpiresBefore(l, 0))]

-----------------------------------------------------------------------------
None == [total |-> 0, active |-> 0, expired |-> 0, revoked |-> 0]

Init ==
    /\ license \in [Licenses -> LicenseRows]
    /\ step = "basic"
    /\ basic = None
    /\ forecast = [in7 |-> 0, in30 |-> 0, in90 |-> 0]
    /\ usage = [active |-> 0, expired |-> 0, revoked |-> 0]
    /\ failed = FALSE
    /\ changes = 0

\* What one GetAll returns: the table, or nothing and an error nobody looks at.
Found(ok) == IF ok THEN Licenses ELSE {}

ReadBasic ==
    /\ step = "basic"
    /\ \E ok \in BOOLEAN : basic' = Basic(Found(ok)) /\ failed' = (failed \/ ~ok)
    /\ step' = "forecast"
    /\ UNCHANGED <<license, forecast, usage, changes>>

ReadForecast ==
    /\ step = "forecast"
    /\ \E ok \in BOOLEAN : forecast' = Forecast(Found(ok)) /\ failed' = (failed \/ ~ok)
    /\ step' = "usage"
    /\ UNCHANGED <<license, basic, usage, changes>>

ReadUsage ==
    /\ step = "usage"
    /\ \E ok \in BOOLEAN : usage' = Usage(Found(ok)) /\ failed' = (failed \/ ~ok)
    /\ step' = "done"
    /\ UNCHANGED <<license, basic, forecast, changes>>

\* An administrator changes a license between two reads.
ChangeLicense(l) ==
    /\ step # "done" /\ changes < MaxChanges
    /\ \E to \in LicenseRows :
          to # license[l] /\ license' = [license EXCEPT ![l] = to]
    /\ changes' = changes + 1
    /\ UNCHANGED <<step, basic, forecast, usage, failed>>

\* The next report.
NewReport ==
    /\ step = "done"
    /\ step' = "basic" /\ changes' = 0 /\ failed' = FALSE
    /\ basic' = None
    /\ forecast' = [in7 |-> 0, in30 |-> 0, in90 |-> 0]
    /\ usage' = [active |-> 0, expired |-> 0, revoked |-> 0]
    /\ UNCHANGED license

Next ==
    \/ NewReport
    \/ ReadBasic \/ ReadForecast \/ ReadUsage
    \/ \E l \in Licenses : ChangeLicense(l)

Spec == Init /\ [][Next]_statsVars
-----------------------------------------------------------------------------
Suspended ==
    {l \in Licenses : /\ license[l].status = "Suspended"
                      /\ ~IsRevoked(l) /\ ~ExpiresBefore(l, 0)}

\* The parts of a report over tables that did not change and reads that did not
\* fail agree, although they count by different switches: they differ in the
\* licenses that are suspended, which one calls active and the other does not
\* count at all.
PartsAgree ==
    step = "done" /\ changes = 0 /\ ~failed =>
        /\ basic.expired = usage.expired /\ basic.revoked = usage.revoked
        /\ usage.active = basic.active + Cardinality(Suspended)
        /\ basic.total = usage.active + usage.expired + usage.revoked
        /\ forecast.in90 <= usage.active

\* What is forecast for a week is forecast for a month and for a quarter, also in
\* a report during which the table changed: a forecast is one read.
ForecastNests == forecast.in7 <= forecast.in30 /\ forecast.in30 <= forecast.in90
=============================================================================
