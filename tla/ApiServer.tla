------------------------------ MODULE ApiServer -----------------------------
(***************************************************************************)
(* One request through the server: the middleware of its route and the     *)
(* steps of its handler, each of which may fail where its code may fail.   *)
(* Requests share no state here (what they share is in the modules of the  *)
(* components), so one at a time shows all that can happen to one.  The    *)
(* server may stop at any step: what holds in every state holds of what a  *)
(* crash leaves behind.                                                    *)
(***************************************************************************)
EXTENDS AuthHandlers, LicenseHandlers, UserHandlers, ReportHandlers

VARIABLES
    redis,    \* the server was started with a Redis that answers
    dev,      \* ... and in the development environment
    route,    \* the handler of the request; Idle between requests
    who,      \* whose token the request carries: nobody's, a user's, an admin's
    own,      \* the record the request names belongs to its caller
    pc,       \* the next step
    wrote,    \* what the request has changed
    logged,   \* the audit rows it has inserted
    lost,     \* an insert of an audit row failed
    shown,    \* the rows it has read for its answer
    status    \* the status of the answer; 0 before it

requestVars == <<route, who, own, pc, wrote, logged, lost, shown, status>>

apiVars == <<redis, dev, requestVars>>

Idle == "none"

PublicHandlers ==
    [Register |-> Register, Login |-> Login, RefreshToken |-> RefreshToken,
     RotateToken |-> RotateToken, Logout |-> Logout,
     ListActiveSessions |-> ListActiveSessions,
     LogoutAllOtherSessions |-> LogoutAllOtherSessions,
     VerifyEmail |-> VerifyEmail,
     ResendVerificationEmail |-> ResendVerificationEmail,
     RequestPasswordReset |-> RequestPasswordReset,
     ConfirmPasswordReset |-> ConfirmPasswordReset, Revoke |-> Revoke,
     ActivateLicense |-> ActivateLicense, ValidateLicense |-> ValidateLicense,
     DeactivateLicense |-> DeactivateLicense, Heartbeat |-> Heartbeat,
     Health |-> Health, Liveness |-> Liveness, Readiness |-> Readiness,
     Startup |-> Startup]

ProtectedHandlers ==
    [GetMe |-> GetMe, UpdateProfile |-> UpdateProfile,
     GetNotifications |-> GetNotifications,
     UpdateNotifications |-> UpdateNotifications,
     SendEmailNotification |-> SendEmailNotification,
     GetEmailTemplates |-> GetEmailTemplates, TestEmailSend |-> TestEmailSend,
     GetEmailQueueStatus |-> GetEmailQueueStatus,
     CreateLicense |-> CreateLicense, GetLicenses |-> GetLicenses,
     ExportLicenses |-> ExportLicenses, BulkRevoke |-> BulkRevoke,
     BulkRevokeAsync |-> BulkRevokeAsync, GetBulkJobStatus |-> GetBulkJobStatus,
     CancelBulkJob |-> CancelBulkJob, GetLicense |-> GetLicense,
     RenewLicense |-> RenewLicense, RevokeLicense |-> RevokeLicense,
     UpdateLicenseStatus |-> UpdateLicenseStatus,
     GetMachineFingerprints |-> GetMachineFingerprints,
     TrackMachine |-> TrackMachine,
     GetUsers |-> GetUsers, ExportUsers |-> ExportUsers, GetUser |-> GetUser,
     GetUserByLicenseKey |-> GetUserByLicenseKey, UpdateUser |-> UpdateUser,
     UpdateUserRole |-> UpdateUserRole, UpdateUserStatus |-> UpdateUserStatus,
     DeleteUser |-> DeleteUser,
     GetAuditLogs |-> GetAuditLogs, GetAuditLogsByUser |-> GetAuditLogsByUser,
     GetAuditLogStats |-> GetAuditLogStats, ExportAuditLogs |-> ExportAuditLogs,
     DeleteAuditLogs |-> DeleteAuditLogs,
     GetUserDashboard |-> GetUserDashboard, GetDashboardStats |-> AdminReport,
     GetLicenseExpirationForecast |-> AdminReport,
     GetActivityTimeline |-> GetActivityTimeline,
     GetUsageAnalytics |-> AdminReport, GetEnhancedDashboardStats |-> AdminReport]

\* The group behind AdminOnlyMiddleware as well.
PermissionHandlers ==
    [GetUserPermissions |-> GetUserPermissions,
     GetRolePermissions |-> GetRolePermissions,
     GrantPermission |-> GrantPermission, RevokePermission |-> RevokePermission,
     SetRolePermissions |-> SetRolePermissions,
     ResetUserPermissions |-> ResetUserPermissions,
     CheckPermission |-> CheckPermission]

Limited ==
    {"Register", "Login", "VerifyEmail", "ResendVerificationEmail",
     "RequestPasswordReset", "ConfirmPasswordReset", "ActivateLicense"}

Public == DOMAIN PublicHandlers

AdminOnly == DOMAIN PermissionHandlers

Routes == Public \cup DOMAIN ProtectedHandlers \cup AdminOnly

\* The middleware in front of a handler.
RateLimit(r) ==
    IF r \in Limited THEN <<When("limits", Need("a-free-slot", 429))>> ELSE <<>>

Auth(r) == IF r \in Public THEN <<>> ELSE <<Need("token", 401)>>

Admins(r) == IF r \in AdminOnly THEN <<NeedAdmin>> ELSE <<>>

HandlerOf(r) ==
    IF r \in Public THEN PublicHandlers[r]
    ELSE IF r \in AdminOnly THEN PermissionHandlers[r] ELSE ProtectedHandlers[r]

Program(r) == RateLimit(r) \o Auth(r) \o Admins(r) \o HandlerOf(r)

Mutant_HasUser == who # "nobody"

\* The context of the request: only the group of AuthMiddleware fills it.
HasUser == route \notin Public /\ who # "nobody"

IsAdmin == HasUser /\ who = "admin"

\* The conditions of When that hold of the server and the caller.
Conditions ==
    {"always", IF redis THEN "redis" ELSE "no-redis",
     IF IsAdmin THEN "admin" ELSE "not-admin"}
        \cup (IF redis /\ ~dev THEN {"limits"} ELSE {})

\* Whether a need is met: decided by the token and the named record, or by
\* what the request holds and the tables say.
MayMeet(what) ==
    CASE what = "token"               -> {who # "nobody"}
      [] what = "user"                -> {HasUser}
      [] what = "admin"               -> {IsAdmin}
      [] what = "own-record-or-admin" -> {own \/ IsAdmin}
      [] OTHER                        -> BOOLEAN

Running == route # Idle /\ status = 0

Current == Program(route)[pc]

Applies == Current.when \in Conditions

At(kind) == Running /\ Applies /\ Current.kind = kind

NextStep == pc' = pc + 1 /\ UNCHANGED status

AnswerWith(code) == status' = code /\ UNCHANGED pc

Unwritten == UNCHANGED <<wrote, logged, lost>>

SameRequest == UNCHANGED <<redis, dev, route, who, own>>

TypeOK ==
    /\ redis \in BOOLEAN /\ dev \in BOOLEAN /\ own \in BOOLEAN /\ lost \in BOOLEAN
    /\ route \in Routes \cup {Idle}
    /\ who \in {"nobody", "user", "admin"}
    /\ pc \in Nat
    /\ Running => pc \in 1..Len(Program(route))
    /\ route # Idle =>
           wrote \cup logged \cup shown \subseteq {Program(route)[i].what : i \in 1..pc}
    /\ status \in {0, 200, 201, 202, 400, 401, 403, 404, 409, 429, 500, 503}
-----------------------------------------------------------------------------
Init ==
    /\ redis \in BOOLEAN /\ dev \in BOOLEAN
    /\ route = Idle /\ who = "nobody" /\ own = FALSE
    /\ pc = 1 /\ status = 0
    /\ wrote = {} /\ logged = {} /\ shown = {} /\ lost = FALSE

Arrive ==
    /\ route = Idle
    /\ route' \in Routes
    /\ who' \in {"nobody", "user", "admin"}
    /\ own' \in BOOLEAN
    /\ UNCHANGED <<redis, dev, pc, wrote, logged, lost, shown, status>>

\* A step of another kind of server or caller.
PassOver ==
    /\ Running /\ ~Applies
    /\ NextStep /\ Unwritten /\ SameRequest /\ UNCHANGED shown

Meet ==
    /\ At("need") /\ TRUE \in MayMeet(Current.what)
    /\ NextStep /\ Unwritten /\ SameRequest /\ UNCHANGED shown

Refuse ==
    /\ At("need") /\ FALSE \in MayMeet(Current.what)
    /\ AnswerWith(Current.code)
    /\ Unwritten /\ SameRequest /\ UNCHANGED shown

\* A write that succeeds.
Write ==
    /\ At("do") \/ At("try")
    /\ wrote' = wrote \cup {Current.what}
    /\ NextStep /\ SameRequest /\ UNCHANGED <<logged, lost, shown>>

\* One that fails and is answered for.
Fail ==
    /\ At("do")
    /\ AnswerWith(Current.code)
    /\ Unwritten /\ SameRequest /\ UNCHANGED shown

\* One that fails and is not.
Drop ==
    /\ At("try")
    /\ pc' = pc + 1 + Current.code
    /\ Unwritten /\ SameRequest /\ UNCHANGED <<shown, status>>

LogAction ==
    /\ At("log")
    /\ \/ logged' = logged \cup {Current.what} /\ UNCHANGED lost
       \/ lost' = TRUE /\ UNCHANGED logged
    /\ NextStep /\ SameRequest /\ UNCHANGED <<wrote, shown>>

Read ==
    /\ At("show")
    /\ shown' = shown \cup {Current.what}
    /\ NextStep /\ Unwritten /\ SameRequest

\* ErrorHandlerMiddleware recovers from the panic.
Panic ==
    /\ At("panic")
    /\ NextStep \/ AnswerWith(Current.code)
    /\ Unwritten /\ SameRequest /\ UNCHANGED shown

Branch ==
    /\ At("fork")
    /\ pc' \in {pc + 1, pc + 1 + Current.code}
    /\ Unwritten /\ SameRequest /\ UNCHANGED <<shown, status>>

Finish ==
    /\ At("answer")
    /\ AnswerWith(Current.code)
    /\ Unwritten /\ SameRequest /\ UNCHANGED shown

\* The next request starts with nothing of this one.
Leave ==
    /\ status # 0
    /\ route' = Idle /\ who' = "nobody" /\ own' = FALSE
    /\ pc' = 1 /\ status' = 0
    /\ wrote' = {} /\ logged' = {} /\ shown' = {} /\ lost' = FALSE
    /\ UNCHANGED <<redis, dev>>

Next ==
    \/ Arrive \/ PassOver \/ Meet \/ Refuse \/ Write \/ Fail \/ Drop
    \/ LogAction \/ Read \/ Panic \/ Branch \/ Finish \/ Leave

Spec == Init /\ [][Next]_apiVars
-----------------------------------------------------------------------------
\* What the error answers leave behind: the time of a login whose tokens could
\* not be signed, the deletion of a user whose second read failed, the cleared
\* cache of a user who is not there, the copy in Redis of a token looked up.
KeptByErrors ==
    [Login |-> {"last-login"}, DeleteUser |-> {"deleted-user"},
     ResetUserPermissions |-> {"uncached-permissions"},
     VerifyEmail |-> {"cached-token"}, ConfirmPasswordReset |-> {"cached-token"}]

\* Without Redis AuthService panics on its token cache, after it has written.
KeptByPanics ==
    [Register |-> {"user", "verification-token"}, RequestPasswordReset |-> {"reset-token"},
     VerifyEmail |-> {"verified-user", "used-token"},
     ConfirmPasswordReset |-> {"password", "used-token"}]

KeptBy(leftovers) == IF route \in DOMAIN leftovers THEN leftovers[route] ELSE {}

\* A request that is answered with an error has changed nothing, but for these:
\* every other handler checks before it writes, writes once before its first error
\* answer and never gives up after it.
ErrorsChangeNothing ==
    status >= 400 =>
        wrote \subseteq KeptBy(KeptByErrors) \cup (IF redis THEN {} ELSE KeptBy(KeptByPanics))

\* What a request that is answered with success has done, whatever the state of
\* Redis.
Promise ==
    [Register |-> {"user"}, VerifyEmail |-> {"verified-user"},
     ResendVerificationEmail |-> {"verification-token"},
     RequestPasswordReset |-> {"reset-token"}, ConfirmPasswordReset |-> {"password"},
     CreateLicense |-> {"license"}, ActivateLicense |-> {"activation"},
     DeactivateLicense |-> {"deactivated-activation"}, Heartbeat |-> {"heartbeat"},
     TrackMachine |-> {"tracked-machine"}, RenewLicense |-> {"renewed-license"},
     RevokeLicense |-> {"revoked-license"}, UpdateLicenseStatus |-> {"license-status"},
     BulkRevokeAsync |-> {"started-job"}, CancelBulkJob |-> {"cancelled-job"},
     UpdateUser |-> {"user"}, DeleteUser |-> {"deleted-user"},
     UpdateUserRole |-> {"user-role"}, UpdateUserStatus |-> {"user-status"},
     SetRolePermissions |-> {"role-permissions"},
     DeleteAuditLogs |-> {"cleared-audit-log"}]

Succeeded == status \in 200..299

\* An answer of success means that the change was made.  Not claimed of the
\* handlers that promise and write nothing: the profile, the notification
\* preferences, a permission of one user, the revocation of a token without
\* Redis, a mail on a full queue, a bulk revocation.
SuccessMeansDone ==
    Succeeded /\ route \in DOMAIN Promise => Promise[route] \subseteq wrote

AdminChanges ==
    {"renewed-license", "revoked-license", "license-status", "started-job",
     "cancelled-job", "deleted-user", "user-role", "user-status",
     "role-permissions", "uncached-permissions", "cleared-audit-log"}

\* Only the token of an administrator changes what is an administrator's, and
\* nobody but he changes the account of another; through every route and the
\* middleware in front of it.
OnlyEntitledChange ==
    /\ wrote \cap AdminChanges # {} => IsAdmin
    /\ route = "UpdateUser" /\ wrote # {} => own \/ IsAdmin

\* Rows of others are read for an administrator only, a record for its owner or
\* an administrator.  Not claimed of the machines of a key and of a bulk job,
\* which any user is shown who names them.
OnlyEntitledSee ==
    /\ "all-rows" \in shown => IsAdmin
    /\ "the-record" \in shown => own \/ IsAdmin
    /\ shown # {} => who # "nobody"

\* The two session handlers ask the context for a user, but their routes are
\* registered before the group whose middleware puts one there: nobody ever gets
\* another answer than 401 from them, not even with a good token.
SessionRoutesRefuseAll ==
    route \in {"ListActiveSessions", "LogoutAllOtherSessions"} /\ status # 0 => status = 401

\* The change an audit row speaks of.  The row of a login or of an export speaks
\* of no change.
Recorded ==
    [USER_REGISTERED |-> "user", USER_CREATED |-> "user",
     EMAIL_VERIFIED |-> "verified-user", PASSWORD_RESET_REQUESTED |-> "reset-token",
     PASSWORD_RESET_CONFIRMED |-> "password", LICENSE_CREATED |-> "license",
     LICENSE_ACTIVATED |-> "activation",
     LICENSE_DEACTIVATED |-> "deactivated-activation",
     LICENSE_HEARTBEAT |-> "heartbeat", LICENSE_STATUS_CHANGED |-> "license-status",
     MACHINE_TRACKED |-> "tracked-machine", BULK_REVOKE_LICENSE |-> "revoked-license",
     USER_UPDATED |-> "user", USER_DELETED |-> "deleted-user",
     USER_STATUS_CHANGED |-> "user-status", AUDIT_LOG_CLEARED |-> "cleared-audit-log"]

\* The audit log says nothing that has not happened, also when the server stops
\* between any two steps.
AuditFollowsChange ==
    \A action \in logged \cap DOMAIN Recorded : Recorded[action] \in wrote

Unrecorded ==
    {"RenewLicense", "RevokeLicense", "UpdateUserRole", "SetRolePermissions",
     "CancelBulkJob", "BulkRevokeAsync", "ResendVerificationEmail", "TrackMachine"}

\* A change that was answered for is in the audit log, unless the insert failed
\* or the handler is one of those that log nothing.
ChangesAreLogged ==
    Succeeded /\ ~lost /\ route \in DOMAIN Promise \ Unrecorded =>
        Promise[route] \subseteq {Recorded[action] : action \in logged \cap DOMAIN Recorded}

\* Every route lets change and see only those who are entitled to.
OnlyEntitledPass == OnlyEntitledChange /\ OnlyEntitledSee

\* The audit log and the tables agree, as far as the log is written at all.
AuditAgrees == AuditFollowsChange /\ ChangesAreLogged
=============================================================================
