--------------------------- MODULE ReportHandlers ---------------------------
(***************************************************************************)
(* The handlers that read: the audit log (which can be cleared), the       *)
(* dashboard and the health endpoints.  What their numbers are computed    *)
(* from is in Statistics, their pages in Listings, the breaker behind the  *)
(* health endpoints in HealthProbes.                                       *)
(***************************************************************************)
EXTENDS HandlerSteps

\* The loop over the logs drops those of others unless the caller is an admin.
GetAuditLogs ==
    <<Need("the-logs", 500),
      ForAdmin(Show("all-rows")),
      ForOthers(Show("own-rows")),
      Answer(200)>>

GetAuditLogsByUser ==
    <<NeedAdmin,
      Need("a-user-in-the-query", 400),
      Need("the-logs", 500),
      Show("all-rows"),
      Answer(200)>>

GetAuditLogStats ==
    <<NeedAdmin, Need("the-logs", 500), Show("all-rows"), Answer(200)>>

\* The export is logged before the first byte is written.
ExportAuditLogs ==
    <<Need("the-logs", 500),
      ForAdmin(Show("all-rows")),
      ForOthers(Show("own-rows")),
      Log("AUDIT_LOG_EXPORTED"),
      Answer(200)>>

\* What remains of the log is the row that says it was cleared, if its insert
\* succeeds.
DeleteAuditLogs ==
    <<NeedAdmin,
      Do("cleared-audit-log", 500),
      Log("AUDIT_LOG_CLEARED"),
      Answer(200)>>
-----------------------------------------------------------------------------
\* Four of the dashboards.  The service drops the errors of its reads, so that
\* the handler's answer to its error, 500, is never given.
AdminReport == <<NeedAdmin, Show("all-rows"), Answer(200)>>

\* The errors of the four reads are dropped: the numbers are those of no rows.
GetUserDashboard == <<NeedUser, Show("own-rows"), Answer(200)>>

GetActivityTimeline ==
    <<NeedAdmin,
      Need("a-period-of-7-30-or-90-days", 400),
      Show("all-rows"),
      Answer(200)>>
-----------------------------------------------------------------------------
Health == <<Need("a-database-and-a-Redis-that-answer", 503), Answer(200)>>

Liveness == <<Answer(200)>>

Readiness ==
    <<Need("a-database-that-answers", 503), Need("a-breaker-not-open", 503), Answer(200)>>

Startup == <<Need("a-database-that-answers", 503), Answer(200)>>
=============================================================================
