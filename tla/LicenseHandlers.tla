-------------------------- MODULE LicenseHandlers ---------------------------
(***************************************************************************)
(* The handlers of /licenses with the calls of LicenseService,             *)
(* MachineFingerprintService and BulkOperationService they make.  What the *)
(* rows go through is in LicenseLifecycle, BulkRevokeJob and               *)
(* LicenseListCache; here a request is followed from its first check to    *)
(* its answer.                                                             *)
(***************************************************************************)
EXTENDS HandlerSteps

\* LicenseCache.InvalidateLicense: errors of Redis are dropped.
InvalidateLicense == WithRedis(Try("cleared-license-lists"))

\* The list comes from the cache or the table; the loop that filters drops the
\* rows of others unless the caller is an admin.
GetLicenses ==
    <<Need("the-licenses", 500),
      ForAdmin(Show("all-rows")),
      ForOthers(Show("own-rows")),
      Answer(200)>>

\* The owner is checked after the read, against the row.
GetLicense ==
    <<NeedId,
      Need("a-stored-license", 404),
      Need("own-record-or-admin", 403),
      Show("the-record"),
      Answer(200)>>

ExportLicenses ==
    <<NeedAdmin,
      Need("the-licenses", 500),
      Need("the-CSV", 500),
      Show("all-rows"),
      Answer(200)>>

\* "(Admin only)" in its comment; the handler asks for a user.
CreateLicense ==
    <<NeedBody,
      NeedUser,
      Do("license", 500),
      Log("LICENSE_CREATED"),
      InvalidateLicense,
      Answer(201)>>

Mutant_ActivateLicense ==
    <<NeedBody, Need("a-stored-license", 404), Attempt("activation", 1),
      Log("LICENSE_ACTIVATED"), InvalidateLicense, Answer(201)>>

ActivateLicense ==
    <<NeedBody,
      Need("a-stored-license", 404),
      Need("a-license-not-expired-nor-full", 409),
      Do("activation", 500),
      Log("LICENSE_ACTIVATED"),
      InvalidateLicense,
      Answer(201)>>

\* Invalid for any reason or valid, the answer is 200.
ValidateLicense == <<NeedBody, Fork(1), Try("last-seen"), Answer(200)>>

Mutant_DeactivateLicense ==
    <<NeedBody, Need("a-stored-license", 404), Need("a-stored-activation", 404),
      Do("deactivated-activation", 500), InvalidateLicense, Answer(200)>>

DeactivateLicense ==
    <<NeedBody,
      Need("a-stored-license", 404),
      Need("a-stored-activation", 404),
      Do("deactivated-activation", 500),
      Log("LICENSE_DEACTIVATED"),
      InvalidateLicense,
      Answer(200)>>

\* No audit row.
RenewLicense ==
    <<NeedAdmin, NeedId, NeedBody,
      Need("a-stored-license", 404),
      Do("renewed-license", 500),
      InvalidateLicense,
      Answer(200)>>

\* No audit row.
RevokeLicense ==
    <<NeedAdmin, NeedId,
      Need("a-stored-license", 404),
      Need("a-license-not-revoked", 400),
      Do("revoked-license", 500),
      InvalidateLicense,
      Answer(200)>>

UpdateLicenseStatus ==
    <<NeedAdmin, NeedId, NeedBody,
      Need("a-known-status", 400),
      Need("a-stored-license", 404),
      Do("license-status", 500),
      InvalidateLicense,
      Log("LICENSE_STATUS_CHANGED"),
      Answer(200)>>

\* The read after the call only fills the answer.
Heartbeat ==
    <<NeedBody,
      Need("a-key-and-a-machine", 400),
      Need("a-stored-license", 404),
      Need("a-license-not-expired", 409),
      Need("a-license-not-revoked", 409),
      Need("a-stored-activation", 404),
      Need("an-active-machine", 409),
      Do("heartbeat", 500),
      Log("LICENSE_HEARTBEAT"),
      Answer(200)>>

\* Any user who knows a key sees its machines.
GetMachineFingerprints ==
    <<Need("a-key", 400),
      Need("a-stored-license", 404),
      Need("the-activations", 500),
      Show("machines-of-a-key"),
      Answer(200)>>

Mutant_TrackMachine ==
    <<Need("a-key", 400), NeedBody, Need("a-machine", 400), Need("a-stored-license", 404),
      Do("tracked-machine", 500), Fork(1), Log("MACHINE_TRACKED")>>

\* Known or new machine: only a new one is logged.  A failed update of a known one
\* is the error of the database itself, which the handler asserts to be an
\* ApiError: 500 all the same, by the panic.
TrackMachine ==
    <<Need("a-key", 400), NeedBody, Need("a-machine", 400),
      Need("a-stored-license", 404),
      Need("a-machine-not-on-the-black-list", 409),
      Do("tracked-machine", 500),
      Fork(1), Log("MACHINE_TRACKED"),
      Answer(201)>>

\* One of the licenses: not found, revoked already or not stored, it is counted
\* as failed and the loop goes on; the answer is a report.
BulkRevoke ==
    <<NeedAdmin, NeedUser, NeedBody, Need("some-license", 400),
      Attempt("revoked-license", 1), Log("BULK_REVOKE_LICENSE"),
      Answer(200)>>

\* The job is on its own from here (BulkRevokeJob).
BulkRevokeAsync ==
    <<NeedAdmin, NeedUser, NeedBody, Need("some-license", 400),
      Do("started-job", 500),
      Answer(202)>>

\* Any user who knows the id sees the job.
GetBulkJobStatus ==
    <<Need("a-job-id", 400),
      Need("a-known-job", 404),
      Show("job-of-an-id"),
      Answer(200)>>

CancelBulkJob ==
    <<NeedAdmin,
      Need("a-job-id", 400),
      Need("a-known-job", 404),
      Need("a-job-not-ended", 400),
      Do("cancelled-job", 500),
      Answer(200)>>
=============================================================================
