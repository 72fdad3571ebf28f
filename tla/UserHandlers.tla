---------------------------- MODULE UserHandlers ----------------------------
(***************************************************************************)
(* The handlers of /users and /permissions.  What the accounts and the     *)
(* maps of permissions go through is in UserAccount and PermissionStore.   *)
(***************************************************************************)
EXTENDS HandlerSteps

GetUsers ==
    <<NeedAdmin, Need("the-users", 500), Show("all-rows"), Answer(200)>>

ExportUsers ==
    <<NeedAdmin,
      Need("the-users", 500),
      Need("the-CSV", 500),
      Show("all-rows"),
      Answer(200)>>

\* The right is checked before the read, against the number in the path.
GetUser ==
    <<NeedId,
      Need("own-record-or-admin", 403),
      Need("a-stored-user", 404),
      Show("the-record"),
      Answer(200)>>

Mutant_UpdateUser ==
    <<NeedId, NeedBody, Need("a-stored-user", 404), Do("user", 500),
      Log("USER_UPDATED"), Answer(200)>>

UpdateUser ==
    <<NeedId,
      Need("own-record-or-admin", 403),
      NeedBody,
      Need("a-stored-user", 404),
      Do("user", 500),
      Log("USER_UPDATED"),
      Answer(200)>>

\* The user is read twice, the second time with the error dropped: if that read
\* fails, the row is deleted and the details of the audit row panic.
DeleteUser ==
    <<NeedAdmin, NeedId,
      Need("a-stored-user", 404),
      Do("deleted-user", 500),
      MayPanic,
      Log("USER_DELETED"),
      Answer(200)>>

\* No audit row.
UpdateUserRole ==
    <<NeedAdmin, NeedId, NeedBody,
      Need("a-stored-user", 404),
      Do("user-role", 500),
      Answer(200)>>

UpdateUserStatus ==
    <<NeedAdmin, NeedId, NeedBody,
      Need("a-stored-user", 404),
      Need("a-known-status", 400),
      Do("user-status", 500),
      Log("USER_STATUS_CHANGED"),
      Answer(200)>>

GetUserByLicenseKey ==
    <<NeedAdmin,
      Need("a-key", 400),
      Need("a-stored-license", 404),
      Need("a-stored-user", 404),
      Show("all-rows"),
      Answer(200)>>
-----------------------------------------------------------------------------
GetUserPermissions ==
    <<NeedAdmin, NeedId,
      Need("the-permissions", 500),
      Show("all-rows"),
      Answer(200)>>

GetRolePermissions == <<NeedAdmin, Show("all-rows"), Answer(200)>>

\* The service only drops the user from its cache: there is no permission of
\* one user to write.
GrantPermission ==
    <<NeedAdmin, NeedUser, NeedBody,
      Do("uncached-permissions", 500),
      Answer(200)>>

RevokePermission ==
    <<NeedAdmin, NeedUser, NeedBody,
      Do("uncached-permissions", 500),
      Answer(200)>>

SetRolePermissions ==
    <<NeedAdmin, NeedBody, Do("role-permissions", 500), Answer(200)>>

\* The user is looked up when the cache has been cleared.
ResetUserPermissions ==
    <<NeedAdmin, NeedId,
      Do("uncached-permissions", 500),
      Need("a-stored-user", 404),
      Answer(200)>>

\* The permissions of the caller, whoever the body names.
CheckPermission ==
    <<NeedUser, NeedBody,
      Need("the-permissions", 500),
      Show("own-permissions"),
      Answer(200)>>
=============================================================================
