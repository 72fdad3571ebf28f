---------------------------- MODULE AuthHandlers ----------------------------
(***************************************************************************)
(* The handlers of /auth with the calls of AuthService,                    *)
(* TokenRotationService and NotificationPreferenceService they make.  What *)
(* the accounts and the tokens go through is in UserAccount and            *)
(* TokenLifecycle; here a request is followed from its first check to its  *)
(* answer.  The mails are sent by goroutines and are not steps.            *)
(***************************************************************************)
EXTENDS HandlerSteps

\* Set-Cookie headers: no error, nothing stored by the server.
SetAuthCookies == Try("both-cookies")

SetAccessTokenCookie == Try("access-cookie")

\* TokenCacheService: errors of Redis are dropped.  AuthService makes one without
\* Redis as well, and its calls then panic on the nil client.
CacheToken == <<WithRedis(Try("cached-token")), WithoutRedis(Panics)>>

UncacheToken == <<WithRedis(Try("uncached-token")), WithoutRedis(Panics)>>

\* Cached if the first of two looks into the table found it.
GetToken ==
    <<Need("a-stored-token", 404),
      WithRedis(Try("cached-token")),
      WithoutRedis(MayPanic),
      Need("a-token-not-expired", 400),
      Need("a-token-not-used", 400)>>

\* AuthService.Register.
RegisterAccount ==
    <<Need("a-free-e-mail", 409),
      Need("a-hashed-password", 500),
      Do("user", 500),
      Try("verification-token")>> \o CacheToken \o <<Log("USER_REGISTERED")>>

Register ==
    <<NeedBody>> \o RegisterAccount \o <<Log("USER_CREATED"), Answer(201)>>

\* AuthService.Login.
CheckCredentials ==
    <<Need("a-known-user", 401),
      Need("the-password", 401),
      Need("an-active-account", 401),
      Try("last-login"),
      Need("an-access-token", 500),
      Need("a-refresh-token", 500),
      Log("USER_LOGIN")>>

\* Without Redis the in-memory limiter is asked here, and only asked: no login
\* is recorded in it.
Login ==
    <<NeedBody, WithoutRedis(Need("a-free-slot-of-the-limiter", 429))>>
        \o CheckCredentials \o <<SetAuthCookies, Answer(200)>>

RefreshToken ==
    <<Need("a-refresh-cookie", 401),
      Need("a-valid-refresh-token", 401),
      Need("an-access-token", 500),
      SetAccessTokenCookie,
      Answer(200)>>

Logout ==
    <<Need("an-access-token-in-the-header-or-the-cookie", 401),
      Need("a-valid-access-token", 401),
      Try("cleared-cookies"),
      Answer(200)>>

\* TokenRotationService.RotateToken.
RotatePair ==
    <<Need("a-valid-refresh-token", 401),
      Need("a-stored-user", 404),
      Need("an-active-or-verified-account", 403)>>

\* The revocation of the spent token is the last thing, and its error is dropped.
RotateToken ==
    <<Need("a-refresh-cookie", 401),
      WithRedis(Need("a-token-not-revoked", 401))>>
        \o RotatePair
        \o <<SetAuthCookies, WithRedis(Try("revoked-token")), Answer(200)>>

Mutant_VerifyEmail ==
    <<NeedBody, Need("a-stored-user", 404), Try("used-token"),
      Do("verified-user", 500), Answer(200)>>

VerifyEmail ==
    <<NeedBody>> \o GetToken
        \o <<Need("a-stored-user", 404),
             Do("verified-user", 500),
             Try("used-token")>>
        \o UncacheToken
        \o <<Log("EMAIL_VERIFIED"), Answer(200)>>

ResendVerificationEmail ==
    <<NeedBody,
      Need("a-stored-user", 404),
      Need("an-account-not-verified", 400),
      Do("verification-token", 500),
      Answer(200)>>

RequestPasswordReset ==
    <<NeedBody,
      Need("a-stored-user", 404),
      Do("reset-token", 500)>>
        \o CacheToken
        \o <<Log("PASSWORD_RESET_REQUESTED"), Answer(200)>>

ConfirmPasswordReset ==
    <<NeedBody>> \o GetToken
        \o <<Need("a-stored-user", 404),
             Need("a-hashed-password", 500),
             Do("password", 500),
             Try("used-token")>>
        \o UncacheToken
        \o <<Log("PASSWORD_RESET_CONFIRMED"), Answer(200)>>

\* Without Redis there is no revocation service, and the answer is the same.
Revoke ==
    <<NeedBody,
      Need("a-refresh-token-in-the-body", 400),
      WithRedis(Do("revoked-token", 500)),
      Answer(200)>>

\* The time of the last update is dereferenced: a row without one panics.
GetMe ==
    <<NeedUser,
      Need("a-stored-user", 404),
      MayPanic,
      Show("own-account"),
      Answer(200)>>

\* The answer repeats the request; no call is made.
UpdateProfile ==
    <<NeedUser, NeedBody, Need("a-field-to-update", 400), Answer(200)>>

\* The answer is the defaults: no preference is stored anywhere.
GetNotifications ==
    <<NeedUser, Need("a-stored-user", 404), Answer(200)>>

UpdateNotifications ==
    <<NeedUser, NeedBody, Need("a-stored-user", 404), Answer(200)>>

\* QueueNotification has no result: of a full queue nothing is heard.
SendEmailNotification ==
    <<NeedUser, NeedBody, Need("a-valid-address", 400),
      Try("queued-mail"), Answer(202)>>

GetEmailTemplates == <<NeedUser, Answer(200)>>

TestEmailSend ==
    <<NeedUser, NeedBody, Need("a-valid-address", 400),
      Need("a-known-template", 400), Try("queued-mail"), Answer(200)>>

GetEmailQueueStatus == <<NeedUser, Answer(200)>>

\* The session service is nil without Redis: the call panics.
ListActiveSessions ==
    <<NeedUser,
      WithoutRedis(Panics),
      WithRedis(Need("the-sessions", 500)),
      Show("own-sessions"),
      Answer(200)>>

LogoutAllOtherSessions ==
    <<NeedUser,
      Need("an-access-token-in-the-header-or-the-cookie", 401),
      Need("a-valid-access-token", 401),
      WithoutRedis(Panics),
      WithRedis(Do("other-sessions-ended", 500)),
      Answer(200)>>
=============================================================================
