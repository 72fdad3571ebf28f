\* Two requests at a time at the limiter, window and lockout alike (login, e-mail
\* verification); three pings for two tries; every route, with and without Redis.
SPECIFICATION MCSpec
CONSTANTS
    Requests = {r1, r2}
    MaxAttempts = 3
    LockoutDuration = 3
    ResetWindow = 3
    Calls = {c1, c2, c3}
    MaxRequests = 2
    MinRequests = 2
    MaxFailures = 2
    FailurePercent = 80
    Interval = 1
    Timeout = 2
    MaxCounted = 3
INVARIANTS
    WithinLimit
    RequestsTypeOK
    ErrorsChangeNothing
    SuccessMeansDone
    
    
    
PROPERTIES NeverLockedOutForGood LockHolds BreakerHolds ReadyAgain
