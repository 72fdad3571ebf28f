SPECIFICATION StoresSpec
CONSTANTS
    Users = {u1}
    Roles = {"User", "Admin"}
    DefaultRole = "User"
    p1 = p1
    p2 = p2
    PermissionSets <- MCPermissionSets
    Defaults <- MCDefaults
    Calls = {c1, c2}
    Sessions = {s1, s2, s3}
    MaxSessions = 2
    MaxAttempts = 2
    LockoutDuration = 3
    ResetWindow = 1
    Tokens = {t1, t2}
    TTL = 2
SYMMETRY Symmetric
INVARIANTS
    AllTypesOK
    
    LogoutsLast
    
PROPERTIES
    
    LocksHold
