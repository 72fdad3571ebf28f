\* Two requests in flight, one token of either kind.
SPECIFICATION Spec
CONSTANTS
    Requests = {r1, r2}
    Passwords = {p1, p2}
    Roles = {"User", "Admin"}
    Targets = {"Active", "Blocked"}
    Tokens = {t1}
    VerifyTTL = 1
    ResetTTL = 0
    MaxIds = 2
    MaxTime = 1
SYMMETRY Symmetry
INVARIANT TokenWorksOnce
 
