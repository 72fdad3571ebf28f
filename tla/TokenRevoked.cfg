SPECIFICATION Spec
CONSTANTS
    Devices = {d1}
    Requests = {r1, r2}
    Roles = {"User", "Admin"}
    AccessTTL = 1
    RefreshTTL = 2
    RevokeTTL = 2
    CrossDevice = FALSE
    Watched = "Admin"
PROPERTY RevokedTokenGetsNothing
