SPECIFICATION Spec
CONSTANTS
    Devices = {d1, d2}
    Requests = {r1, r2}
    Roles = {"User", "Admin"}
    AccessTTL = 1
    RefreshTTL = 2
    RevokeTTL = 2
    CrossDevice = FALSE
    Watched = "Admin"
SYMMETRY Symmetry
INVARIANTS
    RoleNotOlderThanItsTokens
    SpentIsSpent
    CalmDeviceIsNotRevoked
    
