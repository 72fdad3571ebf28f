\* Two requests in flight, two machines, two rows.
SPECIFICATION MCSpec
CONSTANTS
    Machines = {m1, m2}
    Requests = {r1, r2}
    Dates = {0, 1}
    Limits = {1}
    MaxRows = 2
    MaxTime = 1
SYMMETRY Symmetry
INVARIANTS
    TypeOK
    OnlyUsableServed
    LaterRowsStayActive
PROPERTIES
    EndingsAreFinal
