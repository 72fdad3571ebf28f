\* Three notifications, room for two.  The process exits.
SPECIFICATION Spec
CONSTANTS
    Notifications = {n1, n2, n3}
    Requests = {r1, r2}
    QueueSize = 2
INVARIANTS
    KeptInOrder
PROPERTIES
    AcceptedIsSettled
    
CHECK_DEADLOCK FALSE
