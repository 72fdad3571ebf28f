\* Finding: a late cancellation reopens a finished job.
SPECIFICATION Spec
CONSTANTS
    a = a
    b = b
    x = x
    Jobs = {j1}
    Ids = {a, b, x}
    Known = {a, b}
    Batches <- OneJobBatches
    Clients = {c1}
PROPERTY FinishedJobIsFinal
