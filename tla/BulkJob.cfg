\* One job, two callers that cancel it, every list.
SPECIFICATION Spec
CONSTANTS
    a = a
    b = b
    x = x
    Jobs = {j1}
    Ids = {a, b, x}
    Known = {a, b}
    Batches <- OneJobBatches
    Clients = {c1, c2}
INVARIANTS
    TypeOK
    CompletedJobAccountsForAll
    SuccessesAreOwnWrites
    NoItemBegunAfterCancel
PROPERTIES
    JobSettles
