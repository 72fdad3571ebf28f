\* Finding: max_activations is not enforced.
SPECIFICATION MCSpec
CONSTANTS
    Machines = {m1}
    Requests = {r1}
    Dates = {0, 1, 2}
    Limits = {0, 2}
    MaxRows = 3
    MaxTime = 1
INVARIANT WithinMaxActivations
