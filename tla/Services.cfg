CONSTANTS
    Ops <- AllCalls
    RetryCounts = {0, 1, 3}
    Statuses = {200, 302, 404, 429, 500}
    MaxItems = 2

SPECIFICATION Spec

INVARIANTS
    ServiceTypeOK
    RepeatedOnlyInDoubt
    ResultTellsEffect
    ListIsComplete
