CONSTANTS
    Ops = {"getPositions", "getOrders"}
    RetryCounts = {1}
    Statuses = {200}
    MaxItems = 2

SPECIFICATION Spec

INVARIANT
    AccountListsArrive
