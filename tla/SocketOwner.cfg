SPECIFICATION Spec
CONSTANTS
    Users = {u1}
    Messages = {m1, m2}
INVARIANTS
    DestroyIsClean
PROPERTIES
    DisconnectReturns
    ConnectConnects
