SPECIFICATION Spec
CONSTANTS
    Lines = {l1, l2, l3}
    MaxQueue = 2
INVARIANTS
    TypeOK
    NothingForgotten
PROPERTIES
    QueuedIsPrinted
