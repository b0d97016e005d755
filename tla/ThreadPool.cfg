SPECIFICATION Spec
CONSTANTS
    Workers = {w1, w2}
    Tasks = {t1, t2, t3}
    NoTask = NoTask
INVARIANTS
    TypeOK
    AcceptedNeverDropped
    NoLostWakeup
PROPERTIES
    ShutdownTerminates
    ImplementsTaskService
