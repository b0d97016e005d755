CONSTANTS
    N = 3
    Workers = 2

SPECIFICATION Spec

INVARIANTS
    AsyncTypeOK
    ValueMeansAllRan

PROPERTY
    ChainSettles

\* The user may have nothing more to do.
CHECK_DEADLOCK FALSE
