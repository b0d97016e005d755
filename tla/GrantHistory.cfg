SPECIFICATION HistorySpec
CONSTANTS
    Callers = {c1, c2, c3}
    MaxRequests = 2
    Window = 3
    Calls = 2
    NoCaller = NoCaller
INVARIANTS
    NeverOversleeps
    AtMostTwoBudgets
