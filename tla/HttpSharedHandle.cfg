SPECIFICATION HttpSpec
CONSTANTS
    Callers = {r1, r2}
    MaxRequests = 1
    Window = 1
    Calls = 1
    NoCaller = NoCaller
    RetryLimits = {1}
    DefaultRetries = 1
    LiveChanges = 0
INVARIANT ConcurrentResponseIsOwn
