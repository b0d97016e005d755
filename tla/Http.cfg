SPECIFICATION HttpSpec
CONSTANTS
    Callers = {r1, r2}
    MaxRequests = 1
    Window = 1
    Calls = 1
    NoCaller = NoCaller
    RetryLimits <- MCRetryLimits
    DefaultRetries = 1
    LiveChanges = 1
INVARIANTS
    HttpTypeOK
    StatsBalance
    SendsBounded
    ResponseIsOwn
PROPERTIES
    NoResendAfterAnswer
    RequestCompletes
