SPECIFICATION Spec
CONSTANTS
    MaxFlows = 2
    MaxTokens = 2
    MaxTime = 2
    StateExpiration = 1
    TokenLifetime = 2
    RefreshThreshold = 1
    TicksPerSecond = 2
INVARIANTS
    AuthTypeOK
    StateAcceptedOnce
    VerifierKept
    RefreshInStep
    LoadIsLastSaved
