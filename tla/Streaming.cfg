SPECIFICATION Spec
CONSTANTS
    Symbols = {a}
    Exchanges = {x}
    QuoteKinds = {"quote"}
    MaxMessages = 2
    MaxCalls = 4
INVARIANTS
    StreamingTypeOK
    QuietAfterDisconnect
    EveryMessageAccounted
PROPERTIES
    HeartbeatStartsOnce
    StopReturns
    DeadConnectionNoticed
