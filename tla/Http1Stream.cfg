SPECIFICATION FairSpec
CONSTANTS
    Traffic <- ShortAndLong
    MaxSessions = 2
CHECK_DEADLOCK FALSE
PROPERTIES
    NoCallbackAfterTeardown
    CloseReturns
    OrdinaryWriteReturns
