SPECIFICATION Spec
CONSTANTS
    Traffic <- KeepAlive
    MaxSessions = 2
CHECK_DEADLOCK FALSE
INVARIANT FlushedIsExtra
