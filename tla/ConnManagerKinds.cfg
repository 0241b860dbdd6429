SPECIFICATION Spec
CONSTANTS
    Cookies = {k1, k2}
    Redirected = {k1}
    Reader = Reader
    Engine = Engine
    EngineEvents <- AllEngine
    ReaderEvents <- AllReader
    MainEvents <- AllMain
    Lowest = 99
    AuditDNS = FALSE
    MaxConns = 2
    MaxEvents = 3
CHECK_DEADLOCK FALSE
INVARIANTS
    BacklogBeforeClose
