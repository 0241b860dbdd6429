SPECIFICATION FairSpec
CONSTANTS
    Cookies = {k1}
    Redirected = {k1}
    Reader = Reader
    Engine = Engine
    EngineEvents <- NoEvents
    ReaderEvents <- LifeReader
    MainEvents <- LifeMain
    Lowest = 99
    AuditDNS = FALSE
    MaxConns = 2
    MaxEvents = 5
CHECK_DEADLOCK FALSE
INVARIANTS
    HoldRespected
    NoOrphan
    ServicesClosed
PROPERTIES
    ClosesEventually
