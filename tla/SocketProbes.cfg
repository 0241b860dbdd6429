SPECIFICATION Spec
CONSTANTS
    t1 = t1
    t2 = t2
    NONE = NONE
    Threads = {t1, t2}
    Fds = {f1}
    ListenFd = listen
    Socks = {s1, s2}
    Elems = {e1, e2, e3}
    Scopes <- MCScopes
SYMMETRY Symmetric
CHECK_DEADLOCK FALSE
INVARIANTS
    ReportedBeforeUsed
    
    CloseIsFinal
    
