SPECIFICATION TlsSpec
CONSTANTS
    t1 = t1
    NONE = NONE
    Threads = {t1}
    Fds = {f1, f2}
    ListenFd = listen
    Socks = {s1, s2}
    Elems = {e1, e2, e3}
    Scopes <- MCScopes
    Handles = {h1, h2}
    Wraps = {w1}
    RcIsParm1 = TRUE
SYMMETRY Symmetric
CHECK_DEADLOCK FALSE
INVARIANTS
    
    
    NoCiphertext
