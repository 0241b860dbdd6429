SPECIFICATION PartsSpec
CONSTANTS
    Parts = {"process"}
    \* ConnDomain
    Watch = watch
    Request = request
    Reporter = reporter
    Names = {n1, n2}
    IPs = {ip1, ip2}
    Threads = {watch, request, reporter}
    DomainCalls = 3
    \* ProbeBuffers
    MAX_MSG_SIZE = 30720
    CHUNK_LIMIT = 4
    LOOP_LIMIT = 3
    Inputs <- BufCalls
    \* ProcessTracking
    Pids = {p1}
    Images = {curl, node}
    Codes = {7}
    Waiters = {w1}
    NoObj = NoObj
    MaxObjs = 3
    Budgets <- ProcBudgets
    \* Redirector
    Cookies = {1, 2, 3}
    Programs = {"curl", "node"}
    Ports = {q1, q2}
    Capacity = 2
    RdrScopes <- RdrScopeSet
    NoneR = NoneR
    \* JavaEngine
    JavaFds = {"fd3", "fd4"}
    Conns = {1, 2}
    Sessions = {"sA", "sB"}
    JavaScopes <- JavaScopeSet
    NoneJ = NoneJ
    \* CommandStream
    CmdScopes <- CmdScopeSet
    MaxCmds = 4
    maxPendingCommands = 2
    \* Http2Stream
    H2Scopes <- H2ScopeSet
    Streams = {1, 3}
    MaxData = 1
SYMMETRY PartsSymmetry
CHECK_DEADLOCK FALSE
INVARIANT MetaCurrent
