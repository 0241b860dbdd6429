SPECIFICATION AgentSpec
CONSTANTS
    AgentParts = {"attach"}
    FirstDeadline = TRUE
    Interval = TRUE
    MaxReports = 4
    MaxCalls = 3
    MaxProcs = 2
    NoneA = NoneA
    Getters = {g1, g2, g3, g4}
    NoneF = NoneF
    maxContainerScanAttempts = 3
    bufferSize = 3
    commandQueueSize = 2
    StackSize = 2
    PluginScripts <- AgentScripts
    Handshakes = {h1, h2, h3, h4}
    Domains = {a, b, x}
    Unsignable = {x}
    sanCertMaxSize = 2
    NoneC = NoneC
    CacheUsers = {u1, u2, u3}
    CacheOps = {"set", "Store", "LoadAndRenew", "ExpireRecord"}
CHECK_DEADLOCK FALSE
INVARIANT ClosedOnStop
