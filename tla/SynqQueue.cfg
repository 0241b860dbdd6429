SPECIFICATION FairSpec
CONSTANTS
    Producers = {p1}
    Consumers = {c1, c2}
    Drainers = {d1}
    Priorities <- MCPriorities
    Lowest = 9
    Free = Free
    MaxBatch = 2
    MaxItems = 3
INVARIANTS
    NoLostWakeup
PROPERTIES
    PromiseSpec
    NextUnblocks
