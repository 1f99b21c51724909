SPECIFICATION Spec
CONSTANTS
    c1 = c1
    c2 = c2
    c3 = c3
    NoClient = NoClient
    Client <- OneClient
    max_clients_ = 1
    DATA_THRESHOLD = 2
    MaxChunks = 3
    MaxPosts = 3
    ResourceFaults = TRUE
INVARIANTS
    PollsLoseNothing
    InOrder
    NoStrandedWrite
    NoLostWakeup
    NoLostSignal
PROPERTIES
    SessionSpec
