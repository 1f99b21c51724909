SPECIFICATION FairSpec
CONSTANTS
    c1 = c1
    c2 = c2
    c3 = c3
    NoClient = NoClient
    Client <- TwoClients
    max_clients_ = 2
    DATA_THRESHOLD = 1
    MaxChunks = 0
    MaxPosts = 1
    ResourceFaults = FALSE
PROPERTIES
    ConnectAnswered
    SlotReclaimed
    PostDrained
