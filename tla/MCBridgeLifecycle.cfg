SPECIFICATION Spec
CONSTANTS
    c1 = c1
    c2 = c2
    c3 = c3
    NoClient = NoClient
    Client <- ThreeClients
    max_clients_ = 2
    DATA_THRESHOLD = 1
    MaxChunks = 0
    MaxPosts = 1
    ResourceFaults = TRUE
SYMMETRY Symmetry
INVARIANTS
    HandlerClientLive
    SocketsBounded
    LifecycleRequestsLive
    DisconnectingIsClosing
    EstablishedClosedOnce
    ClockReadInitialised
    FaultCauses
    BridgeInv
PROPERTIES
    NoResurrection
    SessionSpec
