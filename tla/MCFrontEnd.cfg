SPECIFICATION MCSpec
CONSTANTS
    Sid <- TwoSids
    Requests <- MCRequests
    Resources <- MCResources
    max_clients_ = 1
    NULL = NULL
    Byte <- MCByte
    MaxLen = 4
INVARIANTS
    BackendSuits
    ExactlyOnceIfWhole
    RoundTrip
    InBounds
