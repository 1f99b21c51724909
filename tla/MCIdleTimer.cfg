SPECIFICATION FairSpec
CONSTANTS
    timeout_ = 2
    SECOND = 3
PROPERTIES
    OnlyIdleClosed
    AbandonedClosed
