SPECIFICATION FairSpec
CONSTANTS
    n1 = n1
    n2 = n2
    n3 = n3
    n4 = n4
    a = a
    b = b
    Node <- MCNode
    Value <- MCValue
    Default = dflt
    NULL = null
    MaxProduce = 4
INVARIANTS
    NoDanglingAccess
    EmptyExact
    SizeBound
    NoLeak
    QueueInv
PROPERTIES
    FifoSpec
    ProduceReturns
