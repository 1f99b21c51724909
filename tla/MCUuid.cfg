SPECIFICATION Spec
CONSTANTS
    HEX = 4
    Interfaces <- ManyInterfaces
    MAX_IFS = 2
    Times <- CarryTimes
    Seeds <- MCSeeds
    MaxIds = 66
INVARIANTS
    RepeatPeriod
    TextIdentifies
    NullIffFailed
