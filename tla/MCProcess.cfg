SPECIFICATION Spec
CONSTANTS
    Levels = {0, 2, 4}
    MaxLines = 3
INVARIANTS
    LinesWhole
    FaultsOnlyAtExit
