SPECIFICATION Spec
CONSTANTS
    DATA_THRESHOLD = 4
    ChunkSizes = {1, 3, 6}
    MaxChunks = 4
INVARIANTS
    BodyWithinMax
