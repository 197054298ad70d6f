SPECIFICATION Spec
CONSTANTS
    ChunkSize = 3
    MaxPieces = 3
    Limit = 2
    Downloads = {d1}
    MaxFaults = 1
INVARIANT
    FailureCutsConnection
