SPECIFICATION Spec
CONSTANTS
    ChunkSize = 3
    MaxPieces = 4
    Limit = 3
    Downloads = {d1, d2}
    MaxFaults = 3
SYMMETRY DownloadSymmetry
INVARIANTS
    TypeOK
    CommittedWhole
    OutputIsPrefix
    RoundTrip
    OnlyLostTailUnnoticed
