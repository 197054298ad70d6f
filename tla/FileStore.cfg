SPECIFICATION Spec
CONSTANTS
    Uploads = {u1, u2, u3}
    None = None
    Star = Star
    Paths <- OnePath
    HashOf <- OwnHash
    NameOf <- OwnName
    CopyOf <- SameCopy
    InWindow = {u1, u2, u3}
    MaxConns = 3
    MaxListed = 2
    MaxFaults = 1
SYMMETRY UploadSymmetry
INVARIANTS
    TypeOK
    CurrentIsNewest
    CurrentReadable
    OneActivePerName
    NoBytesWithoutRow
    OneWinnerPerVersion
    LocksItsTarget
PROPERTIES
    IfMatchReplacesThatVersion
    PreconditionsHoldAtCommit
    CurrentOnlyAdvances
    ImplementsHistory
