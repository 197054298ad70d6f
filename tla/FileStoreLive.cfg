SPECIFICATION LivePurgeSpec
CONSTANTS
    Uploads = {u1, u2}
    None = None
    Star = Star
    Paths <- TwoPaths
    HashOf <- OwnHash
    NameOf <- SameName
    CopyOf <- CopyAtB
    InWindow = {u1, u2}
    MaxConns = 3
    MaxListed = 2
    MaxFaults = 1
    Unwanted = {u1}
INVARIANTS
    PurgeTypeOK
    GoneForGood
    OthersUntouched
    BytesOnlyUnderGone
PROPERTIES
    OthersAdvance
    ImplementsErasable
    UploadsEnd
    OverdueErased
    OldVersionsPruned
    PurgeEnds
