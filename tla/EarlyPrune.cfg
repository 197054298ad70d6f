SPECIFICATION Spec
CONSTANTS
    Uploads = {u1, u2}
    None = None
    Star = Star
    Paths <- OnePath
    HashOf <- OwnHash
    NameOf <- OwnName
    CopyOf <- SameCopy
    InWindow = {u1, u2}
    MaxConns = 3
    MaxListed = 2
    MaxFaults = 0
PROPERTIES
    SupersededKept90Days
