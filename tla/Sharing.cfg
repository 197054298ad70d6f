SPECIFICATION Spec
CONSTANTS
    Files = {f}
    Sessions = {s1, s2}
    Visitor = Visitor
    Requests = {r1, r2}
    Links = {l1}
    None = None
    Second = 2
    Window = 2
    Lag = 2
    End = 4
    MaxChanges = 3
SYMMETRY Symmetry
INVARIANT TypeOK
INVARIANT ReadYourWrites
PROPERTY KeepsOnlyTheDeleted
PROPERTY DeletionEndsLinks
PROPERTY MissedOnlyAtWindowEnd
