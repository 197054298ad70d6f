SPECIFICATION Spec
CONSTANTS
    Signups = {s1, s2}
    Logins = {l1, l2}
    Settings = {r1, r2}
    Secrets = {x1, x2}
    None = None
    Threshold = 2
    LockTime = 2
    SessionTime = 1
    End = 3
    MaxFaults = 1
SYMMETRY RequestSymmetry
INVARIANTS
    TypeOK
    OneAccount
    CountIsFailures
    LockMatchesCount
    VerdictsAreCurrent
    SecretConfirmed
PROPERTIES
    FailuresNeverEaseLock
    AdmittedAsTold
