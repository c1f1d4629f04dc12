SPECIFICATION Spec
CONSTANTS
    Users = {u1, u2}
    Sessions = {s1, s2}
    NoSession = NoSession
    NoUser = NoUser
    BlockTime = 2
    MaxTime = 4
    IntMax = 5
SYMMETRY Symmetry
INVARIANTS
    TypeOK
    AttemptsWithinCheck
    LockoutHolds

    
