SPECIFICATION Spec
CONSTANTS
    Users = {u1}
    Sessions = {s1, s2}
    Sensors = {c1}
    Tasks = {t1, t2}
    MaxFD = 2
    MaxConns = 2
    MaxDeferred = 1
    NoSession = NoSession
    NullSession = NullSession
    NoUser = NoUser
SYMMETRY Symmetry
CHECK_DEADLOCK FALSE
INVARIANTS
    DescriptorsOwned
    
    
    OneWorkerUnlessDeferred
