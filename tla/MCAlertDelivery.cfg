SPECIFICATION Spec
CONSTANTS
    Users = {u1, u2}
    Sessions = {s1, s2}
    Alerts = {a1, a2}
    QueueSize = 1
    NoSession = NoSession
    NoUser = NoUser
    NoAlert = NoAlert
SYMMETRY Symmetry
INVARIANTS
    TypeOK
    RegistryPartition
    RegistryMatchesSessions
    
    
    NewestEventsKept
