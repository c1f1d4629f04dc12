SPECIFICATION Spec
CONSTANTS
    s1 = s1
    s2 = s2
    wA = wA
    wB = wB
    meat = meat
    water = water
    Sessions = {s1, s2}
    Clients = {wA, wB}
    Owner <- TwoClients
    Items = {meat, water}
    ValidItems = {meat, water}
    Quantities <- SomeQuantities
    Hubs = {}
    NoStock = NoStock
    NoReply = NoReply
    NoSession = NoSession
PROPERTY ImplementsStore
INVARIANTS TypeOK 
