SPECIFICATION Spec
CONSTANTS
    u1 = u1
    u2 = u2
    u3 = u3
    u4 = u4
    u5 = u5
    None = None
    Host = {h1, h2}
    Creator = {h1}
    Update = {u1, u2, u3}
    Kind <- MCLogged
INVARIANTS
    TypeOK
    CachesArePrefixes
    ShownIsCurrent
PROPERTY
    ImplementsRoomLog
