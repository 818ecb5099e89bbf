SPECIFICATION Spec
CONSTANTS
    a = a
    b = b
    Member = {a, b}
    Bots = {b}
    Leavers = {b}
    Addressed <- MCAddressed
    Limits = {1, 2}
    MaxA2ADepth = 4
    MaxRuns = 3
    MaxRequests = 2
    MaxCrashes = 1
INVARIANTS
    RoomTypeOK
    SlotsMatchTurns
    NoIdleSlot
    OneTurnPerMember
    OneRunPerCause
PROPERTY
    SpeaksOnlyWhileRunning
