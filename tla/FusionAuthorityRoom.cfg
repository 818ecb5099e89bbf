SPECIFICATION Spec
CONSTANTS
    alice = alice
    b1 = b1
    b2 = b2
    None = None
    User = {owner, alice}
    Owner = owner
    Bot = {b1, b2}
    BotOwner <- MCBotOwner
    SeatId = {s1, s2}
    RunId = {r1, r2}
    StartKey = {k1}
SYMMETRY SeatRunSymmetry
INVARIANTS
    TypeOK
    SeatBusyIffRunning
    RunningAuthorized
    RunningHoldsLatestFence
    CoordinatorConsistent
PROPERTY
    SettledRunsFrozen
