SPECIFICATION FairExec
CONSTANTS
    alice = alice
    s1 = s1
    s2 = s2
    b1 = b1
    b2 = b2
    None = None
    User = {owner}
    Owner = owner
    Online = {owner}
    Bot = {b1, b2}
    BotOwner <- MCOwnBots
    BotAt <- MCBotAt
    SeatId = {s1}
    Seated <- MCSeated
    RunId = {r1, r2}
    StartKey <- MCJob
    Msg = {m1, m2}
    Env = {}
    Approval = {p1}
    MaxDepth = 10
    MaxCrashes = 2
INVARIANTS
    BlockedNeedsUser
    OneRunPerJob
PROPERTIES
    
    Restarts
