SPECIFICATION ExecSpec
CONSTANTS
    alice = alice
    s1 = s1
    s2 = s2
    b1 = b1
    b2 = b2
    None = None
    User = {owner, alice}
    Owner = owner
    Online = {owner}
    Bot = {b1, b2}
    BotOwner <- MCLentBots
    BotAt <- MCBotAt
    SeatId = {s1, s2}
    Seated <- MCSeated
    RunId = {r1, r2, r3}
    StartKey <- MCJob
    Msg = {m1}
    Env = {e1, e2}
    Approval = {}
    MaxDepth = 10
    MaxCrashes = 1
SYMMETRY ExecSymmetry
INVARIANTS
    ExecTypeOK
    
    
