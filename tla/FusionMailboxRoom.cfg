SPECIFICATION MailSpec
CONSTANTS
    s1 = s1
    s2 = s2
    b1 = b1
    b2 = b2
    None = None
    User = {owner}
    Owner = owner
    Online = {owner}
    Bot = {b1, b2}
    BotOwner <- MCOwnBots
    BotAt <- MCBotAt
    SeatId = {s1, s2}
    Seated <- MCSeated
    RunId = {r1, r2}
    StartKey = {}
    Msg = {m1}
    Env = {e1, e2, e3}
    Approval = {p1}
    MaxDepth = 1
SYMMETRY MailSymmetry
INVARIANTS
    MailTypeOK
    AnsweredByOneReply
    DepthLimitsChain
