SPECIFICATION GateSpec
CONSTANTS
    u1 = u1
    u2 = u2
    m1 = m1
    m2 = m2
    Users = {u1, u2}
    Msgs = {m1, m2}
    Sender <- SmallSender
    Allowance <- SmallAllowance
    DefTier = "throttled"
    EarlierTier <- NoEarlierTier
    RequestedTiers = {"default", "gold"}
    RateWindow = 2
    Cooldown = 2
    MaxClock = 3
SYMMETRY AlikeUsers
INVARIANTS
    GateTypeOK
    ConsentNeverInferred
    NeverNudgedOnceAnswered
    RateBound
PROPERTY
    NudgeOncePerCooldown
