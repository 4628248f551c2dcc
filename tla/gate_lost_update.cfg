SPECIFICATION GateSpec
CONSTANTS
    u1 = u1
    u2 = u2
    m1 = m1
    m2 = m2
    Users = {u1}
    Msgs = {m1, m2}
    Sender <- OneSender
    Allowance <- SmallAllowance
    DefTier = "throttled"
    EarlierTier <- NoEarlierTier
    RequestedTiers = {"admin", "default"}
    RateWindow = 1
    Cooldown = 0
    MaxClock = 1
INVARIANT
    UpdatesSurvive
