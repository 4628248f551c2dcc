SPECIFICATION Spec
CONSTANTS
    u1 = u1
    u2 = u2
    m1 = m1
    m2 = m2
    m3 = m3
    group = group
    dm = dm
    ns1 = ns1
    ns2 = ns2
    Users = {u1}
    Msgs = {m1, m2, m3}
    Sender <- OneSender
    Admins = {u1}
    ChatOf <- OneGroup
    DmOf <- OneDm
    MayBe <- AroundWithdrawal
    MayFail = {"quarantine"}
    Convos = {group, dm}
    NsOrder <- TwoNamespaces
    NsOf <- GroupNs
    Retain = 2
    Allowance <- SmallAllowance
    DefTier = "default"
    EarlierTier <- NoEarlierTier
    RequestedTiers = {}
    RateWindow = 1
    Cooldown = 1
    MaxClock = 2
INVARIANTS
    BufferForgets
    ErasedMeansGone
    ErasedReplyHolds
