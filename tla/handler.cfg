SPECIFICATION BotSpec
CONSTANTS
    u1 = u1
    u2 = u2
    m1 = m1
    m2 = m2
    m3 = m3
    group = group
    dm = dm
    ns1 = ns1
    ns2 = ns2
    Users = {u1}
    Msgs = {m1, m2}
    Sender <- OneSender
    Admins = {u1}
    ChatOf <- OneGroup
    DmOf <- OneDm
    MayBe <- BesideAny
    MayFail = {}
    Convos = {group, dm}
    NsOrder <- OneNamespace
    NsOf <- GroupNs
    Retain = 1
    Allowance <- SmallAllowance
    DefTier = "default"
    EarlierTier <- NoEarlierTier
    RequestedTiers = {}
    RateWindow = 1
    Cooldown = 1
    MaxClock = 2
    Servers <- TwoServers
    Names = {"add", "fetch"}
    OwnTools = {}
    Allow <- CalcAdds
    Deny <- WebDenied
    Advertises <- MayOffer
    MaxSteps = 2
    ContextTokens = 1
    Findings <- SmallFindings
INVARIANTS
    BotTypeOK
    NoTraceWithoutConsent
    ToolCallsPermitted
    NeverAskedBare
    NoSessionLeft
PROPERTIES
    KeepsPromise
