SPECIFICATION Spec
CONSTANTS
    u1 = u1
    u2 = u2
    m1 = m1
    c1 = c1
    c2 = c2
    t1 = t1
    t2 = t2
    Users = {u1, u2}
    Msgs = {m1}
    Sender <- AdminsMessage
    Tokens = {t1, t2}
    Clicks = {c1, c2}
    Clicker <- EitherClicks
    TTL = 1
    Proposals <- SmallProposals
    Leftovers <- OldButtons
    Allowance <- SmallAllowance
    DefTier = "default"
    EarlierTier <- FirstIsAdmin
    RequestedTiers = {"admin", "default", "gold"}
    RateWindow = 3
    Cooldown = 0
    MaxClock = 3
INVARIANTS
    TypeOK
    RunsOnce
    AuthorityFromAdmins
PROPERTIES
    ButtonTellsTruth
    StaleTokensGo
