SPECIFICATION Spec
CONSTANTS
    c1 = c1
    c2 = c2
    Callers = {c1, c2}
    Ceiling = 2
    Period = 2
    MaxTokens = 2
    Usages <- SmallUsages
    MaxClock = 4
    MaxCharged = 6
INVARIANTS
    TypeOK
    OverspendBound
    WindowBound
PROPERTIES
    RefusedOnlyWhenSpent
    RestartKeepsSpend
