SPECIFICATION Spec
CONSTANTS
    home = home
    group = group
    Namespaces = {home, group}
    Configs <- HomeOrBoth
    Turns = {1}
    Window = 2
    Retain = 2
    Delay = 1
    Behind = 1
    AnswerTime = 1
    MaxClock = 11
INVARIANTS
    TypeOK
    HeldIsOnRecord
    ExpiredGoesInTime
    DroppedIsForgotten
