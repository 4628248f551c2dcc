SPECIFICATION Spec
CONSTANTS
    Notes = {n1, n2}
    Callers = {q}
    Configs <- AllConfigs
SYMMETRY AlikeNotes
INVARIANTS
    TypeOK
    OneCallOnConnection
    EveryChunkHasVector
    SilentOnlyWhenEmpty
    SignalledIsServed
    FailsIffAllDo
