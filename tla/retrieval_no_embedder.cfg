SPECIFICATION Spec
CONSTANTS
    Notes = {n1, n2}
    Callers = {q}
    Configs <- AllConfigs
INVARIANT
    VectorsForAllOrNone
