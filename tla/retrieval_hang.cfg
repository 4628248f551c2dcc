SPECIFICATION LiveSpec
CONSTANTS
    Notes = {n1}
    Callers = {q}
    Configs <- AllConfigs
PROPERTY
    QueriesEnd
