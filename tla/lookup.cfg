SPECIFICATION Spec
CONSTANTS
    Paths = {1, 2}
    Walk <- TheWalk
    Notes <- NotesOf
    Key <- KeyOf
    Dimensions = {"theme", "players"}
    Orderable = {"date"}
    NaN = NaN
    Infinity = 2
    Requests <- RequestsOf
    MaxReindexes = 1
VIEW Seen
INVARIANTS
    TypeOK
    BackendsAgree
    ListedMatches
    NothingLeftOut
    InOneOrder
