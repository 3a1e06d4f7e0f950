CONSTANTS
    N = 2
    Values <- MCValues
    Zero = 0
    NULL = NULL
    NoColumn = NoColumn
    NoFile = NoFile
    Types = {"int", "bit"}
    Convert <- MCConvert
    MaxGen = 3
    Drops = TRUE
    Fails = TRUE
    Sliced = TRUE
    LayoutEdits = FALSE
SPECIFICATION Spec
INVARIANTS TypeOK LayoutDescribed WorkingCountExact
