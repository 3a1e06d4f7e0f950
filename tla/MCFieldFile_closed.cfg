CONSTANTS
    N = 2
    Values <- MCValues
    Zero = 0
    NULL = NULL
    NoColumn = NoColumn
    NoFile = NoFile
    Types = {"int", "bit"}
    Convert <- MCConvert
    MaxGen = 3
    Drops = FALSE
    Fails = TRUE
    Sliced = FALSE
    LayoutEdits = FALSE
SPECIFICATION Spec
INVARIANT NullCountExact
PROPERTIES GenerationKept FieldIsColumn
