SPECIFICATION Spec
CONSTANTS
    Procs = {w1, w2}
    Parts = {1, 2}
    Keys = {1, 2, 3}
    PartOf <- MCPartOf
    Cols = {"a", "b"}
    Inputs <- MCInputs
    FirstKeys = {1, 2}
    FirstCols = {"a"}
    Old = Old
    Null = Null
    Junk = Junk
    None = None
    Left = Left
    Threads = 2
    Misreads = FALSE
    MaxCalls = 3

PROPERTY ColumnsKept
CHECK_DEADLOCK FALSE
