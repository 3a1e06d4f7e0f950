SPECIFICATION Spec
CONSTANTS
    r1 = r1
    r2 = r2
    Parts = {1, 2}
    Cols = {a, b}
    Types = {t, u}
    Rows = {r1, r2}
    Packs = {FALSE, TRUE}
    Inputs <- MCInputs
    Strangers <- MCStrangers
    None = None
SYMMETRY Interchangeable
CONSTRAINTS OneTrouble StaysSo
INVARIANTS StatsExact CacheTrue TypesAgree
PROPERTIES UnsavedKept
CHECK_DEADLOCK FALSE
