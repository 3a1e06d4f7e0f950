SPECIFICATION Spec
CONSTANTS
    Handles = {w}
    Writers = {w}
    Names = {"b", "c"}
    Leaf <- FlatLeaf
    Grids = {g1, g2}
    Vals = {x, y}
    Inodes <- MCInodes4
    None = None
    Faults = FALSE
    Layouts = {FALSE, TRUE}
INVARIANT CacheOnPath
PROPERTY DatasetIsColumns
