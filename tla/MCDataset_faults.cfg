SPECIFICATION Spec
CONSTANTS
    Handles = {w, r}
    Writers = {w}
    Names = {"b", "c"}
    Leaf <- FlatLeaf
    Grids = {g1, g2}
    Vals = {x}
    Inodes <- MCInodes3
    None = None
    Faults = TRUE
    Layouts = {FALSE}
INVARIANTS SchemaOnDisk RowsAligned
