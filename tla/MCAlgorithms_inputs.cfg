SPECIFICATION Spec
CONSTANTS
    UsPerDay = 3
    None = None
    ByteBits = 3
    WordBits = 6
    ChunkRows = 2
    Corrupt = Corrupt
    ValueBits = 6
    Exact = 16
    NaN = NaN
    Mismatch = Mismatch
    EvalCap = 5
    MaskBits = 2
    Null = Null
    Odd = Odd
    Unset = Unset
    Failed = Failed
    Probes <- MCProbes
    WalkDays = 400
INVARIANTS CalendarAgrees SplitExact EncodingExact ChunksExact
INVARIANTS ValuesExact RowsFoundExact DatasetScanExact
CHECK_DEADLOCK FALSE
