SPECIFICATION Spec
CONSTANTS
    UsPerDay = 3
    None = None
    EvalCap = 2
    MaskBits = 2
    Null = Null
    Odd = Odd
    Unset = Unset
    Failed = Failed
    Tables <- MCTables
    Requests <- MCRequests
    Found <- MCFound
    Needed <- MCNeeded
    Wanted <- MCWanted
INVARIANTS GivenInOrder AnswerWhole BatchesFull OpensFew
PROPERTIES ReadEnds
CHECK_DEADLOCK FALSE
