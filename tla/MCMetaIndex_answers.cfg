SPECIFICATION Spec
CONSTANTS
    W64 = 16
    WAxis = 8
    None = None
    Inputs <- MCInputs
    PairLists <- SomePairs
    Predicates <- ScansInOrder
    Withins <- SomeWithins
    Limits <- SomeLimits
INVARIANTS SoundForAnyInput GapsRefused PointsExact ScansExact
