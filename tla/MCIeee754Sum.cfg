SPECIFICATION IeeeSpec
CONSTANTS
    ExpBits = 3
    FracBits = 3
INVARIANT SumRoundsToNearest
