SPECIFICATION LibSpec
CONSTANTS
    WordBits = 4
    Unit <- RtlAlu
    Routines <- AllRoutines
INVARIANTS
    SumCorrect
    DifferenceCorrect
    DoubleCorrect
