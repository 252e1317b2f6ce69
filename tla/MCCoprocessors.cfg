SPECIFICATION FairCopSpec
CONSTANTS
    Half = {0, 1}
    ZeroHalf = 0
    Operations = {"ADD", "DIV"}
    NoOperation = "ADD"
    Calculate <- Triple
    NoResult <- Empty
    WordBits = 2
    Commands = {0, 1, 2, 3, 4, 5, 6, 7, 8}
    Programs <- OneDevice
INVARIANTS
    SettledAtAccess
    WideAgrees
    ProductAgrees
PROPERTIES
    ImplementsDevice
    CommandsEnd
