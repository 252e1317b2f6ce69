SPECIFICATION SysSpec
CONSTANTS
    WordSize = 2
    BankSize = 1
    StackSlots = 1
    Instructions <- SystemInstructions
    PowerUp <- ZeroRegisters
    Alu <- NoAlu
    TimeValues = 3
    CountValues = 3
    RxBound = 2
INVARIANTS
    SysTypeOK
    RxReadyMirrorsBuffer
    CompletionVisible
    KeyInterruptHasKey
    StackInRange
PROPERTIES
    DmaStallsCpu
    SavedAddressKept
