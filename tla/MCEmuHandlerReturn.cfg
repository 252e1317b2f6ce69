SPECIFICATION HistSpec
CONSTANTS
    WordSize = 2
    BankSize = 1
    StackSlots = 2
    Instructions <- FlowInstructions
    PowerUp <- ZeroRegisters
    Alu <- NoAlu
PROPERTY
    HandlerReturnsToInterrupted
