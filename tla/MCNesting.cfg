SPECIFICATION DisciplinedSpec
CONSTANTS
    WordSize = 2
    BankSize = 1
    StackSlots = 5
    Instructions <- NestInstructions
    PowerUp <- ZeroRegisters
    Alu <- NoAlu
INVARIANTS
    InterruptsDoNotNest
