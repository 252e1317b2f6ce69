SPECIFICATION Spec
CONSTANTS
    MCWordBits = 1
    WordSize <- MCWordSize
    BankSize = 2
    StackSlots = 2
    Instructions <- ProgramInstructions
    PowerUp <- ZeroRegisters
    Alu <- MCAlu
INVARIANTS
    CpuTypeOK
    PcHeld
    BranchVerdictStable
    AccessAddressCurrent
    HaltAndInterruptOK
PROPERTIES
    ImplementsIsa
    PacesAccesses
