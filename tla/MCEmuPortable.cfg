\* A portable program may end: at the last word of a bank none can go on.
CHECK_DEADLOCK FALSE
SPECIFICATION PortableSpec
CONSTANTS
    MCWordBits = 2
    WordSize <- MCWordSize
    BankSize = 2
    StackSlots = 3
    Instructions <- PortableInstructions
    PowerUp <- ZeroRegisters
    Alu <- MCEmuAlu
    HardwareAlu <- MCRtlAlu
INVARIANTS
    PortableStaysInBank
PROPERTY
    EmulatesHardware
