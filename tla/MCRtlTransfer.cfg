SPECIFICATION FairRtlSpec
CONSTANTS
    WordSize = 3
    BankSize = 2
    StackSlots = 1
    RamWords = 2
    DeviceAt <- TransferMap
    Instructions <- TransferInstructions
    PowerUp <- CountingRegisters
    Alu <- NoAlu
INVARIANTS
    DmaOnlyInCommit
PROPERTIES
    ImplementsIsaSystem
    KeepsFetching
