SPECIFICATION Spec
CONSTANTS
    Letters = {"a", "print"}
    Symbols = {";", "="}
    MaxTokens = 60
    MaxVars = 2
    MaxFuncs = 1
    LongBits = 8
    MaxText = 5
INVARIANTS
    LexesWords
    ProgramMeaning
PROPERTIES
    Terminates
