SPECIFICATION AsmSpec
CONSTANTS
    Sources <- FileSystems
    MainFile = "main"
    MaxIncludeDepth = 3
    WordSize = 4
    MaxLines = 3
INVARIANTS
    OpenedOnce
    EmissionMatchesLayout
    WarningsExact
    ExpansionIsText
    LabelsWhereTheyPoint
    CodeMeansSource
