CONSTANTS
    Names = {"setup", "inputs", "outputs", "build", "notes", "data"}
    MaxLines = 100000
    MaxNodes = 4
    MaxItems = 10000
    LineKinds <- Written
    ToolSets = {{}, {"data"}}
    Drafts <- Begun
    Answers <- Said
    None = None
    MaxLen = 4
    MaxAsked = 2
    MaxStart = 2
SPECIFICATION MCSpec
INVARIANTS TypeOK EchoAgrees LinesTellWhere ContradictionsAreReal
PROPERTY ReferencesOnlySilence
