SPECIFICATION Spec
CONSTANTS
    Tables <- MCTables
    Fields <- MCFields
    FirstField = "id"
    Unknown = "none"
    IndexSeq <- MCIndexSeq
    IntFields = {"id"}
    Symbols <- MCSymbols
    Texts <- MCTexts
    MaxInt = 15
    MaxLength = 3
    FaultSets <- MCFaultSets
    None = None
    Partial = Partial
INVARIANTS
    WholeFiles
    AnswersRight
PROPERTIES
    NoLeftover
CHECK_DEADLOCK FALSE
