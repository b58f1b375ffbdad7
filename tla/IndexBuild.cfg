SPECIFICATION Spec
CONSTANTS
    DefaultLength = 3
    IntSize = 1
    Symbols <- MCSymbols
    Inputs <- MCInputs
    Rewrites <- MCRewrites
    NewLines <- MCNewLines
    Colliding <- MCColliding
    Unwritten = Unwritten
INVARIANTS
    ConfigAsWritten
    StaysInBounds
    LookupIsExact
CHECK_DEADLOCK FALSE
