SPECIFICATION Spec
CONSTANTS
    Lang = {"rust", "python", "typescript"}
    Root <- MCRoot
    Grammar <- MCGrammar
    Nameless <- MCNameless
    MaxNodes = 6
    MaxRow = 2
    ScipSymbol = {s1, s2}
    Dotted <- MCDotted
    s1 = s1
    s2 = s2
    MaxLine = 1
    MaxOccurrences = 3
INVARIANTS
    TypeOK
    CallerIsInnermost
    CallersAreSymbols
    FoundIsInnermost
    DiffShowsFirstDefinition
    SymbolSourceIsItsRows
    ScipEdgesStandInSymbols
CHECK_DEADLOCK FALSE
