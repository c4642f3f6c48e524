SPECIFICATION ConfigSpec
CONSTANTS
    Sources <- AllSources
    ParseInt <- MCParseInt
    ParseFloat <- MCParseFloat
    ParseBool <- MCParseBool
    OldBool <- MCOldBool
    TrimSlash <- MCTrimSlash
    Names <- MCNames
    Binds <- MCBinds
INVARIANTS AnySpelling
CHECK_DEADLOCK FALSE
