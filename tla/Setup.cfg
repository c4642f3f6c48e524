SPECIFICATION SetupSpec
CONSTANTS
    Sources <- MCSources
    ParseInt <- MCParseInt
    ParseFloat <- MCParseFloat
    ParseBool <- MCParseBool
    OldBool <- MCOldBool
    TrimSlash <- MCTrimSlash
    Names <- MCNames
    Binds <- MCBinds
    Files <- AllFiles
    Setups <- AllSetups
    MaxReadWords = 4
    AddressSpace = 8
    GapThreshold = 1
    Split <- MCSplit
    VirtualSet <- MCVirtual
INVARIANTS
    Honoured NeverPlain
    WritesWhereItReads FirstWins
    Windows FewestRequests
    ControlsWhatItShows ShownWhereItIsPolled
CHECK_DEADLOCK FALSE
